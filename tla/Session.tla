------------------------------ MODULE Session ------------------------------
(***************************************************************************)
(* The server's session adapter (server/session.rs) over one authenticated *)
(* connection with many channels: the map of destinations, the poll loop   *)
(* that multiplexes the SSH socket and every destination in one task, and  *)
(* the wakers on which the task sleeps.                                    *)
(*                                                                         *)
(* Channels of both connections are records of module Channel kept in a    *)
(* table of module ChannelTable, so numbers are allocated, freed and used  *)
(* again as in the code.  No key exchange is under way (see ChannelLink).  *)
(*                                                                         *)
(* A forwarding f is one channel the client opens; byte i of its stream is *)
(* <<f, i>> in both directions, so that a byte that reaches the wrong      *)
(* forwarding shows.  The client is a program over a Connection that reads *)
(* at once whatever arrives.  Its write queue is read by the server        *)
(* directly; towards the client there is a socket of SockCap packets.      *)
(***************************************************************************)
EXTENDS Channel, FiniteSets

CONSTANTS
  MaxChannels,  \* max_channels of both tables
  Fwds,         \* the forwardings, a set of numbers
  Healthy,      \* those whose destination answers, reads and writes
  Loads,        \* what the client and the destinations may do (see below)
  RoomMax,      \* bytes a destination's socket takes before it blocks
  SockCap,      \* packets the SSH socket takes before it blocks
  RrSpace       \* values of rr: 2^32; here a multiple of every table size

ASSUME SessionAssumptions ==
  /\ Fwds \subseteq Nat \ {0} /\ Healthy \subseteq Fwds
  /\ Loads \subseteq [kinds : [Fwds -> SUBSET {"direct", "session", "other"}],
                     up : [Fwds -> Nat], down : [Fwds -> Nat],
                     quitters : SUBSET Fwds,
                     faults : SUBSET {"refuse", "late", "break", "hangup"}]
  /\ {RoomMax, SockCap, RrSpace} \subseteq Nat \ {0}

VARIABLES
  load,         \* the load of this behaviour; it never changes
  server,       \* the server's Connection
  client,       \* the client's Connection
  fwd,          \* what the client's program knows of each forwarding
  dests,        \* Session.dests: from channel numbers to destinations
  world,        \* the destinations' sockets and programs
  down,         \* packets in the SSH socket on their way to the client
  line,         \* the TCP connection: "up", "gone" (FIN) or "reset"
  poll,         \* the poll loop: where it is, and progress
  armed         \* interests whose waker is registered

vars == <<load, server, client, fwd, dests, world, down, line, poll, armed>>

Ids == 0 .. MaxChannels - 1

Kinds    == load.kinds      \* Kinds[f]: the types f may be opened with
UpLen    == load.up         \* UpLen[f]: bytes the client sends
DownLen  == load.down       \* DownLen[f]: bytes the destination sends
Wanted   == {f \in Fwds : Kinds[f] # {}}
Quitters == load.quitters   \* forwardings the client may close at any time

Table == INSTANCE ChannelTable WITH
           Channels <- {}, table <- server.table, ret <- None

-----------------------------------------------------------------------------
(* A connection and its channels.                                          *)

NewConnection ==
  [table |-> Table!EmptyTable, write_q |-> << >>, events |-> << >>,
   rr |-> 0, closed |-> FALSE, error |-> FALSE]

Live(s, id) == Table!Live(s.table, id)

\* The channel with number id, together with the connection's write queue.
Chan(s, id) ==
  [(IF Live(s, id) THEN s.table.slots[id + 1].ch ELSE NoChannel)
     EXCEPT !.write_q = s.write_q]

\* The connection s with channel id replaced by c, or freed if c is.
Store(s, id, c) ==
  LET kept == [c EXCEPT !.write_q = << >>, !.error = FALSE]
  IN [s EXCEPT !.table = IF c.slot = "live"
                           THEN [@ EXCEPT !.slots[id + 1].ch = kept]
                           ELSE Table!FreeIn(@, id),
               !.write_q = c.write_q,
               !.error = @ \/ c.error]

Apply(s, id, Op(_)) == Store(s, id, Op(Chan(s, id)))

\* channels.alloc of a new channel; the caller asks CanAlloc first.
AllocChannel(s, c, kind, host) ==
  [s EXCEPT !.table = Table!AllocIn(@, [c EXCEPT !.kind = kind,
                                                 !.host = host])]

Event(s, t, id, host) ==
  [s EXCEPT !.events = Append(@, [t |-> t, id |-> id, host |-> host])]

\* iter_ids.
LiveIds(s) == SelectSeq([i \in 1 .. Len(s.table.slots) |-> i - 1],
                        LAMBDA id : Live(s, id))

FlushPendingAll(s) ==
  FoldLeft(LAMBDA a, id : Apply(a, id, FlushPending), s, LiveIds(s))

-----------------------------------------------------------------------------
(* core/conn.rs, handle_payload.                                           *)

OnOpen(s, m) ==
  IF m.kind = "other"
    THEN [s EXCEPT !.write_q = Append(@, [t |-> "FAILURE", to |-> m.from])]
  ELSE IF ~Table!CanAlloc(s.table)
    THEN [s EXCEPT !.error = TRUE]
  ELSE Event(AllocChannel(s, OnChannelOpen(NoChannel, m.from), m.kind, m.host),
             m.kind, Table!AllocId(s.table), m.host)

\* Slip: the event is forgotten.
OnCloseSilent(s, id) == IF Live(s, id) THEN Apply(s, id, OnChannelClose) ELSE s

OnClose(s, id) ==
  IF Live(s, id) THEN Event(Apply(s, id, OnChannelClose), "CLOSE", id, None)
                 ELSE s

\* Events that neither the session nor the client's program acts on are left
\* out.
HandlePayload(s, m) ==
  IF s.error THEN s ELSE
  CASE m.t = "OPEN"    -> OnOpen(s, m)
    [] m.t = "CONFIRM" -> Apply(s, m.to, LAMBDA c : OnOpenConfirm(c, m.from))
    [] m.t = "FAILURE" -> Apply(s, m.to, OnOpenFail)
    [] m.t = "ADJUST"  -> Apply(s, m.to, LAMBDA c : OnWindowAdjust(c, m.add))
    [] m.t = "DATA"    -> Apply(s, m.to, LAMBDA c : OnChannelData(c, m.data))
    [] m.t = "EOF"     -> Event(Apply(s, m.to, OnChannelEof), "EOF", m.to, None)
    [] m.t = "CLOSE"   -> OnClose(s, m.to)
    [] m.t = "DISCONNECT" -> [s EXCEPT !.closed = TRUE]

ProcessIn(s, ms) ==
  LET r == FoldLeft(HandlePayload, s, ms)
  IN IF r.error THEN r ELSE FlushPendingAll(r)

Disconnect(s) ==
  IF s.closed
    THEN s
    ELSE [s EXCEPT !.write_q = Append(@, [t |-> "DISCONNECT"]),
                   !.closed = TRUE]

-----------------------------------------------------------------------------
(* server/session.rs.  A poll works on the record z: the connection s, the *)
(* map of destinations d, the destinations' sockets w, the registered      *)
(* wakers a, and progress.                                                 *)

Task == [s |-> server, d |-> dests, w |-> world, a |-> armed,
         progress |-> poll.progress]

Connecting(f) == [up |-> FALSE, f |-> f, write_shutdown |-> FALSE,
                  read_eof |-> FALSE]

SshRead   == <<"ssh_r", 0>>
SshWrite  == <<"ssh_w", 0>>
Answered(f) == <<"conn", f>>
Readable(f) == <<"dest_r", f>>
Writable(f) == <<"dest_w", f>>

\* A socket becomes ready when the world lets it go on.
IsReady(i) ==
  CASE i[1] = "ssh_r"  -> client.write_q # << >> \/ line # "up"
    [] i[1] = "ssh_w"  -> Len(down) < SockCap \/ line = "reset"
    [] i[1] = "conn"   -> world[i[2]].answer # None
    [] i[1] = "dest_r" -> \/ world[i[2]].made > world[i[2]].taken
                          \/ world[i[2]].ended \/ world[i[2]].broken
    [] i[1] = "dest_w" -> world[i[2]].room > 0 \/ world[i[2]].broken

\* Pending registers the waker, an answer leaves none.
Arm(z, i)    == [z EXCEPT !.a = @ \cup {i}]
Disarm(z, i) == [z EXCEPT !.a = @ \ {i}]
Made(z)      == [z EXCEPT !.progress = TRUE]

\* A destination's socket before it is opened and after it is closed.
NoSocket == [answer |-> None, late |-> FALSE, room |-> RoomMax,
             made |-> 0, taken |-> 0, ended |-> FALSE]

\* dests.remove: the socket is closed, or the connect is abandoned.
DropDest(z, id) ==
  IF z.d[id] = None
    THEN z
    ELSE [z EXCEPT !.d[id] = None, !.a = {i \in @ : i[2] # z.d[id].f},
                   !.w[z.d[id].f] = NoSocket @@ @]

HandleEvent(z, ev) ==
  CASE ev.t = "session" -> [z EXCEPT !.s = Apply(@, ev.id, LAMBDA c :
                                                  ConfirmOpen(c, ev.id))]
    [] ev.t = "direct"  -> [z EXCEPT !.d[ev.id] = Connecting(ev.host)]
    [] ev.t = "EOF"     -> IF z.d[ev.id] # None /\ z.d[ev.id].up
                             THEN [z EXCEPT !.d[ev.id].write_shutdown = TRUE]
                             ELSE z
    [] ev.t = "CLOSE"   -> DropDest(z, ev.id)

HandleEvents(z) ==
  FoldLeft(HandleEvent, [z EXCEPT !.s.events = << >>], z.s.events)

\* Slip: the connect is given up without an answer to the client.
RefuseSilently(z, id) == Made(DropDest(z, id))

Refuse(z, id) == Made([DropDest(z, id) EXCEPT !.s = Apply(@, id, FailOpen)])

\* poll_connects settles one connect; late means that its deadline has passed.
SettleConnect(z, id) ==
  LET w == z.w[z.d[id].f]
  IN IF w.late \/ w.answer = "refuse"
       THEN Refuse(z, id)
       ELSE Made([z EXCEPT !.s = Apply(@, id, LAMBDA c : ConfirmOpen(c, id)),
                           !.d[id].up = TRUE,
                           !.a = @ \ {Answered(z.d[id].f)}])

\* The connects that are pending, those past their deadline, those answered
\* before it.
Pending(z)  == {id \in Ids : z.d[id] # None /\ ~z.d[id].up}
Expired(z)  == {id \in Pending(z) : world[z.d[id].f].late}
Finished(z) == {id \in Pending(z) \ Expired(z) : world[z.d[id].f].answer # None}

PollConnects(z, order) ==
  LET polled == [z EXCEPT !.a = @ \cup {Answered(z.d[id].f) :
                                id \in Pending(z) \ Expired(z)}]
  IN FoldLeft(SettleConnect, polled, order)

-----------------------------------------------------------------------------
(* poll_dest_one.                                                          *)

\* The destination's socket failed: send_eof, send_close, drop it.
Break(z, id) ==
  Made(DropDest([z EXCEPT !.s = Apply(@, id, LAMBDA c : SendClose(SendEof(c)))],
              id))

\* One turn of the loop that writes inbound chunks to the destination.
DestWriteOnce(z, id) ==
  LET c == Chan(z.s, id)
      f == z.d[id].f
      n == Min2(z.w[f].room, Len(Head(c.in_q)))
  IN IF c.in_q = << >> \/ z.d[id] = None \/ ~z.d[id].up
       THEN z
     ELSE IF z.w[f].broken
       THEN Break(z, id)
     ELSE IF n = 0
       THEN Arm(z, Writable(f))
     ELSE Made(Disarm([z EXCEPT
            !.s = Apply(@, id, LAMBDA x : ConsumeInbound(x, n)),
            !.w[f].room = @ - n,
            !.w[f].got = @ \o SubSeq(Head(c.in_q), 1, n)], Writable(f)))

\* Each turn writes a byte or is the last.
DestWrite(z, id) ==
  FoldLeft(LAMBDA a, b : DestWriteOnce(a, id), z,
           Append(FlattenSeq(Chan(z.s, id).in_q), None))

DestRead(z, id) ==
  LET c     == Chan(z.s, id)
      allow == OutboundAllowance(c)
      f     == z.d[id].f
      n     == Min2(allow, z.w[f].made - z.w[f].taken)
  IN IF allow = 0 \/ z.d[id] = None \/ ~z.d[id].up \/ z.d[id].read_eof
       THEN z
     ELSE IF z.w[f].broken
       THEN Break(z, id)
     ELSE IF n > 0
       THEN Made(Disarm([z EXCEPT
              !.s = Store(@, id, EnqueueOrSend(c, [i \in 1 .. n |->
                                   <<f, z.w[f].taken + i>>])),
              !.w[f].taken = @ + n], Readable(f)))
     ELSE IF z.w[f].ended
       THEN Made(Disarm([z EXCEPT !.s = Apply(@, id, SendEof),
                                  !.d[id].read_eof = TRUE], Readable(f)))
     ELSE Arm(z, Readable(f))

\* Slip: the half-close does not wait for the bytes still in in_q.
DestFinishEager(z, id) ==
  IF z.d[id] = None \/ ~z.d[id].up
    THEN z
    ELSE [z EXCEPT !.w[z.d[id].f].shut = @ \/ z.d[id].write_shutdown]

DestFinish(z, id) ==
  LET d == z.d[id]
      c == Chan(z.s, id)
      h == [z EXCEPT !.w[d.f].shut = @ \/ d.write_shutdown]
  IN IF d = None \/ ~d.up \/ c.in_q # << >>
       THEN z
     ELSE IF d.read_eof /\ (d.write_shutdown \/ c.got_eof)
       THEN Made(DropDest([h EXCEPT !.s = Apply(@, id, SendClose)], id))
     ELSE h

PollDestOne(z, id) == DestFinish(DestRead(DestWrite(z, id), id), id)

\* Slip: one destination that blocks ends the turn of all.
PollDestBlocked(z, id) ==
  IF ~Live(z.s, id) THEN DropDest(z, id)
  ELSE IF Chan(z.s, id).kind = "session" THEN z
  ELSE IF \E f \in Fwds : Writable(f) \in z.a THEN z
  ELSE PollDestOne(z, id)

\* One turn of poll_dests.
PollDest(z, id) ==
  IF ~Live(z.s, id) THEN DropDest(z, id)
  ELSE IF Chan(z.s, id).kind = "session" THEN z
  ELSE PollDestOne(z, id)

\* poll_ssh_write: the packets the socket takes now, from write_q to dn.
SshWriteOut(z, dn) ==
  LET n == Min2(Len(z.s.write_q), SockCap - Len(dn))
      w == [z EXCEPT !.s.write_q = SubSeq(@, n + 1, Len(@)),
                     !.progress = @ \/ n > 0]
  IN IF w.s.write_q # << >> THEN Arm(w, SshWrite) ELSE Disarm(w, SshWrite)

Written(z, dn) ==
  dn \o SubSeq(z.s.write_q, 1, Min2(Len(z.s.write_q), SockCap - Len(dn)))

\* poll_ssh_read: packets have arrived, or the peer is gone, or nothing.
SshReadIn(z) ==
  LET r == Made(Disarm(z, SshRead))
  IN IF client.write_q # << >>
       THEN [r EXCEPT !.s = ProcessIn(@, client.write_q)]
     ELSE IF line = "gone"
       THEN [r EXCEPT !.s = Disconnect(@)]
     ELSE Arm(z, SshRead)

\* round_robin_ids.
RoundRobinIds(s) ==
  LET ids   == LiveIds(s)
      n     == Len(ids)
      start == s.rr % n
  IN IF n = 0 THEN ids ELSE [i \in 1 .. n |-> ids[((start + i - 1) % n) + 1]]

\* poll_dests.
PollAll(z) ==
  FoldLeft(PollDest,
           [z EXCEPT !.s.rr = IF LiveIds(z.s) = << >> THEN @
                              ELSE (@ + 1) % RrSpace],
           RoundRobinIds(z.s))

-----------------------------------------------------------------------------
(* The poll loop.  One pass looks at each socket in one place, except that *)
(* it writes to the SSH socket before and after the destinations: what the *)
(* world does during a pass shows as done before or after it, or between   *)
(* its two steps.                                                          *)

Init ==
  /\ load \in Loads
  /\ server = NewConnection
  /\ client = NewConnection
  /\ fwd = [f \in Fwds |-> [st |-> "new", id |-> None, sent |-> 0,
                            ended |-> FALSE, got |-> << >>]]
  /\ dests = [id \in Ids |-> None]
  /\ world = [f \in Fwds |-> NoSocket @@ [got |-> << >>, shut |-> FALSE,
                                          broken |-> FALSE]]
  /\ down = << >>
  /\ line = "up"
  /\ poll = [pc |-> "run", progress |-> FALSE]
  /\ armed = {}

\* The future returns: the session is dropped with its sockets.
Return == /\ poll' = [pc |-> "done", progress |-> FALSE]
          /\ dests' = [id \in Ids |-> None]
          /\ armed' = {}

\* The poll goes on at pc with what z holds.
Continue(z, pc, progress) ==
  /\ server' = z.s
  /\ dests' = z.d
  /\ world' = z.w
  /\ armed' = z.a
  /\ poll' = [pc |-> pc, progress |-> progress]

Fired == {i \in armed : IsReady(i)}

\* The task runs, or sleeps and one of its wakers fires.
Runs == poll.pc = "run" \/ (poll.pc = "idle" /\ Fired # {})

\* The first half of a pass: poll_ssh_write, poll_ssh_read (all that the
\* client has written), poll_ssh_write, handle_events, poll_connects (a
\* HashMap, in any order).  An Err of process_in ends the session.
PollSsh ==
  LET z  == [Task EXCEPT !.a = @ \ Fired]
      d1 == Written(z, down)
      r  == SshReadIn(SshWriteOut(z, down))
      h  == HandleEvents(SshWriteOut(r, d1))
  IN /\ Runs /\ line # "reset"
     /\ UNCHANGED <<load, fwd, line>>
     /\ client' = [client EXCEPT !.write_q = << >>]
     /\ down' = IF r.s.error THEN d1 ELSE Written(r, d1)
     /\ IF r.s.error
          THEN server' = r.s /\ world' = r.w /\ Return
          ELSE \E t \in SetToSeqs(Expired(h)), d \in SetToSeqs(Finished(h)) :
                 LET c == PollConnects(h, t \o d)
                 IN Continue(c, "dests", c.progress)

\* Slip: what the last write did is not counted as progress.
NextPcQuiet(z, w) == IF z.progress THEN "run" ELSE "idle"

\* Another pass if this one made progress, up to and with its last write.
NextPc(z, w) == IF w.progress THEN "run" ELSE "idle"

\* The second half: poll_dests, handle_events, poll_ssh_write.  Then the
\* session returns, sleeps, or starts another pass.
PollDests ==
  LET z == HandleEvents(PollAll(Task))
      w == SshWriteOut(z, down)
  IN /\ poll.pc = "dests"
     /\ line # "reset" \/ z.s.write_q = << >>
     /\ down' = Written(z, down)
     /\ IF w.s.closed /\ w.s.write_q = << >>
          THEN /\ server' = w.s /\ world' = w.w
               /\ Return
          ELSE Continue(w, NextPc(z, w), FALSE)
     /\ UNCHANGED <<load, client, fwd, line>>

\* Slip: an error of the SSH socket is taken for "would block".
PollResetIgnored == /\ line = "reset" /\ Runs
                    /\ poll' = [poll EXCEPT !.pc = "idle"]
                    /\ armed' = {}
                    /\ UNCHANGED <<load, server, client, fwd, dests, world,
                                   down, line>>

\* The SSH socket answers Err to a read or a write.
PollReset == /\ line = "reset"
             /\ \/ Runs
                \/ /\ poll.pc = "dests"
                   /\ HandleEvents(PollAll(Task)).s.write_q # << >>
             /\ Return
             /\ UNCHANGED <<load, server, client, fwd, world, down, line>>

-----------------------------------------------------------------------------
(* The client's program: it opens forwardings, sends each one's bytes and  *)
(* then EOF, and reads whatever arrives.                                   *)

\* open_direct_tcpip, the last forwarding first.
ClientOpen(f) ==
  \E kind \in Kinds[f] :
    LET id == Table!AllocId(client.table)
    IN /\ line = "up" /\ ~client.error
       /\ fwd[f].st = "new" /\ \A g \in Wanted : g > f => fwd[g].st # "new"
       /\ Table!CanAlloc(client.table)
       /\ client' = [AllocChannel(client, NewChannel(NoChannel, None, 0), kind, f)
                       EXCEPT !.write_q = Append(@,
                         [t |-> "OPEN", from |-> id, kind |-> kind, host |-> f])]
       /\ fwd' = [fwd EXCEPT ![f].st = "asked", ![f].id = id]
       /\ UNCHANGED <<load, server, dests, world, down, line, poll, armed>>

\* The program reads one packet, consumes the bytes it brought unless it has
\* closed the channel, and learns what became of it.
ClientRead ==
  LET m == Head(down)
      p == ProcessIn(client, <<m>>)
      c == Chan(client, m.to)
      reads == m.t = "DATA" /\ ~p.error /\ ~c.sent_close
      q == IF reads
             THEN Apply(p, m.to, LAMBDA x : ConsumeInbound(x, Len(m.data)))
             ELSE p
  IN /\ line = "up" /\ ~client.error
     /\ down # << >>
     /\ down' = Tail(down)
     /\ client' = [q EXCEPT !.events = << >>]
     /\ fwd' = IF ~Live(client, m.to) THEN fwd ELSE
               [fwd EXCEPT
                 ![c.host].st  = IF m.t = "CONFIRM" THEN "open"
                                 ELSE IF Live(q, m.to) THEN @ ELSE "over",
                 ![c.host].got = IF reads THEN @ \o m.data ELSE @]
     /\ UNCHANGED <<load, server, dests, world, line, poll, armed>>

InUse(f) == /\ line = "up" /\ ~client.error
            /\ fwd[f].st = "open"
            /\ ~Chan(client, fwd[f].id).sent_close

\* How much the program may send now, and whether it has something to do.
CanSend(f) == Min2(OutboundAllowance(Chan(client, fwd[f].id)),
                   UpLen[f] - fwd[f].sent)

WantsToSend(f) == /\ InUse(f)
                  /\ Chan(client, fwd[f].id).kind = "direct" /\ ~fwd[f].ended
                  /\ CanSend(f) > 0 \/ UpLen[f] = 0

\* send_data, and send_eof with the last byte.
ClientSend(f) ==
  LET c    == Chan(client, fwd[f].id)
      n    == CanSend(f)
      w    == IF n = 0 THEN c
              ELSE EnqueueOrSend(c, [i \in 1 .. n |-> <<f, fwd[f].sent + i>>])
      last == fwd[f].sent + n = UpLen[f]
  IN /\ WantsToSend(f)
     /\ client' = Store(client, fwd[f].id, IF last THEN SendEof(w) ELSE w)
     /\ fwd' = [fwd EXCEPT ![f].sent = @ + n, ![f].ended = last]
     /\ UNCHANGED <<load, server, dests, world, down, line, poll, armed>>

\* The program closes a session channel, or gives up a forwarding.
ClientClose(f) ==
  /\ InUse(f)
  /\ f \in Quitters \/ Chan(client, fwd[f].id).kind = "session"
  /\ client' = Apply(client, fwd[f].id, SendClose)
  /\ UNCHANGED <<load, server, fwd, dests, world, down, line, poll, armed>>

\* The client's end of the TCP connection is closed, perhaps after an
\* SSH_MSG_DISCONNECT, and reset in the end.
HangUp ==
  \E bye \in BOOLEAN :
    /\ "hangup" \in load.faults /\ line = "up"
    /\ line' = "gone"
    /\ client' = IF bye THEN Disconnect(client) ELSE client
    /\ UNCHANGED <<load, server, fwd, dests, world, down, poll, armed>>

Reset == /\ line = "gone" /\ poll.pc # "done"
         /\ line' = "reset"
         /\ UNCHANGED <<load, server, client, fwd, dests, world, down, poll, armed>>

-----------------------------------------------------------------------------
(* The destinations.                                                       *)

Destination(f, w) ==
  /\ poll.pc # "done"
  /\ world' = [world EXCEPT ![f] = w]
  /\ UNCHANGED <<load, server, client, fwd, dests, down, line, poll, armed>>

IsConnecting(f) ==
  \E id \in Ids : dests[id] # None /\ dests[id].f = f /\ ~dests[id].up

\* The TCP connection is established and the session has not closed it.
IsUp(f) == \E id \in Ids : /\ dests[id] # None /\ dests[id].f = f
                          /\ world[f].answer = "accept"

MayFail(f, fault) == f \notin Healthy /\ fault \in load.faults

\* The connect succeeds or fails.
DestAnswer(f) ==
  \E r \in {"accept", "refuse"} :
    /\ IsConnecting(f) /\ world[f].answer = None
    /\ r = "refuse" => MayFail(f, r)
    /\ Destination(f, [world[f] EXCEPT !.answer = r])

\* The connect's deadline passes.
DestLate(f) ==
  /\ MayFail(f, "late")
  /\ IsConnecting(f) /\ ~world[f].late
  /\ Destination(f, [world[f] EXCEPT !.late = TRUE])

\* A byte arrives from the destination; the end of its stream follows the
\* last one.
DestSend(f) ==
  LET n == Min2(world[f].made + 1, DownLen[f])
  IN /\ IsUp(f) /\ ~world[f].ended
     /\ Destination(f, [world[f] EXCEPT !.made = n, !.ended = n = DownLen[f]])

\* The destination's program reads: its socket takes bytes again.
DestDrain(f) ==
  /\ IsUp(f) /\ world[f].room < RoomMax
  /\ Destination(f, [world[f] EXCEPT !.room = RoomMax])

DestBreak(f) ==
  /\ MayFail(f, "break")
  /\ IsUp(f) /\ ~world[f].broken
  /\ Destination(f, [world[f] EXCEPT !.broken = TRUE])

-----------------------------------------------------------------------------
SessionStep == PollSsh \/ PollReset \/ PollDests

Next == \/ SessionStep
        \/ ClientRead \/ HangUp \/ Reset
        \/ \E f \in Fwds :
             \/ ClientOpen(f) \/ ClientSend(f) \/ ClientClose(f)
             \/ DestAnswer(f) \/ DestLate(f) \/ DestSend(f)
             \/ DestDrain(f) \/ DestBreak(f)

Spec == Init /\ [][Next]_vars

(* The executor runs a task that was woken; the client's program keeps     *)
(* reading and sending; a healthy destination does its part; a connect     *)
(* ends one way or the other; a lost peer's socket is reset in the end.    *)
(* Other destinations may stop at any point.                               *)
(* Fairness of SessionStep, ClientRead and ClientSend is stated through    *)
(* their effects on poll, down and fwd, which no other action has.         *)
SessionMoves ==
  /\ Runs \/ poll.pc = "dests"
  /\ poll' \in [pc : {"run", "dests", "idle", "done"}, progress : BOOLEAN]

ClientReads == /\ line = "up" /\ ~client.error
               /\ down # << >> /\ down' = Tail(down)

ClientSends(f) == /\ WantsToSend(f)
                  /\ \E n \in 0 .. UpLen[f], e \in BOOLEAN :
                       fwd' = [fwd EXCEPT ![f].sent = n, ![f].ended = e]

Fairness ==
  /\ WF_poll(SessionMoves)
  /\ WF_down(ClientReads)
  /\ WF_vars(Reset)
  /\ \A f \in Fwds : /\ WF_fwd(ClientSends(f))
                     /\ WF_vars(DestAnswer(f))
  /\ \A f \in Healthy : WF_vars(DestSend(f)) /\ WF_vars(DestDrain(f))

FairSpec == Spec /\ Fairness

-----------------------------------------------------------------------------
(* Properties.                                                             *)

\* Types, and the limits of what one session holds for its peer.
TypeOK ==
  /\ poll.pc \in {"run", "dests", "idle", "done"}
  /\ line \in {"up", "gone", "reset"}
  /\ \A s \in {server, client} :
       /\ Len(s.table.slots) <= MaxChannels
       /\ \A id \in Ids : Live(s, id) =>
            LET c == Chan(s, id) IN
            /\ {c.send_window, c.recv_window} \subseteq 0 .. Window
            /\ InBytes(c) <= Window
            /\ c.pending_out = << >>
  /\ \A f \in Fwds : /\ fwd[f].st \in {"new", "asked", "open", "over"}
                     /\ fwd[f].sent \in 0 .. UpLen[f]
                     /\ world[f].room \in 0 .. RoomMax

\* Neither process_in, confirm_open, fail_open nor send_data answers Err, with
\* numbers used again and destinations failing at any point: the session
\* ends only with its peer.
NoProtocolError == ~server.error /\ ~client.error

InOrder(f, got) == got = [i \in 1 .. Len(got) |-> <<f, i>>]

\* Each destination gets its own forwarding's bytes, and the client each
\* destination's, in order and once: no byte crosses to another forwarding
\* when a channel number or an event outlives its channel.
Routed == \A f \in Fwds : InOrder(f, world[f].got) /\ InOrder(f, fwd[f].got)

\* A destination's write side is shut down only after the client's last byte,
\* and the client sees EOF only after the destination's last byte, unless
\* the channel was torn down.
HalfCloseLast ==
  \A f \in Fwds :
    /\ world[f].shut => Len(world[f].got) = UpLen[f]
    /\ fwd[f].st = "open" /\ Chan(client, fwd[f].id).got_eof
         /\ ~Chan(client, fwd[f].id).got_close /\ ~world[f].broken
       => Len(fwd[f].got) = DownLen[f]

\* When the session sleeps, the destinations it holds are those of its open
\* direct-tcpip channels, each under its channel's number: none is leaked,
\* none is missing, none belongs to an earlier owner of the number.
DestsMatch ==
  poll.pc = "idle" =>
    \A id \in Ids :
      LET c == Chan(server, id)
          owned == Live(server, id) /\ c.kind = "direct" /\ ~c.sent_close
      IN /\ dests[id] # None <=> owned
         /\ owned => dests[id].f = c.host /\ dests[id].up = c.open_confirmed

\* What the session could do if it were polled now.
CanWork ==
  \/ client.write_q # << >> \/ line # "up"
  \/ server.write_q # << >> /\ Len(down) < SockCap
  \/ \E id \in Ids :
       LET d == dests[id]
           c == Chan(server, id)
       IN /\ d # None
          /\ \/ ~d.up /\ IsReady(Answered(d.f))
             \/ d.up /\ c.in_q # << >> /\ IsReady(Writable(d.f))
             \/ /\ d.up /\ ~d.read_eof /\ OutboundAllowance(c) > 0
                /\ IsReady(Readable(d.f))

\* The task never sleeps on work: whenever poll returned Pending and something
\* can be done, a waker that is registered is about to fire.  (A connect's
\* deadline is no such work: nothing wakes the task for it.)
NoLostWakeup ==
  poll.pc = "idle" /\ CanWork => \E i \in armed : IsReady(i)

Unsettled == line = "up" /\ \E f \in Fwds : fwd[f].st = "asked"

\* Every CHANNEL_OPEN is answered, also when the connect's answer and its
\* deadline race.
OpensSettle == Unsettled ~> ~Unsettled

\* A healthy forwarding is carried to its end in both directions whatever the
\* other destinations do: refuse, break, or never read.
HealthyServed ==
  \A f \in Healthy :
    fwd[f].st = "open" ~>
      \/ /\ Len(world[f].got) = UpLen[f] /\ world[f].shut
         /\ Len(fwd[f].got) = DownLen[f] /\ fwd[f].st = "over"
      \/ line # "up"

Leftover ==
  /\ line = "up"
  /\ \E f \in Fwds, id \in Ids :
       /\ fwd[f].st = "over"
       /\ \/ Live(server, id) /\ Chan(server, id).host = f
          \/ dests[id] # None /\ dests[id].f = f

\* The server's table and its map of destinations do not keep for ever what
\* the client is done with.
SlotsReclaimed == Leftover ~> ~Leftover

\* A session whose peer is gone ends.
SessionEnds == line # "up" ~> poll.pc = "done"
=============================================================================
