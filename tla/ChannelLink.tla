---------------------------- MODULE ChannelLink ----------------------------
(***************************************************************************)
(* One direct-tcpip channel between two authenticated connections: the     *)
(* channel layer of core/conn.rs and core/channel.rs on both sides, the    *)
(* write queue below it, and the applications above it (on the server the  *)
(* destination socket driven by server/session.rs, on the client a program *)
(* that uses the Connection API).                                          *)
(*                                                                         *)
(* Packets are records and bytes are their positions in the stream the     *)
(* application sends, so that a lost, repeated or reordered byte shows.    *)
(* The two TCP directions are FIFO queues of at most NetCap packets.       *)
(* Sealing and key exchange contents are in module Transport; here a key   *)
(* exchange is the five messages and the gate kex_blocks_app.              *)
(*                                                                         *)
(* The channel layer is module Channel; conn[e] is the one channel of side *)
(* e together with its connection's write queue and gate.                  *)
(***************************************************************************)
EXTENDS Channel

CONSTANTS
  Stream,       \* bytes each side's application sends
  Sizes,        \* how many bytes an application call may hand over or take
  Finishers,    \* sides whose application ends its stream with EOF
  Aborters,     \* sides whose application may close without EOF
  MaxRekeys,    \* bound on the number of rekeys
  NetCap        \* bound on the packets in flight in one direction

Ends == {"client", "server"}

Peer(e) == IF e = "client" THEN "server" ELSE "client"

ASSUME LinkAssumptions ==
  /\ MaxRekeys \in Nat /\ NetCap \in Nat \ {0}
  /\ Stream \in [Ends -> Nat]
  /\ Sizes \subseteq Nat \ {0}
  /\ Finishers \subseteq Ends /\ Aborters \subseteq Ends

VARIABLES
  conn,         \* the Connection of each side, reduced to this channel
  net,          \* net[e]: packets on their way to e
  sent,         \* sent[e]: bytes e's application has handed to send_data
  delivered,    \* delivered[e]: bytes e's application has consumed
  rekeys        \* rekeys started so far

vars == <<conn, net, sent, delivered, rekeys>>

-----------------------------------------------------------------------------
(* Key exchange, as far as the channel layer sees it.                      *)

\* A packet of the transport, which belongs to no channel.
Kex(t) == [t |-> t]

StartKex(c) ==
  Queue([c EXCEPT !.sent_kexinit = TRUE, !.sent_newkeys = FALSE,
                  !.recv_newkeys = FALSE, !.kex_blocks_app = TRUE],
        Kex("KEXINIT"))

\* Slip: the gate opens with nothing flushed.
FlushPostRekeyNothing(c) == c

FlushPostRekey(c) ==
  EmitCloseIfReady(EmitEofIfReady(FlushPending(MaybeAdjust(c))))

TryCompleteKex(c) ==
  IF ~c.sent_newkeys \/ ~c.recv_newkeys
    THEN c
    ELSE FlushPostRekey([c EXCEPT !.sent_kexinit = FALSE,
                                  !.kex_blocks_app = FALSE])

SendNewkeys(c) == TryCompleteKex([Queue(c, Kex("NEWKEYS")) EXCEPT
                                    !.sent_newkeys = TRUE])

OnKexinit(e, c) ==
  LET k == IF c.sent_kexinit THEN c ELSE StartKex(c)
  IN IF e = "client" THEN Queue(k, Kex("ECDH_INIT")) ELSE k

OnNewkeys(c) == TryCompleteKex([c EXCEPT !.recv_newkeys = TRUE])

-----------------------------------------------------------------------------
\* After an error try_one_packet is not called again.
HandlePayload(e, c, m) ==
  IF c.error THEN c ELSE
  CASE m.t = "OPEN"       -> OnChannelOpen(c, m.from)
    [] m.t = "CONFIRM"    -> OnOpenConfirm(c, m.from)
    [] m.t = "FAILURE"    -> OnOpenFail(c)
    [] m.t = "ADJUST"     -> OnWindowAdjust(c, m.add)
    [] m.t = "DATA"       -> OnChannelData(c, m.data)
    [] m.t = "EOF"        -> OnChannelEof(c)
    [] m.t = "CLOSE"      -> OnChannelClose(c)
    [] m.t = "KEXINIT"    -> OnKexinit(e, c)
    [] m.t = "ECDH_INIT"  -> SendNewkeys(Queue(c, Kex("ECDH_REPLY")))
    [] m.t = "ECDH_REPLY" -> SendNewkeys(c)
    [] m.t = "NEWKEYS"    -> OnNewkeys(c)

\* maybe_rekey: only the server, and only when no exchange is under way.
MayRekey(e, c) == e = "server" /\ ~c.kex_blocks_app /\ ~c.sent_kexinit

-----------------------------------------------------------------------------
(* The link.                                                               *)

Init == /\ conn = [e \in Ends |-> NoChannel]
        /\ net = [e \in Ends |-> << >>]
        /\ sent = [e \in Ends |-> 0]
        /\ delivered = [e \in Ends |-> << >>]
        /\ rekeys = 0

\* The socket takes the first packet of the write queue (poll_ssh_write,
\* peek_out and consume_out).
Write(e) ==
  /\ conn[e].write_q # << >>
  /\ Len(net[Peer(e)]) < NetCap
  /\ net' = [net EXCEPT ![Peer(e)] = Append(@, Head(conn[e].write_q))]
  /\ conn' = [conn EXCEPT ![e].write_q = Tail(@)]
  /\ UNCHANGED <<sent, delivered, rekeys>>

\* k of the packets waiting for e leave the network.
Take(e, k) == net' = [net EXCEPT ![e] = SubSeq(@, k + 1, Len(@))]

\* A read that completes k packets: process_in handles them all, then may
\* start a rekey, then flushes what a rekey held back.
ProcessIn(e, k, rekey) ==
  LET c == FoldLeft(LAMBDA a, m : HandlePayload(e, a, m), conn[e],
                    SubSeq(net[e], 1, k))
      r == IF rekey THEN StartKex(c) ELSE c
  IN /\ ~conn[e].error
     /\ net[e] # << >>
     /\ rekey => /\ MayRekey(e, c)
                 /\ ~c.error
                 /\ rekeys < MaxRekeys
     /\ conn' = [conn EXCEPT ![e] = IF r.error THEN r ELSE FlushPending(r)]
     /\ Take(e, k)
     /\ rekeys' = IF rekey THEN rekeys + 1 ELSE rekeys
     /\ UNCHANGED <<sent, delivered>>

Read(e) == \E k \in 1 .. Len(net[e]), rekey \in BOOLEAN :
             ProcessIn(e, k, rekey)

\* A read that ends inside a packet completes none of those waiting.
ReadPartial(e) == \E rekey \in BOOLEAN : ProcessIn(e, 0, rekey)

Step(e, c) == /\ ~conn[e].error
              /\ conn' = [conn EXCEPT ![e] = c]

\* open_direct_tcpip.
AppOpen ==
  /\ conn["client"].slot = "none"
  /\ Step("client", Queue(NewChannel(conn["client"], None, 0),
                          [t |-> "OPEN", from |-> 0]))
  /\ UNCHANGED <<net, sent, delivered, rekeys>>

Connecting == /\ conn["server"].slot = "live"
              /\ ~conn["server"].open_confirmed

\* poll_connects: the destination answered.
AppConfirm ==
  /\ Connecting
  /\ Step("server", ConfirmOpen(conn["server"], 0))
  /\ UNCHANGED <<net, sent, delivered, rekeys>>

\* poll_connects: the destination refused, or the connect timed out.
AppRefuse ==
  /\ Connecting
  /\ "server" \in Aborters
  /\ Step("server", FailOpen(conn["server"]))
  /\ UNCHANGED <<net, sent, delivered, rekeys>>

\* The application still works with the channel: the session drops its
\* destination together with send_close, and has none before the channel is
\* confirmed.
InUse(e) == /\ conn[e].slot = "live"
            /\ ~conn[e].sent_close
            /\ e = "server" => conn[e].open_confirmed

\* send_data with as many bytes as outbound_allowance lets the application
\* read (poll_dest_one).
AppSend(e) ==
  \E n \in Sizes :
    /\ InUse(e)
    /\ n <= OutboundAllowance(conn[e])
    /\ sent[e] + n <= Stream[e]
    /\ Step(e, EnqueueOrSend(conn[e], [i \in 1 .. n |-> sent[e] + i]))
    /\ sent' = [sent EXCEPT ![e] = @ + n]
    /\ UNCHANGED <<net, delivered, rekeys>>

\* The application's stream has ended.  The session notices only when the
\* allowance lets it read.
AppEof(e) ==
  /\ e \in Finishers
  /\ InUse(e)
  /\ conn[e].open_confirmed
  /\ sent[e] = Stream[e]
  /\ ~conn[e].sent_eof
  /\ e = "server" => OutboundAllowance(conn[e]) > 0
  /\ Step(e, SendEof(conn[e]))
  /\ UNCHANGED <<net, sent, delivered, rekeys>>

\* consume_inbound of up to the front chunk.
AppConsume(e) ==
  \E n \in Sizes :
    LET front == Head(conn[e].in_q)
    IN /\ InUse(e)
       /\ conn[e].in_q # << >>
       /\ n <= Len(front)
       /\ Step(e, ConsumeInbound(conn[e], n))
       /\ delivered' = [delivered EXCEPT ![e] = @ \o SubSeq(front, 1, n)]
       /\ UNCHANGED <<net, sent, rekeys>>

\* poll_dest_one: both streams have ended and nothing is left to consume.
AppFinish(e) ==
  /\ InUse(e)
  /\ conn[e].sent_eof /\ conn[e].got_eof
  /\ conn[e].in_q = << >>
  /\ Step(e, SendClose(conn[e]))
  /\ UNCHANGED <<net, sent, delivered, rekeys>>

\* The application's side broke: send_eof, send_close, destination dropped.
AppAbort(e) ==
  /\ e \in Aborters
  /\ InUse(e)
  /\ conn[e].open_confirmed
  /\ Step(e, SendClose(SendEof(conn[e])))
  /\ UNCHANGED <<net, sent, delivered, rekeys>>

Next == \/ AppOpen \/ AppConfirm \/ AppRefuse
        \/ \E e \in Ends : \/ Write(e) \/ Read(e) \/ ReadPartial(e)
                           \/ AppSend(e) \/ AppEof(e) \/ AppConsume(e)
                           \/ AppFinish(e) \/ AppAbort(e)

Spec == Init /\ [][Next]_vars

(* The session is polled whenever its socket can be read or written or its *)
(* destination can be read or written, and each poll repeats all of these  *)
(* until none makes progress; applications keep reading and, once their    *)
(* streams have ended, say so.  Fairness of Read(e) is stated through its  *)
(* effect on net, which no other action has.                               *)
Reads(e) == ~conn[e].error /\ \E k \in 1 .. Len(net[e]) : Take(e, k)

Fairness ==
  /\ WF_vars(AppConfirm)
  /\ \A e \in Ends : /\ WF_vars(Write(e))
                     /\ WF_net(Reads(e))
                     /\ WF_vars(AppSend(e))
                     /\ WF_vars(AppConsume(e))
                     /\ WF_vars(AppEof(e))
                     /\ WF_vars(AppFinish(e))

FairSpec == Spec /\ Fairness

-----------------------------------------------------------------------------
(* Properties.                                                             *)

\* The path of the bytes from s: what the far application has consumed, what
\* waits for it, what is on the wire and what is still held back.
Toward(e) == net[e] \o conn[Peer(e)].write_q

\* Types and ranges; in particular a window (send_window and recv_window, both
\* u32 in the code) never grows beyond what the receiver advertised.
TypeOK ==
  /\ \A e \in Ends :
       /\ conn[e].slot \in {"none", "live", "freed"}
       /\ {conn[e].send_window, conn[e].recv_window} \subseteq 0 .. Window
       /\ conn[e].in_q \in Seq(Seq(Nat)) /\ conn[e].pending_out \in Seq(Seq(Nat))
       /\ sent[e] \in 0 .. Stream[e]
       /\ delivered[e] \in Seq(Nat)
  /\ rekeys \in 0 .. MaxRekeys

\* process_in of one Connection never answers Err to what the other one sent:
\* no CHANNEL_DATA beyond the window, and no DATA, WINDOW_ADJUST or
\* OPEN_CONFIRMATION for a channel the receiver has already freed.
NoProtocolError == \A e \in Ends : ~conn[e].error

\* The bytes that reached a side are a prefix of the stream the far
\* application sent, in order and each once (enqueue_or_send, flush_pending,
\* push_in, consume_inbound).
DeliveredInOrder ==
  \A e \in Ends : LET got == delivered[e] \o FlattenSeq(conn[e].in_q)
                  IN got = [i \in 1 .. Len(got) |-> i]

\* When CHANNEL_EOF has arrived (and the channel was not torn down), every
\* byte of the stream has arrived before it (emit_eof_if_ready against
\* pending_out).
EofIsLast ==
  \A e \in Ends :
     conn[e].got_eof /\ ~conn[e].got_close =>
       Len(delivered[e]) + InBytes(conn[e]) = Stream[Peer(e)]

\* However slow the peer or the destination is, a side buffers no more than
\* the window inbound, PendRoom held back, and one packet beyond the soft
\* limit in the write queue.
BufferingBounded ==
  \A e \in Ends : /\ InBytes(conn[e]) <= Window
                  /\ PendBytes(conn[e]) <= PendRoom
                  /\ Len(Bytes(conn[e].write_q)) < WriteSoft + MaxPacket

\* Between its KEXINIT and its NEWKEYS a side sends nothing of an open channel:
\* no DATA, WINDOW_ADJUST, EOF or CLOSE, whatever the application, the peer or
\* a flush asks for meanwhile (kex_blocks_app in enqueue_or_send,
\* flush_pending, maybe_adjust, emit_eof_if_ready and emit_close_if_ready).
\* It does not say that the channel layer is silent: OPEN and its answers pass
\* the gate and are sent there too.
GatedTrafficWaits ==
  \A e \in Ends : LET q == Toward(e) IN
    \A i, j \in 1 .. Len(q) :
      i < j /\ q[i].t = "KEXINIT" /\ q[j].t \in GatedTypes =>
        \E k \in i .. j : q[k].t = "NEWKEYS"

\* A side frees its channel only when the other side's is gone too, or will
\* be once it reads what is on its way or once its key exchange is over: no
\* slot of a channel table is stranded (emit_close_if_ready, fail_open,
\* on_open_fail, flush_post_rekey).
NoStrandedSlot ==
  \A e \in Ends : LET p == Peer(e) IN
    conn[e].slot = "freed" /\ conn[p].slot = "live" =>
      \/ \E i \in 1 .. Len(Toward(p)) : Toward(p)[i].t \in {"CLOSE", "FAILURE"}
      \/ conn[p].got_close /\ conn[p].kex_blocks_app

(* Flow control in each direction implements WindowCredit.  Before the     *)
(* sender knows the receiver's window (OPEN for the server,                *)
(* OPEN_CONFIRMATION for the client) that window is credit on its way.     *)
Promised(s) ==
  LET unopened == IF s = "client" THEN ~conn[s].open_confirmed
                                  ELSE conn[s].slot = "none"
  IN (IF unopened THEN Window ELSE 0) + Credit(Toward(s))

Accepting(r) == IF conn[r].slot = "none" THEN Window ELSE conn[r].recv_window

ToServer == INSTANCE WindowCredit WITH
  RecvMax    <- Window,
  credit     <- Promised("client"),
  sendWindow <- conn["client"].send_window,
  inFlight   <- Len(Bytes(Toward("server"))),
  recvWindow <- Accepting("server"),
  queued     <- InBytes(conn["server"])

ToClient == INSTANCE WindowCredit WITH
  RecvMax    <- Window,
  credit     <- Promised("server"),
  sendWindow <- conn["server"].send_window,
  inFlight   <- Len(Bytes(Toward("client"))),
  recvWindow <- Accepting("client"),
  queued     <- InBytes(conn["client"])

\* In each direction the sender's send_window, the receiver's recv_window and
\* the packets between them implement the credit scheme, so every theorem
\* about it holds of them, also when a key exchange holds grants back.
CreditBothWays == ToServer!Spec /\ ToClient!Spec

\* On an open channel every byte of both streams is eventually consumed by
\* the far application: windows, soft limits and key exchanges delay bytes
\* and never strand them.
AllDelivered ==
  \A e \in Ends : conn["client"].open_confirmed
                    ~> Len(delivered[Peer(e)]) = Stream[e]

\* Once a side has decided to close, both sides free the channel.
CloseCompletes ==
  \A e \in Ends : conn[e].sent_close ~> \A f \in Ends : conn[f].slot = "freed"
=============================================================================
