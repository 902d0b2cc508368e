------------------------------ MODULE Channel ------------------------------
(***************************************************************************)
(* The channel layer of one connection: core/channel.rs and the channel    *)
(* half of core/conn.rs, as operators.  An operator takes the record of a  *)
(* channel together with the connection's fields it works with (the write  *)
(* queue, the gate of the key exchange) and returns its next value; the    *)
(* fields have the code's names.  ChannelLink uses them for one channel    *)
(* under rekeying, Session for many channels over one connection.          *)
(*                                                                         *)
(* A handler that returns Err sets error.  A channel that leaves the table *)
(* keeps its last fields, with slot = "freed".                             *)
(***************************************************************************)
EXTENDS Naturals, Sequences, SequencesExt

CONSTANTS
  Window,       \* window: recv_max of both sides
  MaxPacket,    \* max_packet of both sides
  WriteSoft,    \* write_soft, in bytes of queued packets
  WriteHard,    \* write_hard, in bytes of queued packets
  PendRoom,     \* the bound of pending_out while a rekey runs (256 KiB)
  Overhead,     \* bytes a packet adds to its data
  None          \* Option::None

ASSUME ChannelAssumptions ==
  /\ {Window, MaxPacket, WriteSoft, WriteHard, PendRoom, Overhead}
       \subseteq Nat
  /\ MaxPacket > 0
  /\ WriteSoft <= WriteHard
  /\ None \notin Nat

-----------------------------------------------------------------------------
(* Packets.                                                                *)

\* Packets of a channel are addressed with the peer's number for it.
Data(c, d)   == [t |-> "DATA", to |-> c.remote_id, data |-> d]
Adjust(c, n) == [t |-> "ADJUST", to |-> c.remote_id, add |-> n]
Msg(c, t)    == [t |-> t, to |-> c.remote_id]

\* What kex_blocks_app holds back while keys are exchanged.  OPEN, CONFIRM and
\* FAILURE are not held back: open_direct_tcpip, confirm_open and fail_open
\* queue them without looking at the gate.
GatedTypes == {"DATA", "ADJUST", "EOF", "CLOSE"}

Bytes(q) == FlattenSeq([i \in 1 .. Len(q) |->
              IF q[i].t = "DATA" THEN q[i].data ELSE << >>])

Credit(q) == FoldLeft(LAMBDA n, m : IF m.t = "ADJUST" THEN n + m.add ELSE n,
                      0, q)

\* write_bytes: what the packets of the write queue weigh.
Queued(c) == Overhead * Len(c.write_q) + Len(Bytes(c.write_q))

InBytes(c)   == Len(FlattenSeq(c.in_q))
PendBytes(c) == Len(FlattenSeq(c.pending_out))

Min2(a, b)  == IF a < b THEN a ELSE b
Monus(a, b) == IF a < b THEN 0 ELSE a - b

\* queue_msg: seal and append; the one FIFO keeps the order of sealing.  Data
\* is refused at the hard limit.
Queue(c, m) == IF m.t = "DATA" /\ Queued(c) >= WriteHard
                 THEN [c EXCEPT !.error = TRUE]
                 ELSE [c EXCEPT !.write_q = Append(@, m)]

-----------------------------------------------------------------------------
(* core/channel.rs.                                                        *)

\* Channel::new, put into the table.
NewChannel(c, remote, window) ==
  [c EXCEPT !.slot = "live", !.remote_id = remote, !.send_window = window,
            !.recv_window = Window]

Fail(c) == [c EXCEPT !.error = TRUE]

PushIn(c, d) ==
  IF Len(d) > c.recv_window
    THEN Fail(c)
    ELSE [c EXCEPT !.recv_window = @ - Len(d), !.in_q = Append(@, d)]

\* Slip: the bytes still in in_q are not subtracted from recv_max.
WindowAdjustAmountFull(c) ==
  IF Window <= c.recv_window THEN 0 ELSE Window - c.recv_window

\* Slip: the window already granted is not subtracted.
WindowAdjustAmountTwice(c) == Monus(Window, InBytes(c))

WindowAdjustAmount(c) ==
  LET allowed == Monus(Window, InBytes(c))
      add     == Monus(allowed, c.recv_window)
  IN IF add >= Window \div 8 \/ c.recv_window < Window \div 4 THEN add ELSE 0

\* Slip: send_window is not asked.
ChannelAllowanceFree(c) ==
  IF ~c.open_confirmed \/ c.sent_eof \/ c.sent_close THEN 0 ELSE MaxPacket

ChannelAllowance(c) ==
  IF ~c.open_confirmed \/ c.sent_eof \/ c.sent_close
    THEN 0 ELSE Min2(c.send_window, MaxPacket)

-----------------------------------------------------------------------------
(* Sending: core/conn.rs, outbound_allowance .. maybe_adjust.              *)

\* Slip: the soft limit of the write queue is not consulted.
OutboundAllowanceNoSoft(c) ==
  LET pend_room == Monus(PendRoom, PendBytes(c))
  IN IF c.slot # "live" THEN 0
     ELSE IF c.kex_blocks_app THEN Min2(pend_room, MaxPacket)
     ELSE Min2(ChannelAllowance(c), pend_room)

\* Slip: while a rekey runs, pending_out may grow without bound.
OutboundAllowanceNoRoom(c) ==
  IF c.slot # "live" THEN 0
  ELSE IF c.kex_blocks_app THEN MaxPacket
  ELSE IF Queued(c) >= WriteSoft THEN 0
  ELSE ChannelAllowance(c)

OutboundAllowance(c) ==
  LET pend_room == Monus(PendRoom, PendBytes(c))
  IN IF c.slot # "live" THEN 0
     ELSE IF c.kex_blocks_app THEN Min2(pend_room, MaxPacket)
     ELSE IF Queued(c) >= WriteSoft THEN 0
     ELSE Min2(ChannelAllowance(c), pend_room)

CanWire(c) == c.open_confirmed /\ ~c.kex_blocks_app /\ ~c.sent_eof

\* Slip: a chunk that must wait is put before those that wait already.
EnqueueOrSendFront(c, d) ==
  IF ~CanWire(c) \/ c.send_window < Len(d)
    THEN [c EXCEPT !.pending_out = <<d>> \o @]
    ELSE Queue([c EXCEPT !.send_window = @ - Len(d)], Data(c, d))

EnqueueOrSend(c, d) ==
  IF ~CanWire(c) \/ c.remote_id = None \/ c.send_window = 0
    THEN [c EXCEPT !.pending_out = Append(@, d)]
    ELSE LET n == Min2(Min2(Len(d), MaxPacket), c.send_window)
             w == [c EXCEPT !.send_window = @ - n]
             r == IF n < Len(d)
                    THEN [w EXCEPT !.pending_out =
                                     <<SubSeq(d, n + 1, Len(d))>> \o @]
                    ELSE w
         IN Queue(r, Data(c, SubSeq(d, 1, n)))

\* One turn of flush_pending's loop, or c itself where the loop returns.
FlushOne(c) ==
  LET front == Head(c.pending_out)
      take  == Min2(Min2(Len(front), MaxPacket), c.send_window)
      rest  == IF take >= Len(front)
                 THEN Tail(c.pending_out)
                 ELSE <<SubSeq(front, take + 1, Len(front))>>
                      \o Tail(c.pending_out)
  IN IF \/ ~c.open_confirmed \/ c.sent_eof \/ c.remote_id = None
        \/ c.send_window = 0 \/ c.pending_out = << >>
        \/ Queued(c) >= WriteSoft
       THEN c
       ELSE Queue([c EXCEPT !.pending_out = rest, !.send_window = @ - take],
                  Data(c, SubSeq(front, 1, take)))

\* flush_pending: each turn sends at least a byte, so the loop is over after
\* as many turns as there are pending bytes.
FlushPending(c) ==
  IF c.kex_blocks_app \/ c.slot # "live"
    THEN c
    ELSE FoldLeft(LAMBDA a, b : FlushOne(a), c, FlattenSeq(c.pending_out))

\* Slip: credit is granted while the key exchange runs.
MaybeAdjustInKex(c) ==
  LET add == WindowAdjustAmount(c)
  IN IF c.slot # "live" \/ add = 0
       THEN c
       ELSE Queue([c EXCEPT !.recv_window = @ + add], Adjust(c, add))

MaybeAdjust(c) ==
  LET add == WindowAdjustAmount(c)
      g   == [c EXCEPT !.recv_window = @ + add]
  IN IF c.kex_blocks_app \/ c.slot # "live" \/ add = 0
       THEN c
       ELSE IF c.remote_id # None THEN Queue(g, Adjust(c, add)) ELSE g

\* consume_inbound: n bytes leave the front chunk.
ConsumeInbound(c, n) ==
  LET front == Head(c.in_q)
      left  == IF n < Len(front) THEN <<SubSeq(front, n + 1, Len(front))>>
                                 ELSE << >>
  IN MaybeAdjust([c EXCEPT !.in_q = left \o Tail(@)])

EmitEofIfReady(c) ==
  LET w == [c EXCEPT !.wire_eof = TRUE]
  IN IF c.kex_blocks_app \/ c.slot # "live" \/ ~c.sent_eof \/ c.wire_eof
       THEN c
       ELSE IF c.remote_id # None THEN Queue(w, Msg(c, "EOF")) ELSE w

\* Slip: the channel is freed as soon as our CLOSE is out.
EmitCloseFreesEarly(c) ==
  IF c.kex_blocks_app \/ c.slot # "live" \/ ~c.sent_close
    THEN c
    ELSE LET w == [c EXCEPT !.slot = "freed"]
         IN IF c.wire_close \/ c.remote_id = None
              THEN w ELSE Queue(w, Msg(c, "CLOSE"))

\* Slip: a CLOSE that had to wait for the key exchange is forgotten.
EmitCloseForgets(c) ==
  IF c.slot # "live" \/ ~c.sent_close
    THEN c
    ELSE LET w == [c EXCEPT !.wire_close = TRUE, !.wire_eof = TRUE]
             q == IF c.wire_close \/ c.kex_blocks_app \/ c.remote_id = None
                    THEN w ELSE Queue(w, Msg(c, "CLOSE"))
         IN IF q.got_close THEN [q EXCEPT !.slot = "freed"] ELSE q

EmitCloseIfReady(c) ==
  IF c.kex_blocks_app \/ c.slot # "live" \/ ~c.sent_close
    THEN c
    ELSE LET w == [c EXCEPT !.wire_close = TRUE, !.wire_eof = TRUE]
             q == IF c.wire_close \/ c.remote_id = None
                    THEN w ELSE Queue(w, Msg(c, "CLOSE"))
         IN IF q.got_close THEN [q EXCEPT !.slot = "freed"] ELSE q

SendEof(c) ==
  IF c.slot # "live" THEN Fail(c)
  ELSE IF c.sent_eof \/ c.sent_close THEN c
  ELSE EmitEofIfReady([c EXCEPT !.sent_eof = TRUE])

SendClose(c) ==
  IF c.slot # "live" THEN Fail(c)
  ELSE IF c.sent_close THEN c
  ELSE EmitCloseIfReady([c EXCEPT !.sent_close = TRUE, !.sent_eof = TRUE])

-----------------------------------------------------------------------------
(* Receiving: core/conn.rs, handle_payload and the channel handlers.       *)

\* A channel of a known type is put into the table, with the number the peer
\* has given it.
OnChannelOpen(c, remote) == NewChannel(c, remote, Window)

\* confirm_open, for the channel with number id.
ConfirmOpen(c, id) ==
  IF c.slot # "live" \/ c.remote_id = None
    THEN Fail(c)
    ELSE Queue([c EXCEPT !.open_confirmed = TRUE],
               [t |-> "CONFIRM", to |-> c.remote_id, from |-> id])

FailOpen(c) ==
  IF c.slot # "live" \/ c.remote_id = None
    THEN Fail(c)
    ELSE Queue([c EXCEPT !.slot = "freed"], Msg(c, "FAILURE"))

OnOpenConfirm(c, remote) ==
  IF c.slot # "live"
    THEN Fail(c)
    ELSE FlushPending([c EXCEPT !.remote_id = remote, !.send_window = Window,
                                !.open_confirmed = TRUE])

OnOpenFail(c) == IF c.slot = "live" THEN [c EXCEPT !.slot = "freed"] ELSE c

OnWindowAdjust(c, add) ==
  IF c.slot # "live"
    THEN Fail(c) ELSE FlushPending([c EXCEPT !.send_window = @ + add])

\* on_channel_data, and on_ext_data, which does the same.
OnChannelData(c, d) == IF c.slot # "live" THEN Fail(c) ELSE PushIn(c, d)

OnChannelEof(c) == IF c.slot = "live" THEN [c EXCEPT !.got_eof = TRUE] ELSE c

\* Slip: got_close is recorded only on a channel we have closed already.
OnChannelCloseUnmarked(c) ==
  IF c.slot # "live" THEN c
  ELSE IF c.sent_close
    THEN EmitCloseIfReady([c EXCEPT !.got_close = TRUE, !.got_eof = TRUE])
  ELSE SendClose([c EXCEPT !.got_eof = TRUE])

OnChannelClose(c) ==
  LET g == [c EXCEPT !.got_close = TRUE, !.got_eof = TRUE]
  IN IF c.slot # "live" THEN c
     ELSE IF c.sent_close THEN EmitCloseIfReady(g)
     ELSE SendClose(g)

-----------------------------------------------------------------------------
\* A channel that has never been in the table.
NoChannel ==
  [slot |-> "none", kind |-> None, host |-> None,
   remote_id |-> None, open_confirmed |-> FALSE,
   send_window |-> 0, recv_window |-> 0,
   in_q |-> << >>, pending_out |-> << >>,
   got_eof |-> FALSE, sent_eof |-> FALSE, wire_eof |-> FALSE,
   got_close |-> FALSE, sent_close |-> FALSE, wire_close |-> FALSE,
   sent_kexinit |-> FALSE, sent_newkeys |-> FALSE, recv_newkeys |-> FALSE,
   kex_blocks_app |-> FALSE, write_q |-> << >>, error |-> FALSE]
=============================================================================
