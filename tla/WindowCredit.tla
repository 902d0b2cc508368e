---------------------------- MODULE WindowCredit ----------------------------
(***************************************************************************)
(* What flow control promises for one direction of one channel, without    *)
(* packets: the receiver owns a buffer of RecvMax bytes, credit for it is  *)
(* on the way to the sender, held by the sender, spent on bytes in flight, *)
(* and returned by the receiver only for room it has.                      *)
(*                                                                         *)
(* A step of a connection processes a batch of packets, so a sender's step *)
(* may both absorb credit and send, and a receiver's step may receive,     *)
(* consume and grant.                                                      *)
(***************************************************************************)
EXTENDS Naturals

CONSTANT RecvMax         \* the receiver's buffer, in bytes

ASSUME RecvMaxAssumption == RecvMax \in Nat

VARIABLES credit,        \* bytes of credit on the way to the sender
          sendWindow,    \* credit the sender holds
          inFlight,      \* bytes on the way to the receiver
          recvWindow,    \* what the receiver will still accept
          queued         \* bytes received and not yet consumed

vars == <<credit, sendWindow, inFlight, recvWindow, queued>>

Init == /\ credit = RecvMax
        /\ sendWindow = 0
        /\ inFlight = 0
        /\ recvWindow = RecvMax
        /\ queued = 0

\* Slip: bytes are sent without looking at the window.
SenderStepUnchecked(c, n) ==
  /\ c <= credit
  /\ credit' = credit - c
  /\ sendWindow' = IF n <= sendWindow + c THEN sendWindow + c - n ELSE 0
  /\ inFlight' = inFlight + n
  /\ inFlight' <= 2 * RecvMax
  /\ UNCHANGED <<recvWindow, queued>>

\* The sender absorbs c bytes of credit and sends n bytes.
SenderStep(c, n) ==
  /\ c <= credit
  /\ n <= sendWindow + c
  /\ credit' = credit - c
  /\ sendWindow' = sendWindow + c - n
  /\ inFlight' = inFlight + n
  /\ UNCHANGED <<recvWindow, queued>>

\* Slip: bytes received and not yet consumed are granted again.
ReceiverStepRegrants(n, m, g) ==
  /\ n <= inFlight
  /\ n <= recvWindow
  /\ m <= queued + n
  /\ recvWindow - n + g <= RecvMax
  /\ inFlight' = inFlight - n
  /\ queued' = queued + n - m
  /\ recvWindow' = recvWindow - n + g
  /\ credit' = credit + g
  /\ UNCHANGED sendWindow

\* Slip: credit is sent and not added to the receiver's own window.
ReceiverStepForgets(n, m, g) ==
  /\ n <= inFlight
  /\ n <= recvWindow
  /\ m <= queued + n
  /\ recvWindow - n + g + queued + n - m <= RecvMax
  /\ inFlight' = inFlight - n
  /\ queued' = queued + n - m
  /\ recvWindow' = recvWindow - n
  /\ credit' = credit + g
  /\ UNCHANGED sendWindow

\* The receiver takes n bytes in, consumes m and grants g bytes of credit.
ReceiverStep(n, m, g) ==
  /\ n <= inFlight
  /\ n <= recvWindow
  /\ m <= queued + n
  /\ recvWindow - n + g + queued + n - m <= RecvMax
  /\ inFlight' = inFlight - n
  /\ queued' = queued + n - m
  /\ recvWindow' = recvWindow - n + g
  /\ credit' = credit + g
  /\ UNCHANGED sendWindow

Next == \E c, n, m \in 0 .. RecvMax : SenderStep(c, n) \/ ReceiverStep(c, n, m)

Spec == Init /\ [][Next]_vars

-----------------------------------------------------------------------------
\* Every counter is a natural number: no window is ever taken below zero.
TypeOK == /\ credit \in Nat
          /\ sendWindow \in Nat
          /\ inFlight \in Nat
          /\ recvWindow \in Nat
          /\ queued \in Nat

\* Every byte the receiver will accept is accounted for exactly once: as
\* credit on its way, credit held, or a byte in flight (send_window,
\* WINDOW_ADJUST and CHANNEL_DATA against recv_window).
Conserved == credit + sendWindow + inFlight = recvWindow

\* The sender's side never stands for more than the receiver has room for:
\* all the sender has been granted, may still send or has sent, together with
\* what lies unread at the receiver, fits the receiver's buffer, whatever part
\* of the credit is on its way (window_adjust_amount against recv_max, in_q
\* and the sender's send_window).
NoOvercommit == credit + sendWindow + inFlight + queued <= RecvMax

\* No byte in flight can exceed the window of the receiver, so push_in()
\* never answers "channel window exceeded" to a sender that keeps the rules.
NeverExceeded == inFlight <= recvWindow
=============================================================================
