------------------------- MODULE WindowCredit_proofs -------------------------
(***************************************************************************)
(* Flow control is safe for every window size.  Conserved and Room, the    *)
(* receiver's half of NoOvercommit, are inductive together; neither        *)
(* NoOvercommit nor NeverExceeded is so by itself, since what a receiver   *)
(* grants is bounded by its own window and not by the sender's.            *)
(***************************************************************************)
EXTENDS WindowCredit, TLAPS

\* What the receiver has accepted or promised to accept fits its buffer.
Room == recvWindow + queued <= RecvMax

IInv == TypeOK /\ Conserved /\ Room

\* All the credit starts on its way to the sender.
LEMMA InitIInv == Init => IInv
PROOF
  BY RecvMaxAssumption DEF Init, IInv, TypeOK, Conserved, Room

\* Absorbing and spending credit moves it and neither makes nor loses any.
LEMMA SenderIInv ==
  ASSUME IInv, NEW c \in 0 .. RecvMax, NEW n \in 0 .. RecvMax,
         SenderStep(c, n)
  PROVE  IInv'
PROOF
  BY RecvMaxAssumption
     DEF IInv, TypeOK, Conserved, Room, SenderStep

\* Receiving spends window, and a grant is bounded by the room left.
LEMMA ReceiverIInv ==
  ASSUME IInv, NEW n \in 0 .. RecvMax, NEW m \in 0 .. RecvMax,
         NEW g \in 0 .. RecvMax, ReceiverStep(n, m, g)
  PROVE  IInv'
PROOF
  BY RecvMaxAssumption
     DEF IInv, TypeOK, Conserved, Room, ReceiverStep

\* Every step keeps the invariant.
LEMMA NextIInv == IInv /\ [Next]_vars => IInv'
PROOF
  <1> SUFFICES ASSUME IInv, [Next]_vars PROVE IInv'  OBVIOUS
  <1>1. CASE Next
    BY <1>1, SenderIInv, ReceiverIInv DEF Next
  <1>2. CASE UNCHANGED vars
    BY <1>2 DEF IInv, TypeOK, Conserved, Room, vars
  <1>3. QED  BY <1>1, <1>2

\* Window arithmetic stays in the naturals: no subtraction underflows.
THEOREM CreditTypeCorrect == Spec => []TypeOK
PROOF
  <1>1. IInv => TypeOK  BY DEF IInv
  <1>2. QED  BY <1>1, InitIInv, NextIInv, PTL DEF Spec

\* Credit is conserved for every window size.
THEOREM CreditConserved == Spec => []Conserved
PROOF
  <1>1. IInv => Conserved  BY DEF IInv
  <1>2. QED  BY <1>1, InitIInv, NextIInv, PTL DEF Spec

\* For every window size, what the sender has been granted, holds and has sent,
\* with what lies unread, fits the receiver's buffer.
THEOREM NeverOvercommitted == Spec => []NoOvercommit
PROOF
  <1>1. IInv => NoOvercommit
    BY RecvMaxAssumption DEF IInv, TypeOK, Conserved, Room, NoOvercommit
  <1>2. QED  BY <1>1, InitIInv, NextIInv, PTL DEF Spec

\* A sender that spends only credit it absorbed never overruns the receiver's
\* window, for every window size.
THEOREM WindowNeverExceeded == Spec => []NeverExceeded
PROOF
  <1>1. IInv => NeverExceeded
    BY DEF IInv, TypeOK, Conserved, NeverExceeded
  <1>2. QED  BY <1>1, InitIInv, NextIInv, PTL DEF Spec
=============================================================================
