------------------------- MODULE ChannelLink_proofs ------------------------
(***************************************************************************)
(* Flow control, buffering and the gate of the key exchange hold for every *)
(* window, packet size, limit, stream and number of rekeys, whatever the   *)
(* applications do and also after one side has failed: proofs of safety    *)
(* invariants of module ChannelLink.                                       *)
(*                                                                         *)
(* A handler or a call changes one connection.  Most leave the peer's view *)
(* alone: Harmless(c, d) says what such a change from c to d may do, and   *)
(* is transitive, so that the calls a handler makes compose.  The credit   *)
(* of one direction is then an inequality between the two connections and  *)
(* the packets between them, which the few other steps keep as well.       *)
(*                                                                         *)
(* The second half is about how channels end.  Calm(c, d) is a change that *)
(* opens, confirms and refuses nothing and frees the channel only with its *)
(* CLOSE queued; Silent(c, d) leaves all the flags alone.                  *)
(***************************************************************************)
EXTENDS ChannelLink, SeqLemmas

-----------------------------------------------------------------------------
(* Types.                                                                  *)

Remote == Nat \union {None}

KexTypes == {"KEXINIT", "ECDH_INIT", "ECDH_REPLY", "NEWKEYS"}

Packet ==
  [t : {"DATA"}, to : Remote, data : Seq(Nat)]
    \union [t : {"ADJUST"}, to : Remote, add : Nat]
    \union [t : {"EOF", "CLOSE", "FAILURE"}, to : Remote]
    \union [t : {"OPEN"}, from : {0}]
    \union [t : {"CONFIRM"}, to : Remote, from : {0}]
    \union [t : KexTypes]

ConnType ==
  [slot : {"none", "live", "freed"}, kind : {None}, host : {None},
   remote_id : Remote, open_confirmed : BOOLEAN,
   send_window : Nat, recv_window : Nat,
   in_q : Seq(Seq(Nat)), pending_out : Seq(Seq(Nat)),
   got_eof : BOOLEAN, sent_eof : BOOLEAN, wire_eof : BOOLEAN,
   got_close : BOOLEAN, sent_close : BOOLEAN, wire_close : BOOLEAN,
   sent_kexinit : BOOLEAN, sent_newkeys : BOOLEAN, recv_newkeys : BOOLEAN,
   kex_blocks_app : BOOLEAN, write_q : Seq(Packet), error : BOOLEAN]

-----------------------------------------------------------------------------
(* Sums over packets.                                                      *)

\* What packet m weighs: bytes of data, bytes of credit, or one if it is of
\* the type x.
Weight(x, m) ==
  IF x = "data" THEN IF m.t = "DATA" THEN Len(m.data) ELSE 0
  ELSE IF x = "credit" THEN IF m.t = "ADJUST" THEN m.add ELSE 0
  ELSE IF m.t = x THEN 1 ELSE 0

Tally(x, n, m) == n + Weight(x, m)

SF == INSTANCE FoldLemmas WITH Op <- Tally

Total(x, q) == SF!Fold(x, 0, q)

-----------------------------------------------------------------------------
(* The inductive invariant.                                                *)

\* One connection: its windows cover its buffers, and its buffers are bounded.
Bounded(c) ==
  /\ c.recv_window + InBytes(c) <= Window
  /\ PendBytes(c) <= PendRoom
  /\ Total("data", c.write_q) < WriteSoft + MaxPacket

Fresh(c) == c.slot = "none" =>
  /\ c.recv_window = 0 /\ c.send_window = 0
  /\ c.in_q = << >> /\ c.pending_out = << >> /\ ~c.open_confirmed

\* No packet of an open channel between a KEXINIT and the next NEWKEYS in q.
QuietIn(q) ==
  \A i, j \in 1 .. Len(q) :
    i < j /\ q[i].t = "KEXINIT" /\ q[j].t \in GatedTypes =>
      \E k \in i .. j : q[k].t = "NEWKEYS"

\* Every KEXINIT in q is followed by a NEWKEYS.
ShutIn(q) ==
  \A i \in 1 .. Len(q) :
    q[i].t = "KEXINIT" => \E k \in i .. Len(q) : q[k].t = "NEWKEYS"

\* With N on its way already, c keeps such packets out of its exchanges.
Gated(c, N) ==
  /\ QuietIn(N \o c.write_q)
  /\ ~c.kex_blocks_app \/ c.sent_newkeys => ShutIn(N \o c.write_q)

\* Credit from s to its peer r: what s may still send, what it has sent, and
\* what has been granted to it is no more than what r still accepts.
Unopened(s, c) ==
  IF (IF s = "client" THEN ~c.open_confirmed ELSE c.slot = "none")
    THEN Window ELSE 0

Accepts(c) == IF c.slot = "none" THEN Window ELSE c.recv_window

Flow(s, c, d, toPeer, toMe) ==
  c.send_window + Total("data", c.write_q) + Total("data", toPeer)
    + Total("credit", toMe) + Total("credit", d.write_q) + Unopened(s, c)
  <= Accepts(d)

\* Only the client opens, only the server confirms, and each once; c is the
\* client's connection
\* and s the server's.
OpenedOnce(c, s, toClient, toServer) ==
  LET opens    == Total("OPEN", toServer) + Total("OPEN", c.write_q)
      confirms == Total("CONFIRM", toClient) + Total("CONFIRM", s.write_q)
  IN /\ opens <= 1
     /\ opens = 1 => s.slot = "none"
     /\ c.slot = "none" => opens = 0 /\ s.slot = "none"
     /\ confirms <= 1
     /\ confirms = 1 => ~c.open_confirmed
     /\ ~s.open_confirmed => confirms = 0 /\ ~c.open_confirmed
     /\ Total("OPEN", toClient) = 0 /\ Total("OPEN", s.write_q) = 0
     /\ Total("CONFIRM", toServer) = 0 /\ Total("CONFIRM", c.write_q) = 0

\* The two connections and what is between them.
Linked(c, s, toClient, toServer) ==
  /\ OpenedOnce(c, s, toClient, toServer)
  /\ Flow("client", c, s, toServer, toClient)
  /\ Flow("server", s, c, toClient, toServer)

Local(c) == c \in ConnType /\ Bounded(c) /\ Fresh(c)

LinkInv ==
  /\ conn \in [Ends -> ConnType]
  /\ net \in [Ends -> Seq(Packet)]
  /\ \A e \in Ends : Local(conn[e]) /\ Gated(conn[e], net[Peer(e)])
  /\ Linked(conn["client"], conn["server"], net["client"], net["server"])

AppInv ==
  /\ sent \in [Ends -> Nat] /\ \A e \in Ends : sent[e] <= Stream[e]
  /\ delivered \in [Ends -> Seq(Nat)]
  /\ rekeys \in 0 .. MaxRekeys

IInv == LinkInv /\ AppInv

-----------------------------------------------------------------------------
(* Lemmas about packets and sums.                                          *)

\* The fields a packet of each type has.
LEMMA PacketFields ==
  ASSUME NEW m \in Packet
  PROVE  /\ m.t \in GatedTypes \union {"FAILURE", "OPEN", "CONFIRM"} \union KexTypes
         /\ m.t = "DATA" => m.data \in Seq(Nat)
         /\ m.t = "ADJUST" => m.add \in Nat
         /\ m.t \in {"OPEN", "CONFIRM"} => m.from = 0
<1>1. CASE m \in [t : {"DATA"}, to : Remote, data : Seq(Nat)]
  BY <1>1 DEF GatedTypes
<1>2. CASE m \in [t : {"ADJUST"}, to : Remote, add : Nat]
  BY <1>2 DEF GatedTypes
<1>3. CASE m \in [t : {"EOF", "CLOSE", "FAILURE"}, to : Remote]
  BY <1>3 DEF GatedTypes
<1>4. CASE m \in [t : {"OPEN"}, from : {0}]
  BY <1>4
<1>5. CASE m \in [t : {"CONFIRM"}, to : Remote, from : {0}]
  BY <1>5
<1>6. CASE m \in [t : KexTypes]
  BY <1>6 DEF KexTypes
<1> QED
  BY <1>1, <1>2, <1>3, <1>4, <1>5, <1>6 DEF Packet

\* A packet carries a natural number of whatever is counted.
LEMMA WeightNat ==
  ASSUME NEW x, NEW m \in Packet
  PROVE  Weight(x, m) \in Nat
<1>1. /\ m.t = "DATA" => m.data \in Seq(Nat)
      /\ m.t = "ADJUST" => m.add \in Nat
  BY PacketFields
<1>2. m.t = "DATA" => Len(m.data) \in Nat
  BY <1>1
<1> QED
  BY <1>1, <1>2 DEF Weight

\* The sum of no packets, and of one more.
LEMMA TotalEmpty ==
  ASSUME NEW x
  PROVE  Total(x, << >>) = 0
  BY SF!FoldEmpty DEF Total

\* A packet put at the end of a queue adds what it carries to the total.
LEMMA TotalStep ==
  ASSUME NEW x, NEW q \in Seq(Packet), NEW m \in Packet
  PROVE  Total(x, Append(q, m)) = Total(x, q) + Weight(x, m)
<1>1. SF!Fold(x, 0, Append(q, m)) = Tally(x, SF!Fold(x, 0, q), m)
  BY SF!FoldAppend
<1> QED
  BY <1>1 DEF Total, Tally

\* A sequence that is not empty ends with an element.
LEMMA LastOf ==
  ASSUME NEW S, NEW q \in Seq(S), NEW n \in Nat, Len(q) = n + 1
  PROVE  \E p \in Seq(S), m \in S : q = Append(p, m) /\ Len(p) = n
<1> DEFINE p == SubSeq(q, 1, n)
           m == q[n + 1]
<1>1. p \in Seq(S) /\ m \in S /\ Len(p) = n
  OBVIOUS
<1>2. q = Append(p, m)
  OBVIOUS
<1> HIDE DEF p, m
<1> QED
  BY <1>1, <1>2

\* Totals are natural numbers.
LEMMA TotalNat ==
  ASSUME NEW x, NEW q \in Seq(Packet)
  PROVE  Total(x, q) \in Nat
<1> DEFINE T == {n \in Nat : \A r \in Seq(Packet) :
                               Len(r) = n => Total(x, r) \in Nat}
<1>1. 0 \in T
  <2>1. \A r \in Seq(Packet) : Len(r) = 0 => r = << >>
    OBVIOUS
  <2> QED
    BY <2>1, TotalEmpty
<1>2. ASSUME NEW n \in Nat, n \in T PROVE n + 1 \in T
  <2>1. ASSUME NEW r \in Seq(Packet), Len(r) = n + 1
        PROVE  Total(x, r) \in Nat
    <3>1. PICK p \in Seq(Packet), m \in Packet : r = Append(p, m) /\ Len(p) = n
      BY <2>1, LastOf
    <3>2. Total(x, r) = Total(x, p) + Weight(x, m)
      BY <3>1, TotalStep
    <3>3. Total(x, p) \in Nat /\ Weight(x, m) \in Nat
      BY <1>2, <3>1, WeightNat
    <3> QED
      BY <3>2, <3>3
  <2> QED
    BY <2>1
<1> HIDE DEF T
<1>3. Len(q) \in T
  <2>1. Len(q) \in Nat
    OBVIOUS
  <2> QED
    BY <1>1, <1>2, <2>1, SetInduction
<1> QED
  BY <1>3 DEF T

\* The sum over two queues is the sum of their sums.
LEMMA TotalConcat ==
  ASSUME NEW x, NEW p \in Seq(Packet), NEW q \in Seq(Packet)
  PROVE  Total(x, p \o q) = Total(x, p) + Total(x, q)
<1> DEFINE T == {n \in Nat : \A r \in Seq(Packet) :
                   Len(r) = n => Total(x, p \o r) = Total(x, p) + Total(x, r)}
<1>1. 0 \in T
  <2>1. \A r \in Seq(Packet) : Len(r) = 0 => r = << >> /\ p \o r = p
    OBVIOUS
  <2>2. Total(x, p) \in Nat /\ Total(x, << >>) = 0
    BY TotalNat, TotalEmpty
  <2>3. Total(x, p) = Total(x, p) + Total(x, << >>)
    BY <2>2
  <2> QED
    BY <2>1, <2>3
<1>2. ASSUME NEW n \in Nat, n \in T PROVE n + 1 \in T
  <2>1. ASSUME NEW r \in Seq(Packet), Len(r) = n + 1
        PROVE  Total(x, p \o r) = Total(x, p) + Total(x, r)
    <3>1. PICK h \in Seq(Packet), m \in Packet : r = Append(h, m) /\ Len(h) = n
      BY <2>1, LastOf
    <3>2. p \o r = Append(p \o h, m) /\ p \o h \in Seq(Packet)
      BY <3>1
    <3>3. Total(x, r) = Total(x, h) + Weight(x, m)
      BY <3>1, TotalStep
    <3>4. Total(x, p \o r) = Total(x, p \o h) + Weight(x, m)
      BY <3>2, TotalStep
    <3>5. Total(x, p \o h) = Total(x, p) + Total(x, h)
      BY <1>2, <3>1
    <3>6. Total(x, p) \in Nat /\ Total(x, h) \in Nat /\ Weight(x, m) \in Nat
      BY TotalNat, WeightNat
    <3> QED
      BY <3>3, <3>4, <3>5, <3>6
  <2> QED
    BY <2>1
<1> HIDE DEF T
<1>3. Len(q) \in T
  <2>1. Len(q) \in Nat
    OBVIOUS
  <2> QED
    BY <1>1, <1>2, <2>1, SetInduction
<1> QED
  BY <1>3 DEF T

\* The sum of a queue is that of its head and of its tail.
LEMMA TotalHeadTail ==
  ASSUME NEW x, NEW q \in Seq(Packet), q # << >>
  PROVE  /\ Head(q) \in Packet /\ Tail(q) \in Seq(Packet)
         /\ Total(x, q) = Weight(x, Head(q)) + Total(x, Tail(q))
<1>1. Head(q) \in Packet /\ Tail(q) \in Seq(Packet)
      /\ q = <<Head(q)>> \o Tail(q)
  OBVIOUS
<1>2. << >> \in Seq(Packet) /\ Append(<< >>, Head(q)) = <<Head(q)>>
      /\ <<Head(q)>> \in Seq(Packet)
  BY <1>1
<1>3. Total(x, <<Head(q)>>) = 0 + Weight(x, Head(q))
  BY ZenonT(30), <1>1, <1>2, TotalStep, TotalEmpty
<1>4. Weight(x, Head(q)) \in Nat
  BY <1>1, WeightNat
<1>5. Total(x, <<Head(q)>> \o Tail(q)) = Total(x, <<Head(q)>>) + Total(x, Tail(q))
  BY <1>1, <1>2, TotalConcat
<1>6. Total(x, q) = Total(x, <<Head(q)>>) + Total(x, Tail(q))
  BY <1>1, <1>5
<1>7. 0 + Weight(x, Head(q)) = Weight(x, Head(q))
  BY <1>4
<1> QED
  BY <1>1, <1>3, <1>6, <1>7

\* The bytes in a queue are those its packets weigh.
LEMMA BytesTotal ==
  ASSUME NEW q \in Seq(Packet)
  PROVE  Bytes(q) \in Seq(Nat) /\ Len(Bytes(q)) = Total("data", q)
<1> DEFINE B(r) == [i \in 1 .. Len(r) |->
                      IF r[i].t = "DATA" THEN r[i].data ELSE << >>]
           T == {n \in Nat : \A r \in Seq(Packet) : Len(r) = n =>
                   /\ Bytes(r) \in Seq(Nat)
                   /\ Len(Bytes(r)) = Total("data", r)}
<1>1. ASSUME NEW r \in Seq(Packet)
      PROVE  B(r) \in Seq(Seq(Nat)) /\ Len(B(r)) = Len(r)
  <2>1. Len(r) \in Nat /\ \A i \in 1 .. Len(r) : r[i] \in Packet
    OBVIOUS
  <2>2. << >> \in Seq(Nat)
    OBVIOUS
  <2>3. \A i \in 1 .. Len(r) : r[i].t = "DATA" => r[i].data \in Seq(Nat)
    BY <2>1, PacketFields
  <2>4. B(r) \in [1 .. Len(r) -> Seq(Nat)]
    BY <2>2, <2>3
  <2> HIDE DEF B
  <2> QED
    BY <2>1, <2>4, FunctionIsSeq
<1>2. \A r : Bytes(r) = FlattenSeq(B(r))
  BY DEF Bytes
<1>3. 0 \in T
  <2>1. ASSUME NEW r \in Seq(Packet), Len(r) = 0
        PROVE  Bytes(r) = << >> /\ r = << >>
    <3>1. B(r) = << >> /\ r = << >>
      BY <1>1, <2>1
    <3> HIDE DEF B
    <3> QED
      BY <1>2, <3>1, FlattenEmpty
  <2>2. << >> \in Seq(Nat) /\ Len(<< >>) = 0 /\ Total("data", << >>) = 0
    BY TotalEmpty
  <2> QED
    BY <2>1, <2>2
<1>4. ASSUME NEW n \in Nat, n \in T PROVE n + 1 \in T
  <2>1. ASSUME NEW r \in Seq(Packet), Len(r) = n + 1
        PROVE  Bytes(r) \in Seq(Nat) /\ Len(Bytes(r)) = Total("data", r)
    <3>1. PICK p \in Seq(Packet), m \in Packet : r = Append(p, m) /\ Len(p) = n
      BY <2>1, LastOf
    <3> DEFINE d == IF m.t = "DATA" THEN m.data ELSE << >>
    <3>2. d \in Seq(Nat) /\ Len(d) = Weight("data", m)
      BY PacketFields DEF Weight
    <3>3. B(r) = Append(B(p), d)
      <4>1. /\ B(r) \in Seq(Seq(Nat)) /\ Len(B(r)) = n + 1
            /\ B(p) \in Seq(Seq(Nat)) /\ Len(B(p)) = n
        BY <1>1, <2>1, <3>1
      <4>2. \A i \in 1 .. n : B(r)[i] = B(p)[i]
        BY <3>1
      <4>3. B(r)[n + 1] = d
        BY <3>1
      <4> HIDE DEF B, d
      <4> QED
        BY <3>2, <4>1, <4>2, <4>3
    <3>4. Total("data", r) = Total("data", p) + Weight("data", m)
      BY <3>1, TotalStep
    <3>5. Bytes(p) \in Seq(Nat) /\ Len(Bytes(p)) = Total("data", p)
      BY <1>4, <3>1
    <3> HIDE DEF B, d
    <3>6. FlattenSeq(Append(B(p), d)) = FlattenSeq(B(p)) \o d
      BY <1>1, <3>2, FlattenAppend
    <3>7. Bytes(r) = Bytes(p) \o d
      BY <1>2, <3>3, <3>6
    <3>8. /\ Bytes(p) \o d \in Seq(Nat)
          /\ Len(Bytes(p) \o d) = Len(Bytes(p)) + Len(d)
      BY <3>2, <3>5, ConcatElements
    <3> QED
      BY <3>2, <3>4, <3>5, <3>7, <3>8
  <2> QED
    BY <2>1
<1> HIDE DEF T
<1>5. Len(q) \in T
  <2>1. Len(q) \in Nat
    OBVIOUS
  <2> QED
    BY <1>3, <1>4, <2>1, SetInduction
<1> QED
  BY <1>5 DEF T

\* One more packet of a queue, in Credit.
Grant(x, n, m) == IF m.t = "ADJUST" THEN n + m.add ELSE n

GF == INSTANCE FoldLemmas WITH Op <- Grant

\* Credit folds Grant over a queue.
LEMMA CreditFold ==
  ASSUME NEW q
  PROVE  Credit(q) = GF!Fold(0, 0, q)
  BY DEF Credit, GF!Fold, GF!IsFold, GF!Largest, Grant,
         FoldLeft, MapThenFoldSet, Max

\* The grants in a queue add up to the credit its packets weigh.
LEMMA CreditTotal ==
  ASSUME NEW q \in Seq(Packet)
  PROVE  Credit(q) = Total("credit", q)
<1> DEFINE T == {n \in Nat : \A r \in Seq(Packet) :
                   Len(r) = n => GF!Fold(0, 0, r) = Total("credit", r)}
<1>1. 0 \in T
  <2>1. \A r \in Seq(Packet) : Len(r) = 0 => r = << >>
    OBVIOUS
  <2> QED
    BY <2>1, TotalEmpty, GF!FoldEmpty
<1>2. ASSUME NEW n \in Nat, n \in T PROVE n + 1 \in T
  <2>1. ASSUME NEW r \in Seq(Packet), Len(r) = n + 1
        PROVE  GF!Fold(0, 0, r) = Total("credit", r)
    <3>1. PICK p \in Seq(Packet), m \in Packet : r = Append(p, m) /\ Len(p) = n
      BY <2>1, LastOf
    <3>2. Total("credit", r) = Total("credit", p) + Weight("credit", m)
      BY <3>1, TotalStep
    <3>3. GF!Fold(0, 0, Append(p, m)) = Grant(0, GF!Fold(0, 0, p), m)
      BY GF!FoldAppend
    <3>4. GF!Fold(0, 0, p) = Total("credit", p) /\ Total("credit", p) \in Nat
      BY <1>2, <3>1, TotalNat
    <3>5. Weight("credit", m) = IF m.t = "ADJUST" THEN m.add ELSE 0
      BY DEF Weight
    <3> QED
      BY <3>1, <3>2, <3>3, <3>4, <3>5 DEF Grant
  <2> QED
    BY <2>1
<1> HIDE DEF T
<1>3. Len(q) \in T
  <2>1. Len(q) \in Nat
    OBVIOUS
  <2> QED
    BY <1>1, <1>2, <2>1, SetInduction
<1> QED
  BY <1>3, CreditFold DEF T

\* The write queue weighs at least the data in it.
LEMMA QueuedCovers ==
  ASSUME NEW c, c.write_q \in Seq(Packet)
  PROVE  Queued(c) \in Nat /\ Total("data", c.write_q) <= Queued(c)
<1>1. Len(Bytes(c.write_q)) = Total("data", c.write_q)
  BY BytesTotal
<1>2. Total("data", c.write_q) \in Nat /\ Len(c.write_q) \in Nat
  BY TotalNat
<1>3. Overhead * Len(c.write_q) \in Nat
  BY <1>2, ChannelAssumptions
<1> QED
  BY <1>1, <1>2, <1>3 DEF Queued

-----------------------------------------------------------------------------
(* Lemmas about the gate.                                                  *)

\* One more packet at the end of a queue.
LEMMA GateAppend ==
  ASSUME NEW r \in Seq(Packet), NEW m \in Packet, QuietIn(r)
  PROVE  /\ Append(r, m) \in Seq(Packet)
         /\ m.t \notin GatedTypes \/ ShutIn(r) => QuietIn(Append(r, m))
         /\ m.t # "KEXINIT" /\ ShutIn(r) => ShutIn(Append(r, m))
         /\ m.t = "NEWKEYS" => ShutIn(Append(r, m))
<1> DEFINE a == Append(r, m)
           n == Len(r)
<1>1. /\ a \in Seq(Packet) /\ n \in Nat /\ Len(r) = n /\ Len(a) = n + 1
      /\ a[n + 1] = m /\ \A i \in 1 .. n : a[i] = r[i]
  BY AppendProperties
<1> HIDE DEF a, n
<1>2. ASSUME m.t \notin GatedTypes \/ ShutIn(r) PROVE QuietIn(a)
  <2> SUFFICES ASSUME NEW i \in 1 .. Len(a), NEW j \in 1 .. Len(a), i < j,
                      a[i].t = "KEXINIT", a[j].t \in GatedTypes
               PROVE  \E k \in i .. j : a[k].t = "NEWKEYS"
    BY DEF QuietIn
  <2>1. i \in 1 .. n /\ r[i].t = "KEXINIT"
    BY <1>1
  <2>2. CASE j \in 1 .. n
    <3>1. PICK k \in i .. j : r[k].t = "NEWKEYS"
      BY <1>1, <2>1, <2>2 DEF QuietIn
    <3>2. k \in 1 .. n
      BY <1>1, <2>1, <2>2
    <3> QED
      BY <1>1, <3>1, <3>2
  <2>3. CASE j = n + 1
    <3>1. ShutIn(r)
      BY <1>1, <1>2, <2>3
    <3>2. PICK k \in i .. n : r[k].t = "NEWKEYS"
      BY <1>1, <2>1, <3>1 DEF ShutIn
    <3>3. k \in 1 .. n /\ k \in i .. j
      BY <1>1, <2>1, <2>3
    <3> QED
      BY <1>1, <3>2, <3>3
  <2> QED
    BY <1>1, <2>2, <2>3
<1>3. ASSUME m.t # "KEXINIT", ShutIn(r) PROVE ShutIn(a)
  <2> SUFFICES ASSUME NEW i \in 1 .. Len(a), a[i].t = "KEXINIT"
               PROVE  \E k \in i .. Len(a) : a[k].t = "NEWKEYS"
    BY DEF ShutIn
  <2>1. i \in 1 .. n /\ r[i].t = "KEXINIT"
    BY <1>1, <1>3
  <2>2. PICK k \in i .. n : r[k].t = "NEWKEYS"
    BY <1>1, <1>3, <2>1 DEF ShutIn
  <2>3. k \in 1 .. n /\ k \in i .. Len(a)
    BY <1>1, <2>1
  <2> QED
    BY <1>1, <2>2, <2>3
<1>4. ASSUME m.t = "NEWKEYS" PROVE ShutIn(a)
  <2>1. \A i \in 1 .. Len(a) : Len(a) \in i .. Len(a)
    BY <1>1
  <2>2. a[Len(a)].t = "NEWKEYS"
    BY <1>1, <1>4
  <2> QED
    BY <2>1, <2>2 DEF ShutIn
<1> QED
  BY <1>1, <1>2, <1>3, <1>4 DEF a

\* What is left of a queue after its first n packets.
LEMMA GateCut ==
  ASSUME NEW r \in Seq(Packet), NEW n \in 0 .. Len(r)
  PROVE  /\ QuietIn(r) => QuietIn(SubSeq(r, n + 1, Len(r)))
         /\ ShutIn(r) => ShutIn(SubSeq(r, n + 1, Len(r)))
<1> DEFINE a == SubSeq(r, n + 1, Len(r))
           l == Len(r) - n
<1>1. /\ n \in Nat /\ l \in Nat /\ Len(r) = l + n /\ Len(a) = l
      /\ \A i \in 1 .. l : a[i] = r[i + n]
  OBVIOUS
<1> HIDE DEF a, l
<1>2. ASSUME QuietIn(r) PROVE QuietIn(a)
  <2> SUFFICES ASSUME NEW i \in 1 .. l, NEW j \in 1 .. l, i < j,
                      a[i].t = "KEXINIT", a[j].t \in GatedTypes
               PROVE  \E k \in i .. j : a[k].t = "NEWKEYS"
    BY <1>1 DEF QuietIn
  <2> DEFINE x == i + n
             y == j + n
  <2>1. x \in 1 .. Len(r) /\ y \in 1 .. Len(r) /\ x < y
    BY <1>1
  <2>2. r[x].t = "KEXINIT" /\ r[y].t \in GatedTypes
    BY <1>1
  <2>3. PICK k \in x .. y : r[k].t = "NEWKEYS"
    BY <1>2, <2>1, <2>2 DEF QuietIn
  <2>4. k - n \in i .. j /\ k - n \in 1 .. l /\ (k - n) + n = k
    BY <1>1
  <2>5. a[k - n] = r[k]
    BY <1>1, <2>4
  <2> QED
    BY <2>3, <2>4, <2>5
<1>3. ASSUME ShutIn(r) PROVE ShutIn(a)
  <2> SUFFICES ASSUME NEW i \in 1 .. l, a[i].t = "KEXINIT"
               PROVE  \E k \in i .. l : a[k].t = "NEWKEYS"
    BY <1>1 DEF ShutIn
  <2> DEFINE x == i + n
  <2>1. x \in 1 .. Len(r)
    BY <1>1
  <2>2. r[x].t = "KEXINIT"
    BY <1>1
  <2>3. PICK k \in x .. Len(r) : r[k].t = "NEWKEYS"
    BY <1>3, <2>1, <2>2 DEF ShutIn
  <2>4. k - n \in i .. l /\ k - n \in 1 .. l /\ (k - n) + n = k
    BY <1>1
  <2>5. a[k - n] = r[k]
    BY <1>1, <2>4
  <2> QED
    BY <2>3, <2>4, <2>5
<1> QED
  BY <1>2, <1>3 DEF a

-----------------------------------------------------------------------------
(* What a handler or a call does to a connection.                          *)

\* From c to d: the invariants of one side are kept, d may use at most s more
\* bytes of the peer's window than c, and the peer at most r bytes less of
\* d's; no channel is opened or confirmed.
Changes(c, d, s, r) ==
  /\ Local(d)
  /\ \A N \in Seq(Packet) : Gated(c, N) => Gated(d, N)
  /\ d.send_window + Total("data", d.write_q)
       <= c.send_window + Total("data", c.write_q) + s
  /\ c.recv_window + Total("credit", d.write_q)
       <= d.recv_window + Total("credit", c.write_q) + r
  /\ Total("OPEN", d.write_q) = Total("OPEN", c.write_q)
  /\ Total("CONFIRM", d.write_q) = Total("CONFIRM", c.write_q)
  /\ d.open_confirmed = c.open_confirmed
  /\ (d.slot = "none") = (c.slot = "none")

Harmless(c, d) == Changes(c, d, 0, 0)

\* The numbers of a connection are numbers.
LEMMA ConnNumbers ==
  ASSUME NEW c, Local(c)
  PROVE  /\ c \in ConnType
         /\ c.send_window \in Nat /\ c.recv_window \in Nat
         /\ c.in_q \in Seq(Seq(Nat)) /\ c.pending_out \in Seq(Seq(Nat))
         /\ InBytes(c) \in Nat /\ PendBytes(c) \in Nat
         /\ c.write_q \in Seq(Packet)
         /\ \A x : Total(x, c.write_q) \in Nat
         /\ Queued(c) \in Nat /\ Total("data", c.write_q) <= Queued(c)
<1>1. c \in ConnType
  BY DEF Local
<1>2. /\ c.send_window \in Nat /\ c.recv_window \in Nat
      /\ c.in_q \in Seq(Seq(Nat)) /\ c.pending_out \in Seq(Seq(Nat))
      /\ c.write_q \in Seq(Packet)
  BY <1>1 DEF ConnType
<1>3. InBytes(c) \in Nat /\ PendBytes(c) \in Nat
  BY <1>2, FlattenType DEF InBytes, PendBytes
<1> QED
  BY <1>1, <1>2, <1>3, TotalNat, QueuedCovers

\* A handler that returns early is harmless.
LEMMA HarmlessSelf ==
  ASSUME NEW c, Local(c)
  PROVE  Harmless(c, c)
<1>1. c.send_window \in Nat /\ c.recv_window \in Nat
      /\ \A x : Total(x, c.write_q) \in Nat
  BY ConnNumbers
<1> QED
  BY <1>1 DEF Harmless, Changes

\* Changes compose.
LEMMA ChangesCompose ==
  ASSUME NEW a, NEW b, NEW c, NEW s \in Nat, NEW r \in Nat,
         NEW t \in Nat, NEW u \in Nat,
         Local(a), Changes(a, b, s, r), Changes(b, c, t, u)
  PROVE  Changes(a, c, s + t, r + u)
<1>1. Local(b) /\ Local(c)
  BY DEF Changes
<1>2. \A d \in {a, b, c} : d.send_window \in Nat /\ d.recv_window \in Nat
                           /\ \A x : Total(x, d.write_q) \in Nat
  BY <1>1, ConnNumbers
<1>3. \A N \in Seq(Packet) : Gated(a, N) => Gated(c, N)
  BY DEF Changes
<1> DEFINE X(d) == Total("data", d.write_q)
           Y(d) == Total("credit", d.write_q)
<1>4. /\ X(a) \in Nat /\ X(b) \in Nat /\ X(c) \in Nat
      /\ Y(a) \in Nat /\ Y(b) \in Nat /\ Y(c) \in Nat
      /\ a.send_window \in Nat /\ b.send_window \in Nat /\ c.send_window \in Nat
      /\ a.recv_window \in Nat /\ b.recv_window \in Nat /\ c.recv_window \in Nat
  BY <1>2
<1>5. /\ b.send_window + X(b) <= a.send_window + X(a) + s
      /\ c.send_window + X(c) <= b.send_window + X(b) + t
      /\ a.recv_window + Y(b) <= b.recv_window + Y(a) + r
      /\ b.recv_window + Y(c) <= c.recv_window + Y(b) + u
  BY DEF Changes
<1> HIDE DEF X, Y
<1>6. /\ c.send_window + X(c) <= a.send_window + X(a) + (s + t)
      /\ a.recv_window + Y(c) <= c.recv_window + Y(a) + (r + u)
  BY <1>4, <1>5
<1> QED
  BY <1>1, <1>3, <1>6 DEF Changes, X, Y

\* Harmless calls made one after the other are harmless.
LEMMA HarmlessThen ==
  ASSUME NEW a, NEW b, NEW c, Local(a), Harmless(a, b), Harmless(b, c)
  PROVE  Harmless(a, c)
<1>1. Changes(a, c, 0 + 0, 0 + 0)
  BY ChangesCompose DEF Harmless
<1> QED
  BY <1>1 DEF Harmless

\* A change that queues nothing.
LEMMA ChangesNoPacket ==
  ASSUME NEW c, NEW b, NEW s \in Nat, NEW r \in Nat,
         Local(c), b \in ConnType, Bounded(b), Fresh(b),
         b.write_q = c.write_q,
         ~b.kex_blocks_app \/ b.sent_newkeys => ~c.kex_blocks_app \/ c.sent_newkeys,
         b.send_window <= c.send_window + s,
         c.recv_window <= b.recv_window + r,
         b.open_confirmed = c.open_confirmed,
         (b.slot = "none") = (c.slot = "none")
  PROVE  Changes(c, b, s, r)
<1>1. Local(b)
  BY DEF Local
<1>2. \A d \in {b, c} : d.send_window \in Nat /\ d.recv_window \in Nat
                        /\ \A x : Total(x, d.write_q) \in Nat
  BY <1>1, ConnNumbers
<1>3. \A N \in Seq(Packet) : Gated(c, N) => Gated(b, N)
  BY DEF Gated
<1>4. /\ b.send_window + Total("data", b.write_q)
           <= c.send_window + Total("data", c.write_q) + s
      /\ c.recv_window + Total("credit", b.write_q)
           <= b.recv_window + Total("credit", c.write_q) + r
  BY <1>2
<1> QED
  BY <1>1, <1>3, <1>4 DEF Changes

\* Flags do not matter to the peer.
LEMMA HarmlessFlags ==
  ASSUME NEW c, NEW b, Local(c), b \in ConnType,
         b.write_q = c.write_q,
         ~b.kex_blocks_app \/ b.sent_newkeys => ~c.kex_blocks_app \/ c.sent_newkeys,
         b.send_window = c.send_window, b.recv_window = c.recv_window,
         b.in_q = c.in_q, b.pending_out = c.pending_out,
         b.open_confirmed = c.open_confirmed,
         (b.slot = "none") = (c.slot = "none")
  PROVE  Harmless(c, b)
<1>1. Bounded(b) /\ Fresh(b)
  BY DEF Local, Bounded, Fresh, InBytes, PendBytes
<1>2. /\ b.send_window <= c.send_window + 0
      /\ c.recv_window <= b.recv_window + 0
  BY ConnNumbers
<1> QED
  BY <1>1, <1>2, ChangesNoPacket DEF Harmless

\* queue_msg changes the write queue, or sets error.
LEMMA QueueFields ==
  ASSUME NEW b \in ConnType, NEW m \in Packet
  PROVE  LET d == Queue(b, m) IN
         /\ d \in ConnType
         /\ d.slot = b.slot /\ d.remote_id = b.remote_id
         /\ d.open_confirmed = b.open_confirmed
         /\ d.send_window = b.send_window /\ d.recv_window = b.recv_window
         /\ d.in_q = b.in_q /\ d.pending_out = b.pending_out
         /\ d.kex_blocks_app = b.kex_blocks_app
         /\ d.sent_newkeys = b.sent_newkeys
         /\ \/ d.write_q = Append(b.write_q, m)
            \/ m.t = "DATA" /\ d.write_q = b.write_q
<1>1. Append(b.write_q, m) \in Seq(Packet)
  BY DEF ConnType
<1> DEFINE v == Append(b.write_q, m)
           full == m.t = "DATA" /\ Queued(b) >= WriteHard
<1>2. Queue(b, m) = IF full THEN [b EXCEPT !.error = TRUE]
                            ELSE [b EXCEPT !.write_q = v]
  BY DEF Queue
<1>3. v \in Seq(Packet) /\ (full => m.t = "DATA")
  BY <1>1
<1> HIDE DEF v, full
<1>4. CASE full
  BY ZenonT(30), <1>2, <1>3, <1>4 DEF ConnType
<1>5. CASE ~full
  <2>1. Queue(b, m) = [b EXCEPT !.write_q = v]
    BY <1>2, <1>5
  <2>2. Queue(b, m).write_q = Append(b.write_q, m)
    BY <2>1 DEF ConnType, v
  <2> QED
    BY ZenonT(30), <1>3, <2>1, <2>2 DEF ConnType
<1> QED
  BY <1>4, <1>5

\* The gate when a packet is queued: while an exchange is open only packets
\* of the exchange pass.
LEMMA QueueGated ==
  ASSUME NEW b \in ConnType, NEW d \in ConnType, NEW m \in Packet,
         NEW N \in Seq(Packet), Gated(b, N),
         d.write_q = Append(b.write_q, m) \/ d.write_q = b.write_q,
         d.kex_blocks_app = b.kex_blocks_app, d.sent_newkeys = b.sent_newkeys,
         m.t \in GatedTypes => ~b.kex_blocks_app,
         m.t # "KEXINIT"
  PROVE  Gated(d, N)
<1> DEFINE r == N \o b.write_q
           a == N \o d.write_q
<1>1. b.write_q \in Seq(Packet) /\ r \in Seq(Packet)
  BY DEF ConnType
<1>2. a = r \/ a = Append(r, m)
  <2>1. N \o Append(b.write_q, m) = Append(N \o b.write_q, m)
    BY <1>1
  <2> QED
    BY <2>1
<1>3. QuietIn(r) /\ (~b.kex_blocks_app \/ b.sent_newkeys => ShutIn(r))
  BY DEF Gated
<1> HIDE DEF r, a
<1>4. QuietIn(a) /\ (~b.kex_blocks_app \/ b.sent_newkeys => ShutIn(a))
  BY <1>1, <1>2, <1>3, GateAppend
<1> QED
  BY <1>4 DEF Gated, a

\* A change that queues a channel packet m.
LEMMA HarmlessQueue ==
  ASSUME NEW c, NEW b \in ConnType, NEW m \in Packet, Local(c),
         m.t \notin {"OPEN", "CONFIRM", "KEXINIT"},
         m.t \in GatedTypes => ~c.kex_blocks_app,
         b.write_q = c.write_q,
         b.kex_blocks_app = c.kex_blocks_app, b.sent_newkeys = c.sent_newkeys,
         b.open_confirmed = c.open_confirmed,
         (b.slot = "none") = (c.slot = "none"), Fresh(b),
         b.send_window + Weight("data", m) <= c.send_window,
         c.recv_window + Weight("credit", m) <= b.recv_window,
         b.recv_window + InBytes(b) <= Window, PendBytes(b) <= PendRoom,
         Weight("data", m) > 0 =>
           Total("data", c.write_q) < WriteSoft /\ Weight("data", m) <= MaxPacket
  PROVE  Harmless(c, Queue(b, m))
<1> DEFINE d == Queue(b, m)
<1>1. /\ d \in ConnType
      /\ d.slot = b.slot
      /\ d.open_confirmed = b.open_confirmed
      /\ d.send_window = b.send_window /\ d.recv_window = b.recv_window
      /\ d.in_q = b.in_q /\ d.pending_out = b.pending_out
      /\ d.kex_blocks_app = b.kex_blocks_app
      /\ d.sent_newkeys = b.sent_newkeys
      /\ \/ d.write_q = Append(c.write_q, m)
         \/ d.write_q = c.write_q
  BY QueueFields
<1> HIDE DEF d
<1>2. /\ c \in ConnType /\ c.send_window \in Nat /\ c.recv_window \in Nat
      /\ c.write_q \in Seq(Packet)
      /\ \A x : Total(x, c.write_q) \in Nat
  BY ConnNumbers
<1>3. \A x : Weight(x, m) \in Nat
  BY WeightNat
<1>4. b.send_window \in Nat /\ b.recv_window \in Nat
  BY DEF ConnType
<1>5. \A x : \/ Total(x, d.write_q) = Total(x, c.write_q) + Weight(x, m)
             \/ Total(x, d.write_q) = Total(x, c.write_q)
  BY <1>1, <1>2, TotalStep
<1>6. Weight("OPEN", m) = 0 /\ Weight("CONFIRM", m) = 0
  BY DEF Weight
<1>7. /\ Total("OPEN", d.write_q) = Total("OPEN", c.write_q)
      /\ Total("CONFIRM", d.write_q) = Total("CONFIRM", c.write_q)
  BY <1>2, <1>5, <1>6
<1>8. /\ d.send_window + Total("data", d.write_q)
           <= c.send_window + Total("data", c.write_q) + 0
      /\ c.recv_window + Total("credit", d.write_q)
           <= d.recv_window + Total("credit", c.write_q) + 0
  <2> DEFINE x == Total("data", c.write_q)
             y == Total("credit", c.write_q)
             v == Weight("data", m)
             w == Weight("credit", m)
  <2>1. x \in Nat /\ y \in Nat /\ v \in Nat /\ w \in Nat
    BY <1>2, <1>3
  <2>2. /\ Total("data", d.write_q) = x + v \/ Total("data", d.write_q) = x
        /\ Total("credit", d.write_q) = y + w \/ Total("credit", d.write_q) = y
    BY <1>5
  <2>3. b.send_window + v <= c.send_window /\ c.recv_window + w <= b.recv_window
    OBVIOUS
  <2>4. /\ d.send_window = b.send_window /\ d.recv_window = b.recv_window
        /\ b.send_window \in Nat /\ b.recv_window \in Nat
        /\ c.send_window \in Nat /\ c.recv_window \in Nat
    BY <1>1, <1>2, <1>4
  <2> HIDE DEF x, y, v, w
  <2>5. /\ d.send_window + Total("data", d.write_q) <= c.send_window + x + 0
        /\ c.recv_window + Total("credit", d.write_q) <= d.recv_window + y + 0
    BY ONLY <2>1, <2>2, <2>3, <2>4
  <2> QED
    BY <2>5 DEF x, y
<1>9. Bounded(d)
  <2>1. Total("data", c.write_q) < WriteSoft + MaxPacket
    BY DEF Local, Bounded
  <2>2. Total("data", d.write_q) < WriteSoft + MaxPacket
    BY <1>2, <1>3, <1>5, <2>1, ChannelAssumptions
  <2> QED
    BY <1>1, <2>2 DEF Bounded, InBytes, PendBytes
<1>10. Fresh(d)
  BY <1>1 DEF Fresh
<1>11. \A N \in Seq(Packet) : Gated(c, N) => Gated(d, N)
  BY <1>1, <1>2, QueueGated
<1> QED
  BY <1>1, <1>7, <1>8, <1>9, <1>10, <1>11 DEF Harmless, Changes, Local, d

-----------------------------------------------------------------------------
(* The operations of module Channel that leave the peer's view alone.      *)

\* What the packets of a channel are and weigh.
LEMMA ChannelPackets ==
  ASSUME NEW c \in ConnType, NEW d \in Seq(Nat), NEW n \in Nat,
         NEW t \in {"EOF", "CLOSE", "FAILURE"}
  PROVE  /\ Data(c, d) \in Packet /\ Data(c, d).t = "DATA"
         /\ Weight("data", Data(c, d)) = Len(d)
         /\ Weight("credit", Data(c, d)) = 0
         /\ Adjust(c, n) \in Packet /\ Adjust(c, n).t = "ADJUST"
         /\ Weight("data", Adjust(c, n)) = 0
         /\ Weight("credit", Adjust(c, n)) = n
         /\ Msg(c, t) \in Packet /\ Msg(c, t).t = t
         /\ Weight("data", Msg(c, t)) = 0 /\ Weight("credit", Msg(c, t)) = 0
<1>1. c.remote_id \in Remote
  BY DEF ConnType
<1>2. /\ Data(c, d) \in Packet /\ Data(c, d).t = "DATA"
      /\ Data(c, d).data = d
  BY <1>1 DEF Packet, Data
<1>3. /\ Adjust(c, n) \in Packet /\ Adjust(c, n).t = "ADJUST"
      /\ Adjust(c, n).add = n
  BY <1>1 DEF Packet, Adjust
<1>4. Msg(c, t) \in Packet /\ Msg(c, t).t = t
  BY <1>1 DEF Packet, Msg
<1> QED
  BY <1>2, <1>3, <1>4 DEF Weight

\* A message without data or credit.
LEMMA HarmlessMsg ==
  ASSUME NEW c, NEW b \in ConnType, NEW t \in {"EOF", "CLOSE", "FAILURE"},
         Local(c), t = "FAILURE" \/ ~c.kex_blocks_app,
         b.write_q = c.write_q,
         b.kex_blocks_app = c.kex_blocks_app, b.sent_newkeys = c.sent_newkeys,
         b.send_window = c.send_window, b.recv_window = c.recv_window,
         b.in_q = c.in_q, b.pending_out = c.pending_out,
         b.open_confirmed = c.open_confirmed,
         (b.slot = "none") = (c.slot = "none")
  PROVE  Harmless(c, Queue(b, Msg(c, t)))
<1> DEFINE m == Msg(c, t)
<1>1. c \in ConnType /\ c.send_window \in Nat /\ c.recv_window \in Nat
  BY ConnNumbers
<1>2. << >> \in Seq(Nat) /\ 0 \in Nat
  OBVIOUS
<1>3. /\ m \in Packet /\ m.t = t
      /\ Weight("data", m) = 0 /\ Weight("credit", m) = 0
  BY ZenonT(30), <1>1, <1>2, ChannelPackets
<1> HIDE DEF m
<1>4. Fresh(b) /\ b.recv_window + InBytes(b) <= Window /\ PendBytes(b) <= PendRoom
  BY DEF Local, Bounded, Fresh, InBytes, PendBytes
<1>5. /\ m.t \notin {"OPEN", "CONFIRM", "KEXINIT"}
      /\ m.t \in GatedTypes => ~c.kex_blocks_app
  BY <1>3 DEF GatedTypes
<1>6. /\ b.send_window + Weight("data", m) <= c.send_window
      /\ c.recv_window + Weight("credit", m) <= b.recv_window
      /\ ~(Weight("data", m) > 0)
  BY <1>1, <1>3
<1>7. Harmless(c, Queue(b, m))
  BY <1>3, <1>4, <1>5, <1>6, HarmlessQueue
<1> QED
  BY <1>7 DEF m

\* An error return is harmless.
LEMMA FailHarmless ==
  ASSUME NEW c, Local(c)
  PROVE  Harmless(c, Fail(c))
<1>1. c \in ConnType
  BY DEF Local
<1>2. /\ Fail(c) \in ConnType
      /\ Fail(c).write_q = c.write_q
      /\ Fail(c).kex_blocks_app = c.kex_blocks_app
      /\ Fail(c).sent_newkeys = c.sent_newkeys
      /\ Fail(c).send_window = c.send_window
      /\ Fail(c).recv_window = c.recv_window
      /\ Fail(c).in_q = c.in_q /\ Fail(c).pending_out = c.pending_out
      /\ Fail(c).open_confirmed = c.open_confirmed
      /\ Fail(c).slot = c.slot
  BY <1>1 DEF Fail, ConnType
<1> QED
  BY <1>2, HarmlessFlags

\* maybe_adjust: what is granted was left of the window.
LEMMA MaybeAdjustHarmless ==
  ASSUME NEW c, Local(c)
  PROVE  Harmless(c, MaybeAdjust(c))
<1> DEFINE add == WindowAdjustAmount(c)
           v == c.recv_window + add
           g == [c EXCEPT !.recv_window = v]
<1>1. /\ c \in ConnType /\ c.send_window \in Nat /\ c.recv_window \in Nat
      /\ InBytes(c) \in Nat
  BY ConnNumbers
<1>2. /\ c.recv_window + InBytes(c) <= Window /\ PendBytes(c) <= PendRoom
      /\ Window \in Nat
  BY ChannelAssumptions DEF Local, Bounded
<1>3. add \in Nat /\ v \in Nat /\ v + InBytes(c) <= Window
  BY <1>1, <1>2 DEF WindowAdjustAmount, Monus
<1>4. MaybeAdjust(c) = IF c.kex_blocks_app \/ c.slot # "live" \/ add = 0
                         THEN c
                         ELSE IF c.remote_id # None
                                THEN Queue(g, Adjust(c, add)) ELSE g
  BY DEF MaybeAdjust
<1>5. v = c.recv_window + add
  OBVIOUS
<1> HIDE DEF add, v
<1>6. /\ g \in ConnType
      /\ g.write_q = c.write_q
      /\ g.kex_blocks_app = c.kex_blocks_app /\ g.sent_newkeys = c.sent_newkeys
      /\ g.send_window = c.send_window /\ g.recv_window = v
      /\ g.in_q = c.in_q /\ g.pending_out = c.pending_out
      /\ g.open_confirmed = c.open_confirmed /\ g.slot = c.slot
  BY <1>1, <1>3 DEF ConnType
<1> HIDE DEF g
<1>7. InBytes(g) = InBytes(c) /\ PendBytes(g) = PendBytes(c)
  BY <1>6 DEF InBytes, PendBytes
<1>8. CASE c.kex_blocks_app \/ c.slot # "live" \/ add = 0
  BY <1>4, <1>8, HarmlessSelf
<1>9. CASE ~c.kex_blocks_app /\ c.slot = "live" /\ add # 0
  <2>1. Fresh(g)
    BY <1>6, <1>9 DEF Fresh
  <2>2. CASE c.remote_id # None
    <3> DEFINE m == Adjust(c, add)
    <3>1. << >> \in Seq(Nat)
      OBVIOUS
    <3>2. /\ m \in Packet /\ m.t = "ADJUST"
          /\ Weight("data", m) = 0 /\ Weight("credit", m) = add
      BY <1>1, <1>3, <3>1, ChannelPackets
    <3> HIDE DEF m
    <3>3. /\ g.send_window + Weight("data", m) <= c.send_window
          /\ c.recv_window + Weight("credit", m) <= g.recv_window
          /\ g.recv_window + InBytes(g) <= Window /\ PendBytes(g) <= PendRoom
          /\ ~(Weight("data", m) > 0)
      BY <1>1, <1>2, <1>3, <1>5, <1>6, <1>7, <3>2
    <3>4. Harmless(c, Queue(g, m))
      BY <1>6, <1>9, <2>1, <3>2, <3>3, HarmlessQueue
    <3> QED
      BY <1>4, <1>9, <2>2, <3>4 DEF m
  <2>3. CASE c.remote_id = None
    <3>1. Bounded(g)
      BY <1>2, <1>3, <1>6, <1>7 DEF Bounded, Local
    <3>2. /\ g.send_window <= c.send_window + 0
          /\ c.recv_window <= g.recv_window + 0
      BY <1>1, <1>3, <1>5, <1>6
    <3>3. Harmless(c, g)
      BY <1>6, <2>1, <3>1, <3>2, ChangesNoPacket DEF Harmless
    <3> QED
      BY <1>4, <1>9, <2>3, <3>3
  <2> QED
    BY <2>2, <2>3
<1> QED
  BY <1>8, <1>9

\* n bytes leave the front chunk of a queue of chunks.
LEMMA FrontCut ==
  ASSUME NEW q \in Seq(Seq(Nat)), q # << >>, NEW n \in 0 .. Len(Head(q))
  PROVE  LET left == SubSeq(Head(q), n + 1, Len(Head(q))) IN
         /\ Head(q) \in Seq(Nat) /\ Tail(q) \in Seq(Seq(Nat))
         /\ <<left>> \o Tail(q) \in Seq(Seq(Nat))
         /\ Len(FlattenSeq(q)) \in Nat
         /\ Len(FlattenSeq(<<left>> \o Tail(q))) = Len(FlattenSeq(q)) - n
         /\ Len(FlattenSeq(Tail(q))) = Len(FlattenSeq(q)) - Len(Head(q))
<1> DEFINE left == SubSeq(Head(q), n + 1, Len(Head(q)))
           rest == Tail(q)
           h    == Head(q)
<1>1. h \in Seq(Nat) /\ rest \in Seq(Seq(Nat)) /\ FlattenSeq(q) = h \o FlattenSeq(rest)
  BY FlattenHeadTail
<1>2. left \in Seq(Nat) /\ Len(left) = Len(h) - n /\ Len(h) \in Nat
  BY <1>1, CutInTwo
<1> HIDE DEF left, rest, h
<1>3. <<left>> \in Seq(Seq(Nat)) /\ <<left>> \o rest \in Seq(Seq(Nat))
  BY <1>1, <1>2
<1>4. FlattenSeq(<<left>> \o rest) = FlattenSeq(<<left>>) \o FlattenSeq(rest)
  BY <1>1, <1>3, FlattenConcat
<1>5. FlattenSeq(<<left>>) = left
  BY <1>2, FlattenSingle
<1>6. FlattenSeq(rest) \in Seq(Nat)
  BY <1>1, FlattenType
<1>7. /\ Len(h \o FlattenSeq(rest)) = Len(h) + Len(FlattenSeq(rest))
      /\ Len(left \o FlattenSeq(rest)) = Len(left) + Len(FlattenSeq(rest))
      /\ Len(FlattenSeq(rest)) \in Nat
  BY <1>1, <1>2, <1>6, ConcatElements
<1>8. /\ Len(FlattenSeq(q)) \in Nat
      /\ Len(FlattenSeq(<<left>> \o rest)) = Len(FlattenSeq(q)) - n
      /\ Len(FlattenSeq(rest)) = Len(FlattenSeq(q)) - Len(h)
  <2> DEFINE z == Len(FlattenSeq(rest))
             y == Len(FlattenSeq(q))
             x == Len(FlattenSeq(<<left>> \o rest))
  <2>1. y = Len(h) + z /\ x = Len(left) + z
    BY <1>1, <1>4, <1>5, <1>7
  <2>2. z \in Nat /\ Len(h) \in Nat /\ Len(left) = Len(h) - n /\ n \in Nat
    BY <1>2, <1>7
  <2> HIDE DEF x, y, z
  <2>3. y \in Nat /\ x = y - n /\ z = y - Len(h)
    BY ONLY <2>1, <2>2
  <2> QED
    BY <2>3 DEF x, y, z
<1> QED
  BY <1>1, <1>3, <1>8 DEF left, rest, h

\* Cutting the front chunk of in_q and granting what was freed.
LEMMA ConsumeInboundHarmless ==
  ASSUME NEW c, Local(c), NEW n \in Nat, c.in_q # << >>, n <= Len(Head(c.in_q))
  PROVE  Harmless(c, ConsumeInbound(c, n))
<1> DEFINE front == Head(c.in_q)
           left == IF n < Len(front) THEN <<SubSeq(front, n + 1, Len(front))>>
                                     ELSE << >>
           v == left \o Tail(c.in_q)
           b == [c EXCEPT !.in_q = v]
<1>1. /\ c \in ConnType /\ c.send_window \in Nat /\ c.recv_window \in Nat
      /\ InBytes(c) \in Nat /\ c.in_q \in Seq(Seq(Nat))
  BY ConnNumbers
<1>2. n \in 0 .. Len(front)
  BY <1>1
<1>3. v \in Seq(Seq(Nat)) /\ Len(FlattenSeq(v)) <= InBytes(c)
      /\ Len(FlattenSeq(v)) \in Nat
  <2> DEFINE q == c.in_q
  <2>0. q \in Seq(Seq(Nat)) /\ q # << >> /\ n \in 0 .. Len(Head(q))
    BY <1>1, <1>2
  <2> HIDE DEF q
  <2>1. /\ Tail(q) \in Seq(Seq(Nat)) /\ Head(q) \in Seq(Nat)
        /\ Len(FlattenSeq(Tail(q))) = Len(FlattenSeq(q)) - Len(Head(q))
        /\ <<SubSeq(Head(q), n + 1, Len(Head(q)))>> \o Tail(q) \in Seq(Seq(Nat))
        /\ Len(FlattenSeq(<<SubSeq(Head(q), n + 1, Len(Head(q)))>> \o Tail(q)))
             = Len(FlattenSeq(q)) - n
    BY <2>0, FrontCut
  <2>4. Len(Head(q)) \in Nat
    BY <2>1
  <2> USE DEF q
  <2>5. InBytes(c) = Len(FlattenSeq(q))
    BY DEF InBytes
  <2>2. CASE n < Len(front)
    <3>1. v = <<SubSeq(Head(q), n + 1, Len(Head(q)))>> \o Tail(q)
      BY <2>2
    <3>2. FlattenSeq(v) \in Seq(Nat)
      BY <2>1, <3>1, FlattenType
    <3>3. v \in Seq(Seq(Nat)) /\ Len(FlattenSeq(v)) \in Nat
      BY <2>1, <3>1, <3>2
    <3> HIDE DEF v, q
    <3>4. Len(FlattenSeq(v)) = InBytes(c) - n
      BY <2>1, <2>5, <3>1
    <3> QED
      BY <1>1, <3>3, <3>4
  <2>3. CASE ~(n < Len(front))
    <3>1. v = Tail(q)
      BY <2>1, <2>3
    <3>2. FlattenSeq(v) \in Seq(Nat)
      BY <2>1, <3>1, FlattenType
    <3>3. v \in Seq(Seq(Nat)) /\ Len(FlattenSeq(v)) \in Nat
      BY <2>1, <3>1, <3>2
    <3> HIDE DEF v, q
    <3> QED
      BY <1>1, <2>1, <2>4, <2>5, <3>1, <3>3
  <2> QED
    BY <2>2, <2>3
<1>4. ConsumeInbound(c, n) = MaybeAdjust(b)
  BY DEF ConsumeInbound
<1> HIDE DEF v
<1>5. /\ b \in ConnType
      /\ b.write_q = c.write_q
      /\ b.kex_blocks_app = c.kex_blocks_app /\ b.sent_newkeys = c.sent_newkeys
      /\ b.send_window = c.send_window /\ b.recv_window = c.recv_window
      /\ b.in_q = v /\ b.pending_out = c.pending_out
      /\ b.open_confirmed = c.open_confirmed /\ b.slot = c.slot
  BY <1>1, <1>3 DEF ConnType
<1> HIDE DEF b
<1>6. Bounded(b)
  <2>1. c.recv_window + InBytes(c) <= Window /\ Window \in Nat
    BY ChannelAssumptions DEF Local, Bounded
  <2>2. c.recv_window + Len(FlattenSeq(v)) <= Window
    BY <1>1, <1>3, <2>1
  <2> QED
    BY <1>5, <2>2 DEF Bounded, Local, InBytes, PendBytes
<1>7. Fresh(b)
  <2>1. c.slot # "none"
    BY DEF Local, Fresh
  <2> QED
    BY <1>5, <2>1 DEF Fresh
<1>8. /\ b.send_window <= c.send_window + 0
      /\ c.recv_window <= b.recv_window + 0
  BY <1>1, <1>5
<1>9. Harmless(c, b)
  BY <1>5, <1>6, <1>7, <1>8, ChangesNoPacket DEF Harmless
<1>10. Local(b)
  BY <1>5, <1>6, <1>7 DEF Local
<1>11. Harmless(b, MaybeAdjust(b))
  BY <1>10, MaybeAdjustHarmless
<1> QED
  BY <1>4, <1>9, <1>11, HarmlessThen

\* The smaller of two numbers.
LEMMA Min2Nat ==
  ASSUME NEW a \in Nat, NEW b \in Nat
  PROVE  Min2(a, b) \in Nat /\ Min2(a, b) <= a /\ Min2(a, b) <= b
  BY DEF Min2

\* Data of n bytes that fits the window and the packet is queued: b has the
\* new pending_out and n bytes less of the send window.
LEMMA HarmlessData ==
  ASSUME NEW c, Local(c), ~c.kex_blocks_app, c.slot # "none",
         Queued(c) < WriteSoft,
         NEW d \in Seq(Nat), Len(d) <= MaxPacket, Len(d) <= c.send_window,
         NEW b \in ConnType, Len(FlattenSeq(b.pending_out)) <= PendRoom,
         b.send_window = c.send_window - Len(d),
         b.write_q = c.write_q,
         b.kex_blocks_app = c.kex_blocks_app, b.sent_newkeys = c.sent_newkeys,
         b.recv_window = c.recv_window, b.in_q = c.in_q,
         b.open_confirmed = c.open_confirmed, b.slot = c.slot
  PROVE  Harmless(c, Queue(b, Data(c, d)))
<1> DEFINE m == Data(c, d)
<1>1. /\ c \in ConnType /\ c.send_window \in Nat /\ c.recv_window \in Nat
      /\ Queued(c) \in Nat /\ Total("data", c.write_q) <= Queued(c)
      /\ Total("data", c.write_q) \in Nat
  BY ConnNumbers
<1>2. 0 \in Nat /\ Len(d) \in Nat
  OBVIOUS
<1>3. /\ m \in Packet /\ m.t = "DATA"
      /\ Weight("data", m) = Len(d) /\ Weight("credit", m) = 0
  BY <1>1, <1>2, ChannelPackets
<1> HIDE DEF m
<1>4. Fresh(b) /\ b.recv_window + InBytes(b) <= Window /\ PendBytes(b) <= PendRoom
  BY DEF Local, Bounded, Fresh, InBytes, PendBytes
<1>5. m.t \notin {"OPEN", "CONFIRM", "KEXINIT"}
  BY <1>3
<1>6. /\ b.send_window + Weight("data", m) <= c.send_window
      /\ c.recv_window + Weight("credit", m) <= b.recv_window
  BY <1>1, <1>2, <1>3
<1>7. Total("data", c.write_q) < WriteSoft /\ Weight("data", m) <= MaxPacket
  BY <1>1, <1>3, ChannelAssumptions
<1>8. Harmless(c, Queue(b, m))
  BY <1>3, <1>4, <1>5, <1>6, <1>7, HarmlessQueue
<1> QED
  BY <1>8 DEF m

\* One turn of flush_pending's loop.
LEMMA FlushOneHarmless ==
  ASSUME NEW c, Local(c), ~c.kex_blocks_app
  PROVE  Harmless(c, FlushOne(c)) /\ ~FlushOne(c).kex_blocks_app
<1> DEFINE front == Head(c.pending_out)
           take  == Min2(Min2(Len(front), MaxPacket), c.send_window)
           rest  == IF take >= Len(front)
                      THEN Tail(c.pending_out)
                      ELSE <<SubSeq(front, take + 1, Len(front))>>
                           \o Tail(c.pending_out)
           stop  == \/ ~c.open_confirmed \/ c.sent_eof \/ c.remote_id = None
                    \/ c.send_window = 0 \/ c.pending_out = << >>
                    \/ Queued(c) >= WriteSoft
           d     == SubSeq(front, 1, take)
           v     == c.send_window - take
           b     == [c EXCEPT !.pending_out = rest, !.send_window = v]
<1>1. FlushOne(c) = IF stop THEN c ELSE Queue(b, Data(c, d))
  BY DEF FlushOne
<1>2. CASE stop
  <2> HIDE DEF stop
  <2> QED
    BY <1>1, <1>2, HarmlessSelf
<1>3. CASE ~stop
  <2>1. /\ c \in ConnType /\ c.send_window \in Nat
        /\ c.pending_out \in Seq(Seq(Nat)) /\ c.pending_out # << >>
        /\ PendBytes(c) \in Nat /\ Queued(c) \in Nat
    BY <1>3, ConnNumbers
  <2>2. Queued(c) < WriteSoft /\ MaxPacket \in Nat /\ PendRoom \in Nat
    BY <1>3, <2>1, ChannelAssumptions
  <2>3. FlushOne(c) = Queue(b, Data(c, d))
    BY <1>1, <1>3
  <2> HIDE DEF stop
  <2>4. front \in Seq(Nat) /\ Len(front) \in Nat
    BY <2>1
  <2>5. take \in Nat /\ take <= Len(front) /\ take <= MaxPacket
        /\ take <= c.send_window /\ v \in Nat
    <3> DEFINE x == Min2(Len(front), MaxPacket)
    <3>1. x \in Nat /\ x <= Len(front) /\ x <= MaxPacket
      BY <2>2, <2>4, Min2Nat
    <3> HIDE DEF x, front
    <3>2. take \in Nat /\ take <= x /\ take <= c.send_window
      BY <2>1, <3>1, Min2Nat DEF x
    <3> HIDE DEF take
    <3> QED
      BY <2>1, <2>2, <2>4, <3>1, <3>2
  <2>6. d \in Seq(Nat) /\ Len(d) = take
    BY <2>4, <2>5
  <2>7. rest \in Seq(Seq(Nat)) /\ Len(FlattenSeq(rest)) <= PendRoom
    <3> DEFINE q == c.pending_out
               cut == <<SubSeq(Head(q), take + 1, Len(Head(q)))>> \o Tail(q)
    <3>1. q \in Seq(Seq(Nat)) /\ q # << >> /\ take \in 0 .. Len(Head(q))
      BY <2>1, <2>4, <2>5
    <3>2. rest = Tail(q) \/ rest = cut
      OBVIOUS
    <3>3. PendBytes(c) = Len(FlattenSeq(q)) /\ PendBytes(c) <= PendRoom
          /\ Len(Head(q)) \in Nat
      BY <2>4 DEF PendBytes, Local, Bounded
    <3> HIDE DEF q, take, rest
    <3>4. /\ Tail(q) \in Seq(Seq(Nat)) /\ cut \in Seq(Seq(Nat))
          /\ Len(FlattenSeq(q)) \in Nat
          /\ Len(FlattenSeq(cut)) = Len(FlattenSeq(q)) - take
          /\ Len(FlattenSeq(Tail(q))) = Len(FlattenSeq(q)) - Len(Head(q))
      BY <3>1, FrontCut
    <3> HIDE DEF cut
    <3>5. /\ Len(FlattenSeq(cut)) <= PendRoom
          /\ Len(FlattenSeq(Tail(q))) <= PendRoom
      BY <2>2, <2>5, <3>3, <3>4
    <3> QED
      BY <3>2, <3>4, <3>5
  <2>8. v = c.send_window - Len(d)
    BY <2>6
  <2>9. c.slot # "none"
    BY <2>1 DEF Local, Fresh
  <2> HIDE DEF rest, v, d, take, front
  <2>10. /\ b \in ConnType /\ b.pending_out = rest /\ b.send_window = v
         /\ b.write_q = c.write_q
         /\ b.kex_blocks_app = c.kex_blocks_app /\ b.sent_newkeys = c.sent_newkeys
         /\ b.recv_window = c.recv_window /\ b.in_q = c.in_q
         /\ b.open_confirmed = c.open_confirmed /\ b.slot = c.slot
    BY <2>1, <2>5, <2>7 DEF ConnType
  <2> HIDE DEF b
  <2>11. Len(d) <= MaxPacket /\ Len(d) <= c.send_window
    BY <2>5, <2>6
  <2>12. Harmless(c, Queue(b, Data(c, d)))
    BY <2>2, <2>6, <2>7, <2>8, <2>9, <2>10, <2>11, HarmlessData
  <2>13. Data(c, d) \in Packet
    BY <2>1, <2>6, ChannelPackets, 0 \in Nat
  <2>14. Queue(b, Data(c, d)).kex_blocks_app = b.kex_blocks_app
    BY <2>10, <2>13, QueueFields
  <2> QED
    BY <2>3, <2>10, <2>12, <2>14
<1> QED
  BY <1>2, <1>3

FlushTurn(x, a, b) == FlushOne(a)

FF == INSTANCE FoldLemmas WITH Op <- FlushTurn

\* flush_pending with the gate open sends the pending bytes one by one.
LEMMA FlushPendingFold ==
  ASSUME NEW c, ~c.kex_blocks_app, c.slot = "live"
  PROVE  FlushPending(c) = FF!Fold(0, c, FlattenSeq(c.pending_out))
  BY DEF FlushPending, FF!Fold, FF!IsFold, FF!Largest, FlushTurn,
         FoldLeft, MapThenFoldSet, Max

\* flush_pending, however many turns its loop takes.
LEMMA FlushPendingHarmless ==
  ASSUME NEW c, Local(c)
  PROVE  Harmless(c, FlushPending(c))
<1>1. CASE c.kex_blocks_app \/ c.slot # "live"
  <2>1. FlushPending(c) = c
    BY <1>1 DEF FlushPending
  <2> QED
    BY <2>1, HarmlessSelf
<1>2. CASE ~c.kex_blocks_app /\ c.slot = "live"
  <2> DEFINE q == FlattenSeq(c.pending_out)
             n == Len(q)
  <2>1. q \in Seq(Nat)
    BY ConnNumbers, FlattenType
  <2>2. n \in Nat /\ DOMAIN q = 1 .. n
    BY <2>1
  <2>3. FlushPending(c) = FF!Fold(0, c, q)
    BY <1>2, FlushPendingFold
  <2> HIDE DEF q, n
  <2>4. PICK g : FF!IsChain(g, 0, c, q, n) /\ FF!Fold(0, c, q) = g[n]
    BY <2>2, FF!FoldChain
  <2>5. g[0] = c /\ \A k \in 1 .. n : g[k] = FlushOne(g[k - 1])
    BY <2>4 DEF FF!IsChain, FlushTurn
  <2> DEFINE T == {k \in 0 .. n : Harmless(c, g[k]) /\ ~g[k].kex_blocks_app}
  <2>6. 0 \in T
    BY <1>2, <2>2, <2>5, HarmlessSelf
  <2>7. ASSUME NEW k \in 1 .. n, k - 1 \in T PROVE k \in T
    <3>1. Harmless(c, g[k - 1]) /\ ~g[k - 1].kex_blocks_app
      BY <2>7
    <3>2. Local(g[k - 1])
      BY <3>1 DEF Harmless, Changes
    <3>3. Harmless(g[k - 1], g[k]) /\ ~g[k].kex_blocks_app
      BY <2>5, <3>1, <3>2, FlushOneHarmless
    <3>4. Harmless(c, g[k])
      BY <3>1, <3>3, HarmlessThen
    <3> QED
      BY <2>2, <3>3, <3>4
  <2> HIDE DEF T
  <2>8. n \in T
    BY <2>2, <2>6, <2>7, IntervalInduction
  <2> QED
    BY <2>3, <2>4, <2>8 DEF T
<1> QED
  BY <1>1, <1>2

\* emit_eof_if_ready is harmless.
LEMMA EmitEofHarmless ==
  ASSUME NEW c, Local(c)
  PROVE  Harmless(c, EmitEofIfReady(c))
<1> DEFINE w == [c EXCEPT !.wire_eof = TRUE]
           stop == c.kex_blocks_app \/ c.slot # "live" \/ ~c.sent_eof \/ c.wire_eof
<1>1. c \in ConnType
  BY ConnNumbers
<1>2. EmitEofIfReady(c) = IF stop THEN c
                          ELSE IF c.remote_id # None
                                 THEN Queue(w, Msg(c, "EOF")) ELSE w
  BY DEF EmitEofIfReady
<1>3. /\ w \in ConnType
      /\ w.write_q = c.write_q
      /\ w.kex_blocks_app = c.kex_blocks_app /\ w.sent_newkeys = c.sent_newkeys
      /\ w.send_window = c.send_window /\ w.recv_window = c.recv_window
      /\ w.in_q = c.in_q /\ w.pending_out = c.pending_out
      /\ w.open_confirmed = c.open_confirmed /\ w.slot = c.slot
  BY <1>1 DEF ConnType
<1>4. stop \/ ~c.kex_blocks_app
  OBVIOUS
<1> HIDE DEF w, stop
<1>5. Harmless(c, c)
  BY HarmlessSelf
<1>6. Harmless(c, w)
  BY <1>3, HarmlessFlags
<1>7. ~c.kex_blocks_app => Harmless(c, Queue(w, Msg(c, "EOF")))
  BY <1>3, HarmlessMsg
<1> QED
  BY <1>2, <1>4, <1>5, <1>6, <1>7

\* emit_close_if_ready is harmless.
LEMMA EmitCloseHarmless ==
  ASSUME NEW c, Local(c)
  PROVE  Harmless(c, EmitCloseIfReady(c))
<1> DEFINE w == [c EXCEPT !.wire_close = TRUE, !.wire_eof = TRUE]
           m == Msg(c, "CLOSE")
           q == IF c.wire_close \/ c.remote_id = None THEN w ELSE Queue(w, m)
           f == [q EXCEPT !.slot = "freed"]
<1>1. CASE c.kex_blocks_app \/ c.slot # "live" \/ ~c.sent_close
  <2>1. EmitCloseIfReady(c) = c
    BY <1>1 DEF EmitCloseIfReady
  <2> QED
    BY <2>1, HarmlessSelf
<1>2. CASE ~c.kex_blocks_app /\ c.slot = "live" /\ c.sent_close
  <2>1. EmitCloseIfReady(c) = IF q.got_close THEN f ELSE q
    BY <1>2 DEF EmitCloseIfReady
  <2>2. c \in ConnType
    BY ConnNumbers
  <2>3. /\ w \in ConnType
        /\ w.write_q = c.write_q
        /\ w.kex_blocks_app = c.kex_blocks_app /\ w.sent_newkeys = c.sent_newkeys
        /\ w.send_window = c.send_window /\ w.recv_window = c.recv_window
        /\ w.in_q = c.in_q /\ w.pending_out = c.pending_out
        /\ w.open_confirmed = c.open_confirmed /\ w.slot = c.slot
    BY <2>2 DEF ConnType
  <2> HIDE DEF w
  <2>4. Harmless(c, w)
    BY <2>3, HarmlessFlags
  <2>5. Harmless(c, Queue(w, m))
    BY <1>2, <2>3, HarmlessMsg
  <2>6. Harmless(c, q)
    <3> HIDE DEF m
    <3> QED
      BY <2>4, <2>5
  <2>7. q.slot = "live"
    <3>1. m \in Packet
      BY <2>2, ChannelPackets, 0 \in Nat, << >> \in Seq(Nat)
    <3> HIDE DEF m
    <3>2. Queue(w, m).slot = w.slot
      BY <2>3, <3>1, QueueFields
    <3> QED
      BY <1>2, <2>3, <3>2
  <2> HIDE DEF q
  <2>8. Local(q) /\ q \in ConnType
    BY <2>6 DEF Harmless, Changes, Local
  <2>9. /\ f \in ConnType
        /\ f.write_q = q.write_q
        /\ f.kex_blocks_app = q.kex_blocks_app /\ f.sent_newkeys = q.sent_newkeys
        /\ f.send_window = q.send_window /\ f.recv_window = q.recv_window
        /\ f.in_q = q.in_q /\ f.pending_out = q.pending_out
        /\ f.open_confirmed = q.open_confirmed /\ f.slot = "freed"
    BY <2>8 DEF ConnType
  <2> HIDE DEF f
  <2>10. Harmless(q, f)
    BY <2>7, <2>8, <2>9, HarmlessFlags
  <2>11. Harmless(c, f)
    BY <2>6, <2>10, HarmlessThen
  <2> QED
    BY <2>1, <2>6, <2>11
<1> QED
  BY <1>1, <1>2

\* send_eof is harmless.
LEMMA SendEofHarmless ==
  ASSUME NEW c, Local(c)
  PROVE  Harmless(c, SendEof(c))
<1> DEFINE b == [c EXCEPT !.sent_eof = TRUE]
<1>1. c \in ConnType
  BY ConnNumbers
<1>2. \/ SendEof(c) = Fail(c)
      \/ SendEof(c) = c
      \/ SendEof(c) = EmitEofIfReady(b)
  BY DEF SendEof
<1>3. /\ b \in ConnType
      /\ b.write_q = c.write_q
      /\ b.kex_blocks_app = c.kex_blocks_app /\ b.sent_newkeys = c.sent_newkeys
      /\ b.send_window = c.send_window /\ b.recv_window = c.recv_window
      /\ b.in_q = c.in_q /\ b.pending_out = c.pending_out
      /\ b.open_confirmed = c.open_confirmed /\ b.slot = c.slot
  BY <1>1 DEF ConnType
<1> HIDE DEF b
<1>4. Harmless(c, b)
  BY <1>3, HarmlessFlags
<1>5. Local(b)
  BY <1>4 DEF Harmless, Changes
<1>6. Harmless(c, EmitEofIfReady(b))
  BY <1>4, <1>5, EmitEofHarmless, HarmlessThen
<1> QED
  BY <1>2, <1>6, FailHarmless, HarmlessSelf

\* send_close is harmless.
LEMMA SendCloseHarmless ==
  ASSUME NEW c, Local(c)
  PROVE  Harmless(c, SendClose(c))
<1> DEFINE b == [c EXCEPT !.sent_close = TRUE, !.sent_eof = TRUE]
<1>1. c \in ConnType
  BY ConnNumbers
<1>2. \/ SendClose(c) = Fail(c)
      \/ SendClose(c) = c
      \/ SendClose(c) = EmitCloseIfReady(b)
  BY DEF SendClose
<1>3. /\ b \in ConnType
      /\ b.write_q = c.write_q
      /\ b.kex_blocks_app = c.kex_blocks_app /\ b.sent_newkeys = c.sent_newkeys
      /\ b.send_window = c.send_window /\ b.recv_window = c.recv_window
      /\ b.in_q = c.in_q /\ b.pending_out = c.pending_out
      /\ b.open_confirmed = c.open_confirmed /\ b.slot = c.slot
  BY <1>1 DEF ConnType
<1> HIDE DEF b
<1>4. Harmless(c, b)
  BY <1>3, HarmlessFlags
<1>5. Local(b)
  BY <1>4 DEF Harmless, Changes
<1>6. Harmless(c, EmitCloseIfReady(b))
  BY <1>4, <1>5, EmitCloseHarmless, HarmlessThen
<1> QED
  BY <1>2, <1>6, FailHarmless, HarmlessSelf

\* on_channel_eof is harmless.
LEMMA OnChannelEofHarmless ==
  ASSUME NEW c, Local(c)
  PROVE  Harmless(c, OnChannelEof(c))
<1> DEFINE b == [c EXCEPT !.got_eof = TRUE]
<1>1. c \in ConnType
  BY ConnNumbers
<1>2. OnChannelEof(c) = b \/ OnChannelEof(c) = c
  BY DEF OnChannelEof
<1>3. /\ b \in ConnType
      /\ b.write_q = c.write_q
      /\ b.kex_blocks_app = c.kex_blocks_app /\ b.sent_newkeys = c.sent_newkeys
      /\ b.send_window = c.send_window /\ b.recv_window = c.recv_window
      /\ b.in_q = c.in_q /\ b.pending_out = c.pending_out
      /\ b.open_confirmed = c.open_confirmed /\ b.slot = c.slot
  BY <1>1 DEF ConnType
<1> HIDE DEF b
<1>4. Harmless(c, b)
  BY <1>3, HarmlessFlags
<1> QED
  BY <1>2, <1>4, HarmlessSelf

\* on_channel_close is harmless.
LEMMA OnChannelCloseHarmless ==
  ASSUME NEW c, Local(c)
  PROVE  Harmless(c, OnChannelClose(c))
<1> DEFINE b == [c EXCEPT !.got_close = TRUE, !.got_eof = TRUE]
<1>1. c \in ConnType
  BY ConnNumbers
<1>2. \/ OnChannelClose(c) = c
      \/ OnChannelClose(c) = EmitCloseIfReady(b)
      \/ OnChannelClose(c) = SendClose(b)
  BY DEF OnChannelClose
<1>3. /\ b \in ConnType
      /\ b.write_q = c.write_q
      /\ b.kex_blocks_app = c.kex_blocks_app /\ b.sent_newkeys = c.sent_newkeys
      /\ b.send_window = c.send_window /\ b.recv_window = c.recv_window
      /\ b.in_q = c.in_q /\ b.pending_out = c.pending_out
      /\ b.open_confirmed = c.open_confirmed /\ b.slot = c.slot
  BY <1>1 DEF ConnType
<1> HIDE DEF b
<1>4. Harmless(c, b)
  BY <1>3, HarmlessFlags
<1>5. Local(b)
  BY <1>4 DEF Harmless, Changes
<1>6. Harmless(b, EmitCloseIfReady(b)) /\ Harmless(b, SendClose(b))
  BY <1>5, EmitCloseHarmless, SendCloseHarmless
<1>7. Harmless(c, EmitCloseIfReady(b)) /\ Harmless(c, SendClose(b))
  BY <1>4, <1>6, HarmlessThen
<1> QED
  BY <1>2, <1>7, HarmlessSelf

\* A channel that leaves the table, with or without OPEN_FAILURE.
LEMMA OpenFailedHarmless ==
  ASSUME NEW c, Local(c)
  PROVE  Harmless(c, OnOpenFail(c)) /\ Harmless(c, FailOpen(c))
<1> DEFINE b == [c EXCEPT !.slot = "freed"]
<1>1. c \in ConnType
  BY ConnNumbers
<1>2. /\ OnOpenFail(c) = c \/ (c.slot = "live" /\ OnOpenFail(c) = b)
      /\ \/ FailOpen(c) = Fail(c)
         \/ c.slot = "live" /\ FailOpen(c) = Queue(b, Msg(c, "FAILURE"))
  BY DEF OnOpenFail, FailOpen
<1>3. /\ b \in ConnType
      /\ b.write_q = c.write_q
      /\ b.kex_blocks_app = c.kex_blocks_app /\ b.sent_newkeys = c.sent_newkeys
      /\ b.send_window = c.send_window /\ b.recv_window = c.recv_window
      /\ b.in_q = c.in_q /\ b.pending_out = c.pending_out
      /\ b.open_confirmed = c.open_confirmed /\ b.slot = "freed"
  BY <1>1 DEF ConnType
<1> HIDE DEF b
<1>4. c.slot = "live" => Harmless(c, b)
  BY <1>3, HarmlessFlags
<1>5. c.slot = "live" => Harmless(c, Queue(b, Msg(c, "FAILURE")))
  BY <1>3, HarmlessMsg
<1> QED
  BY <1>2, <1>4, <1>5, FailHarmless, HarmlessSelf

\* send_data of what the allowance lets the application read: what cannot be
\* sent waits in pending_out.
LEMMA EnqueueOrSendHarmless ==
  ASSUME NEW c, Local(c), c.slot = "live", NEW d \in Seq(Nat), Len(d) > 0,
         Len(d) <= OutboundAllowance(c)
  PROVE  Harmless(c, EnqueueOrSend(c, d))
<1>1. /\ c \in ConnType /\ c.send_window \in Nat /\ c.recv_window \in Nat
      /\ c.pending_out \in Seq(Seq(Nat))
      /\ PendBytes(c) \in Nat /\ Queued(c) \in Nat
  BY ConnNumbers
<1>2. /\ PendRoom \in Nat /\ MaxPacket \in Nat /\ WriteSoft \in Nat
      /\ PendBytes(c) <= PendRoom
  BY ChannelAssumptions DEF Local, Bounded
<1>3. Len(d) \in Nat
  OBVIOUS
<1>4. PendBytes(c) + Len(d) <= PendRoom
  <2> DEFINE room == Monus(PendRoom, PendBytes(c))
  <2>1. room \in Nat /\ PendBytes(c) + room = PendRoom
    BY <1>1, <1>2 DEF Monus
  <2>2. ChannelAllowance(c) \in Nat
    BY <1>1, <1>2, Min2Nat DEF ChannelAllowance
  <2>3. \/ OutboundAllowance(c) = Min2(room, MaxPacket)
        \/ OutboundAllowance(c) = 0
        \/ OutboundAllowance(c) = Min2(ChannelAllowance(c), room)
    BY DEF OutboundAllowance
  <2> HIDE DEF room
  <2>4. /\ Min2(room, MaxPacket) <= room /\ Min2(room, MaxPacket) \in Nat
        /\ Min2(ChannelAllowance(c), room) <= room
        /\ Min2(ChannelAllowance(c), room) \in Nat
    BY <1>2, <2>1, <2>2, Min2Nat
  <2>5. OutboundAllowance(c) <= room /\ OutboundAllowance(c) \in Nat
    BY <2>1, <2>3, <2>4
  <2> QED
    BY <1>1, <1>2, <1>3, <2>1, <2>5
<1>5. CASE ~CanWire(c) \/ c.remote_id = None \/ c.send_window = 0
  <2> DEFINE v == Append(c.pending_out, d)
             b == [c EXCEPT !.pending_out = v]
  <2>1. EnqueueOrSend(c, d) = b
    BY <1>5 DEF EnqueueOrSend
  <2>2. v \in Seq(Seq(Nat)) /\ Len(FlattenSeq(v)) <= PendRoom
    <3>1. FlattenSeq(v) = FlattenSeq(c.pending_out) \o d
      BY <1>1, FlattenAppend
    <3>2. FlattenSeq(c.pending_out) \in Seq(Nat)
      BY <1>1, FlattenType
    <3>3. Len(FlattenSeq(c.pending_out) \o d) = PendBytes(c) + Len(d)
      BY <3>2, ConcatElements DEF PendBytes
    <3>4. v \in Seq(Seq(Nat))
      BY <1>1
    <3> HIDE DEF v
    <3> QED
      BY <1>4, <3>1, <3>3, <3>4
  <2> HIDE DEF v
  <2>3. /\ b \in ConnType
        /\ b.write_q = c.write_q
        /\ b.kex_blocks_app = c.kex_blocks_app /\ b.sent_newkeys = c.sent_newkeys
        /\ b.send_window = c.send_window /\ b.recv_window = c.recv_window
        /\ b.in_q = c.in_q /\ b.pending_out = v
        /\ b.open_confirmed = c.open_confirmed /\ b.slot = c.slot
    BY <1>1, <2>2 DEF ConnType
  <2> HIDE DEF b
  <2>4. Bounded(b) /\ Fresh(b)
    BY <2>2, <2>3 DEF Local, Bounded, Fresh, InBytes, PendBytes
  <2>5. /\ b.send_window <= c.send_window + 0
        /\ c.recv_window <= b.recv_window + 0
    BY <1>1, <2>3
  <2>6. Harmless(c, b)
    BY <2>3, <2>4, <2>5, ChangesNoPacket DEF Harmless
  <2> QED
    BY <2>1, <2>6
<1>6. CASE CanWire(c) /\ c.remote_id # None /\ c.send_window # 0
  <2> DEFINE n == Min2(Min2(Len(d), MaxPacket), c.send_window)
             v == c.send_window - n
             p == IF n < Len(d)
                    THEN <<SubSeq(d, n + 1, Len(d))>> \o c.pending_out
                    ELSE c.pending_out
             w == [c EXCEPT !.send_window = v]
             r == IF n < Len(d)
                    THEN [w EXCEPT !.pending_out =
                            <<SubSeq(d, n + 1, Len(d))>> \o @]
                    ELSE w
             x == SubSeq(d, 1, n)
  <2>1. EnqueueOrSend(c, d) = Queue(r, Data(c, x))
    BY <1>6 DEF EnqueueOrSend
  <2>2. /\ n \in Nat /\ n <= Len(d) /\ n <= MaxPacket /\ n <= c.send_window
        /\ v \in Nat
    <3> DEFINE y == Min2(Len(d), MaxPacket)
    <3>1. y \in Nat /\ y <= Len(d) /\ y <= MaxPacket
      BY <1>2, <1>3, Min2Nat
    <3> HIDE DEF y
    <3>2. n \in Nat /\ n <= y /\ n <= c.send_window
      BY <1>1, <3>1, Min2Nat DEF y
    <3> HIDE DEF n
    <3> QED
      BY <1>1, <1>2, <1>3, <3>1, <3>2
  <2>3. x \in Seq(Nat) /\ Len(x) = n
    BY <1>3, <2>2
  <2>4. p \in Seq(Seq(Nat)) /\ Len(FlattenSeq(p)) <= PendRoom
    <3> DEFINE l == SubSeq(d, n + 1, Len(d))
               f == FlattenSeq(c.pending_out)
    <3>0. n \in 0 .. Len(d)
      BY <1>3, <2>2
    <3>1. l \in Seq(Nat) /\ Len(l) = Len(d) - n
      <4> HIDE DEF n
      <4> QED
        BY <3>0, CutInTwo
    <3>2. p = <<l>> \o c.pending_out \/ p = c.pending_out
      OBVIOUS
    <3>3. f \in Seq(Nat) /\ Len(f) = PendBytes(c)
      BY <1>1, FlattenType DEF PendBytes
    <3> HIDE DEF l, n, p
    <3>4. <<l>> \in Seq(Seq(Nat)) /\ <<l>> \o c.pending_out \in Seq(Seq(Nat))
      BY <1>1, <3>1
    <3>5. FlattenSeq(<<l>> \o c.pending_out) = l \o f
      <4>1. FlattenSeq(<<l>> \o c.pending_out) = FlattenSeq(<<l>>) \o f
        BY <1>1, <3>4, FlattenConcat
      <4>2. FlattenSeq(<<l>>) = l
        BY <3>1, FlattenSingle
      <4> QED
        BY <4>1, <4>2
    <3>6. Len(l \o f) = Len(d) - n + PendBytes(c)
      BY <1>3, <2>2, <3>1, <3>3, ConcatElements
    <3>7. Len(l \o f) <= PendRoom
      BY <1>1, <1>2, <1>3, <1>4, <2>2, <3>6
    <3> QED
      BY <1>1, <1>2, <3>2, <3>3, <3>4, <3>5, <3>7
  <2>5. r = IF n < Len(d) THEN [w EXCEPT !.pending_out = p] ELSE w
    BY <1>1 DEF ConnType
  <2>6. ~(n < Len(d)) => p = c.pending_out
    OBVIOUS
  <2>7. v = c.send_window - Len(x)
    BY <2>3
  <2>8. Queued(c) < WriteSoft /\ ~c.kex_blocks_app
    BY <1>1, <1>2, <1>3, <1>6 DEF OutboundAllowance, CanWire
  <2> HIDE DEF n, v, p, x, r
  <2>9. /\ w \in ConnType
        /\ w.write_q = c.write_q
        /\ w.kex_blocks_app = c.kex_blocks_app /\ w.sent_newkeys = c.sent_newkeys
        /\ w.send_window = v /\ w.recv_window = c.recv_window
        /\ w.in_q = c.in_q /\ w.pending_out = c.pending_out
        /\ w.open_confirmed = c.open_confirmed /\ w.slot = c.slot
    BY <1>1, <2>2 DEF ConnType
  <2> HIDE DEF w
  <2>10. /\ r \in ConnType
         /\ r.write_q = c.write_q
         /\ r.kex_blocks_app = c.kex_blocks_app /\ r.sent_newkeys = c.sent_newkeys
         /\ r.send_window = v /\ r.recv_window = c.recv_window
         /\ r.in_q = c.in_q /\ r.pending_out = p
         /\ r.open_confirmed = c.open_confirmed /\ r.slot = c.slot
    <3>1. CASE n < Len(d)
      <4>1. r = [w EXCEPT !.pending_out = p]
        BY <2>5, <3>1
      <4> QED
        BY <2>4, <2>9, <4>1 DEF ConnType
    <3>2. CASE ~(n < Len(d))
      BY <2>5, <2>6, <2>9, <3>2
    <3> QED
      BY <3>1, <3>2
  <2>11. Len(x) <= MaxPacket /\ Len(x) <= c.send_window
    BY <2>2, <2>3
  <2>12. Harmless(c, Queue(r, Data(c, x)))
    BY <2>3, <2>4, <2>7, <2>8, <2>10, <2>11, HarmlessData
  <2> QED
    BY <2>1, <2>12
<1> QED
  BY <1>5, <1>6

-----------------------------------------------------------------------------
(* The key exchange.                                                       *)

\* A packet of the key exchange is no channel packet and carries nothing that
\* is counted.
LEMMA KexPacket ==
  ASSUME NEW t \in KexTypes
  PROVE  /\ Kex(t) \in Packet /\ Kex(t).t = t /\ t \notin GatedTypes
         /\ \A x \in {"data", "credit", "OPEN", "CONFIRM"} : Weight(x, Kex(t)) = 0
<1>1. Kex(t) \in Packet /\ Kex(t).t = t
  BY DEF Kex, Packet
<1>2. t \notin GatedTypes /\ t \notin {"OPEN", "CONFIRM"}
  BY DEF KexTypes, GatedTypes
<1> QED
  BY <1>1, <1>2 DEF Weight, GatedTypes

\* A packet of the exchange is queued and the gate stays sound.
LEMMA HarmlessKex ==
  ASSUME NEW c, Local(c), NEW d \in ConnType, NEW t \in KexTypes,
         d.write_q = Append(c.write_q, Kex(t)),
         d.send_window = c.send_window, d.recv_window = c.recv_window,
         d.in_q = c.in_q, d.pending_out = c.pending_out,
         d.open_confirmed = c.open_confirmed, d.slot = c.slot,
         t = "KEXINIT" => d.kex_blocks_app /\ ~d.sent_newkeys,
         t # "KEXINIT" => d.kex_blocks_app = c.kex_blocks_app,
         t \notin {"KEXINIT", "NEWKEYS"} => d.sent_newkeys = c.sent_newkeys
  PROVE  Harmless(c, d)
<1>1. /\ c \in ConnType /\ c.send_window \in Nat /\ c.recv_window \in Nat
      /\ c.write_q \in Seq(Packet)
      /\ \A x : Total(x, c.write_q) \in Nat
  BY ConnNumbers
<1> DEFINE m == Kex(t)
<1>2. /\ m \in Packet /\ m.t = t /\ m.t \notin GatedTypes
      /\ \A x \in {"data", "credit", "OPEN", "CONFIRM"} : Weight(x, m) = 0
  BY KexPacket
<1> HIDE DEF m
<1>3. d.write_q = Append(c.write_q, m)
  BY DEF m
<1>4. \A x \in {"data", "credit", "OPEN", "CONFIRM"} :
        Total(x, d.write_q) = Total(x, c.write_q)
  <2>1. \A x : Total(x, d.write_q) = Total(x, c.write_q) + Weight(x, m)
    BY <1>1, <1>2, <1>3, TotalStep
  <2> QED
    BY <1>1, <1>2, <2>1
<1>5. Local(d)
  BY <1>4 DEF Local, Bounded, Fresh, InBytes, PendBytes
<1>6. ASSUME NEW N \in Seq(Packet), Gated(c, N) PROVE Gated(d, N)
  <2> DEFINE r == N \o c.write_q
             a == N \o d.write_q
  <2>1. r \in Seq(Packet)
    BY <1>1
  <2>2. a = Append(r, m)
    <3>1. N \o Append(c.write_q, m) = Append(N \o c.write_q, m)
      BY <1>1, <1>2
    <3> QED
      BY <1>3, <3>1
  <2>3. QuietIn(r) /\ (~c.kex_blocks_app \/ c.sent_newkeys => ShutIn(r))
    BY <1>6 DEF Gated
  <2> HIDE DEF r, a
  <2>4. QuietIn(a)
    BY <1>2, <2>1, <2>2, <2>3, GateAppend
  <2>5. ASSUME ~d.kex_blocks_app \/ d.sent_newkeys PROVE ShutIn(a)
    <3>1. t # "KEXINIT"
      BY <2>5
    <3>2. CASE t = "NEWKEYS"
      BY <1>2, <2>1, <2>2, <2>3, <3>2, GateAppend
    <3>3. CASE t # "NEWKEYS"
      BY <1>2, <2>1, <2>2, <2>3, <2>5, <3>1, <3>3, GateAppend
    <3> QED
      BY <3>2, <3>3
  <2> QED
    BY <2>4, <2>5 DEF Gated, a
<1>7. /\ d.send_window + Total("data", d.write_q)
           <= c.send_window + Total("data", c.write_q) + 0
      /\ c.recv_window + Total("credit", d.write_q)
           <= d.recv_window + Total("credit", c.write_q) + 0
  BY <1>1, <1>4
<1> QED
  BY <1>4, <1>5, <1>6, <1>7 DEF Harmless, Changes

\* Queueing the packets between KEXINIT and NEWKEYS is harmless.
LEMMA QueueKexHarmless ==
  ASSUME NEW c, Local(c), NEW t \in {"ECDH_INIT", "ECDH_REPLY"}
  PROVE  Harmless(c, Queue(c, Kex(t)))
<1>1. c \in ConnType /\ t \in KexTypes
  BY ConnNumbers DEF KexTypes
<1>2. Kex(t) \in Packet /\ Kex(t).t = t
  BY <1>1, KexPacket
<1> DEFINE d == Queue(c, Kex(t))
<1>3. /\ d \in ConnType
      /\ d.slot = c.slot /\ d.open_confirmed = c.open_confirmed
      /\ d.send_window = c.send_window /\ d.recv_window = c.recv_window
      /\ d.in_q = c.in_q /\ d.pending_out = c.pending_out
      /\ d.kex_blocks_app = c.kex_blocks_app
      /\ d.sent_newkeys = c.sent_newkeys
      /\ d.write_q = Append(c.write_q, Kex(t))
  BY <1>1, <1>2, QueueFields
<1> HIDE DEF d
<1>4. Harmless(c, d)
  BY <1>1, <1>3, HarmlessKex
<1> QED
  BY <1>4 DEF d

\* start_kex shuts the gate before it queues KEXINIT.
LEMMA StartKexHarmless ==
  ASSUME NEW c, Local(c)
  PROVE  Harmless(c, StartKex(c))
<1> DEFINE b == [c EXCEPT !.sent_kexinit = TRUE, !.sent_newkeys = FALSE,
                          !.recv_newkeys = FALSE, !.kex_blocks_app = TRUE]
           m == Kex("KEXINIT")
           d == Queue(b, m)
<1>1. c \in ConnType /\ "KEXINIT" \in KexTypes
  BY ConnNumbers DEF KexTypes
<1>2. m \in Packet /\ m.t = "KEXINIT"
  BY <1>1, KexPacket
<1>3. /\ b \in ConnType
      /\ b.write_q = c.write_q /\ b.kex_blocks_app = TRUE /\ b.sent_newkeys = FALSE
      /\ b.send_window = c.send_window /\ b.recv_window = c.recv_window
      /\ b.in_q = c.in_q /\ b.pending_out = c.pending_out
      /\ b.open_confirmed = c.open_confirmed /\ b.slot = c.slot
  BY <1>1 DEF ConnType
<1>4. StartKex(c) = d
  BY DEF StartKex
<1> HIDE DEF b, m
<1>5. /\ d \in ConnType
      /\ d.slot = c.slot /\ d.open_confirmed = c.open_confirmed
      /\ d.send_window = c.send_window /\ d.recv_window = c.recv_window
      /\ d.in_q = c.in_q /\ d.pending_out = c.pending_out
      /\ d.kex_blocks_app /\ ~d.sent_newkeys
      /\ d.write_q = Append(c.write_q, m)
  BY <1>2, <1>3, QueueFields
<1> HIDE DEF d
<1>6. Harmless(c, d)
  BY <1>1, <1>5, HarmlessKex DEF m
<1> QED
  BY <1>4, <1>6

\* flush_post_rekey, the sequence of four calls, is harmless.
LEMMA FlushPostRekeyHarmless ==
  ASSUME NEW c, Local(c)
  PROVE  Harmless(c, FlushPostRekey(c))
<1> DEFINE x == MaybeAdjust(c)
           y == FlushPending(x)
           z == EmitEofIfReady(y)
           w == EmitCloseIfReady(z)
<1>1. FlushPostRekey(c) = w
  BY DEF FlushPostRekey
<1>2. \A d : Harmless(c, d) => Local(d)
  BY DEF Harmless, Changes
<1>3. Harmless(c, x)
  BY MaybeAdjustHarmless
<1> HIDE DEF x
<1>4. Harmless(c, y)
  BY <1>2, <1>3, FlushPendingHarmless, HarmlessThen
<1> HIDE DEF y
<1>5. Harmless(c, z)
  BY <1>2, <1>4, EmitEofHarmless, HarmlessThen
<1> HIDE DEF z
<1>6. Harmless(c, w)
  BY <1>2, <1>5, EmitCloseHarmless, HarmlessThen
<1> QED
  BY <1>1, <1>6

\* The gate opens only after our NEWKEYS.
LEMMA TryCompleteKexHarmless ==
  ASSUME NEW c, Local(c)
  PROVE  Harmless(c, TryCompleteKex(c))
<1> DEFINE b == [c EXCEPT !.sent_kexinit = FALSE, !.kex_blocks_app = FALSE]
<1>1. c \in ConnType
  BY ConnNumbers
<1>2. \/ TryCompleteKex(c) = c
      \/ c.sent_newkeys /\ TryCompleteKex(c) = FlushPostRekey(b)
  BY <1>1 DEF TryCompleteKex, ConnType
<1>3. /\ b \in ConnType
      /\ b.write_q = c.write_q /\ b.sent_newkeys = c.sent_newkeys
      /\ b.send_window = c.send_window /\ b.recv_window = c.recv_window
      /\ b.in_q = c.in_q /\ b.pending_out = c.pending_out
      /\ b.open_confirmed = c.open_confirmed /\ b.slot = c.slot
  BY <1>1 DEF ConnType
<1> HIDE DEF b
<1>4. ASSUME c.sent_newkeys PROVE Harmless(c, FlushPostRekey(b))
  <2>1. Harmless(c, b)
    BY <1>3, <1>4, HarmlessFlags
  <2>2. Local(b)
    BY <2>1 DEF Harmless, Changes
  <2> QED
    BY <2>1, <2>2, FlushPostRekeyHarmless, HarmlessThen
<1> QED
  BY <1>2, <1>4, HarmlessSelf

\* send_newkeys is harmless: the gate opens only behind NEWKEYS.
LEMMA SendNewkeysHarmless ==
  ASSUME NEW c, Local(c)
  PROVE  Harmless(c, SendNewkeys(c))
<1> DEFINE m == Kex("NEWKEYS")
           q == Queue(c, m)
           d == [q EXCEPT !.sent_newkeys = TRUE]
<1>1. c \in ConnType /\ "NEWKEYS" \in KexTypes
  BY ConnNumbers DEF KexTypes
<1>2. m \in Packet /\ m.t = "NEWKEYS"
  BY <1>1, KexPacket
<1>3. SendNewkeys(c) = TryCompleteKex(d)
  BY DEF SendNewkeys
<1> HIDE DEF m
<1>4. /\ q \in ConnType
      /\ q.slot = c.slot /\ q.open_confirmed = c.open_confirmed
      /\ q.send_window = c.send_window /\ q.recv_window = c.recv_window
      /\ q.in_q = c.in_q /\ q.pending_out = c.pending_out
      /\ q.kex_blocks_app = c.kex_blocks_app
      /\ q.write_q = Append(c.write_q, m)
  BY <1>1, <1>2, QueueFields
<1> HIDE DEF q
<1>5. /\ d \in ConnType
      /\ d.slot = q.slot /\ d.open_confirmed = q.open_confirmed
      /\ d.send_window = q.send_window /\ d.recv_window = q.recv_window
      /\ d.in_q = q.in_q /\ d.pending_out = q.pending_out
      /\ d.kex_blocks_app = q.kex_blocks_app
      /\ d.write_q = q.write_q
  BY <1>4 DEF ConnType
<1> HIDE DEF d
<1>6. Harmless(c, d)
  BY <1>1, <1>4, <1>5, HarmlessKex DEF m
<1>7. Local(d)
  BY <1>6 DEF Harmless, Changes
<1> QED
  BY <1>3, <1>6, <1>7, TryCompleteKexHarmless, HarmlessThen

\* on_kexinit is harmless.
LEMMA OnKexinitHarmless ==
  ASSUME NEW e, NEW c, Local(c)
  PROVE  Harmless(c, OnKexinit(e, c))
<1> DEFINE k == IF c.sent_kexinit THEN c ELSE StartKex(c)
<1>1. OnKexinit(e, c) = k \/ OnKexinit(e, c) = Queue(k, Kex("ECDH_INIT"))
  BY DEF OnKexinit
<1>2. Harmless(c, k)
  BY HarmlessSelf, StartKexHarmless
<1> HIDE DEF k
<1>3. Local(k)
  BY <1>2 DEF Harmless, Changes
<1>4. Harmless(c, Queue(k, Kex("ECDH_INIT")))
  BY <1>2, <1>3, QueueKexHarmless, HarmlessThen
<1> QED
  BY <1>1, <1>2, <1>4

\* on_newkeys is harmless.
LEMMA OnNewkeysHarmless ==
  ASSUME NEW c, Local(c)
  PROVE  Harmless(c, OnNewkeys(c))
<1> DEFINE b == [c EXCEPT !.recv_newkeys = TRUE]
<1>1. c \in ConnType
  BY ConnNumbers
<1>2. OnNewkeys(c) = TryCompleteKex(b)
  BY DEF OnNewkeys
<1>3. /\ b \in ConnType
      /\ b.write_q = c.write_q
      /\ b.kex_blocks_app = c.kex_blocks_app /\ b.sent_newkeys = c.sent_newkeys
      /\ b.send_window = c.send_window /\ b.recv_window = c.recv_window
      /\ b.in_q = c.in_q /\ b.pending_out = c.pending_out
      /\ b.open_confirmed = c.open_confirmed /\ b.slot = c.slot
  BY <1>1 DEF ConnType
<1> HIDE DEF b
<1>4. Harmless(c, b)
  BY <1>3, HarmlessFlags
<1>5. Local(b)
  BY <1>4 DEF Harmless, Changes
<1> QED
  BY <1>2, <1>4, <1>5, TryCompleteKexHarmless, HarmlessThen

-----------------------------------------------------------------------------
(* What a packet from the peer does.                                       *)

\* A harmless call changes no more than any allowance.
LEMMA ChangesMore ==
  ASSUME NEW c, NEW d, NEW s \in Nat, NEW r \in Nat, Local(c), Harmless(c, d)
  PROVE  Changes(c, d, s, r)
<1>1. Local(d)
  BY DEF Harmless, Changes
<1>2. \A b \in {c, d} : b.send_window \in Nat /\ b.recv_window \in Nat
                        /\ \A x : Total(x, b.write_q) \in Nat
  BY <1>1, ConnNumbers
<1> DEFINE X(b) == Total("data", b.write_q)
           Y(b) == Total("credit", b.write_q)
<1>3. /\ X(c) \in Nat /\ X(d) \in Nat /\ Y(c) \in Nat /\ Y(d) \in Nat
      /\ c.send_window \in Nat /\ d.send_window \in Nat
      /\ c.recv_window \in Nat /\ d.recv_window \in Nat
  BY <1>2
<1>4. /\ d.send_window + X(d) <= c.send_window + X(c) + 0
      /\ c.recv_window + Y(d) <= d.recv_window + Y(c) + 0
  BY DEF Harmless, Changes
<1> HIDE DEF X, Y
<1>5. /\ d.send_window + X(d) <= c.send_window + X(c) + s
      /\ c.recv_window + Y(d) <= d.recv_window + Y(c) + r
  BY <1>3, <1>4
<1> QED
  BY <1>5 DEF Harmless, Changes, X, Y

\* Data uses the window it was sent under.
LEMMA OnChannelDataChanges ==
  ASSUME NEW c, Local(c), NEW d \in Seq(Nat)
  PROVE  Changes(c, OnChannelData(c, d), 0, Len(d))
<1>1. /\ c \in ConnType /\ c.send_window \in Nat /\ c.recv_window \in Nat
      /\ InBytes(c) \in Nat /\ c.in_q \in Seq(Seq(Nat))
  BY ConnNumbers
<1>2. Len(d) \in Nat
  OBVIOUS
<1>3. CASE c.slot # "live" \/ Len(d) > c.recv_window
  <2>1. OnChannelData(c, d) = Fail(c)
    BY <1>3 DEF OnChannelData, PushIn
  <2> QED
    BY <1>2, <2>1, FailHarmless, ChangesMore
<1>4. CASE c.slot = "live" /\ ~(Len(d) > c.recv_window)
  <2> DEFINE v == c.recv_window - Len(d)
             q == Append(c.in_q, d)
             b == [c EXCEPT !.recv_window = v, !.in_q = q]
  <2>1. OnChannelData(c, d) = b
    BY <1>4 DEF OnChannelData, PushIn
  <2>2. v \in Nat /\ v + Len(d) = c.recv_window
    BY <1>1, <1>2, <1>4
  <2>3. q \in Seq(Seq(Nat)) /\ Len(FlattenSeq(q)) = InBytes(c) + Len(d)
    <3>1. FlattenSeq(q) = FlattenSeq(c.in_q) \o d
      BY <1>1, FlattenAppend
    <3>2. FlattenSeq(c.in_q) \in Seq(Nat)
      BY <1>1, FlattenType
    <3>3. Len(FlattenSeq(c.in_q) \o d) = InBytes(c) + Len(d)
      BY <3>2, ConcatElements DEF InBytes
    <3>4. q \in Seq(Seq(Nat))
      BY <1>1
    <3> HIDE DEF q
    <3> QED
      BY <3>1, <3>3, <3>4
  <2> HIDE DEF v, q
  <2>4. /\ b \in ConnType
        /\ b.write_q = c.write_q
        /\ b.kex_blocks_app = c.kex_blocks_app /\ b.sent_newkeys = c.sent_newkeys
        /\ b.send_window = c.send_window /\ b.recv_window = v
        /\ b.in_q = q /\ b.pending_out = c.pending_out
        /\ b.open_confirmed = c.open_confirmed /\ b.slot = c.slot
    BY <1>1, <2>2, <2>3 DEF ConnType
  <2> HIDE DEF b
  <2>5. Fresh(b)
    BY <1>4, <2>4 DEF Fresh
  <2>6. Bounded(b)
    <3>1. c.recv_window + InBytes(c) <= Window /\ Window \in Nat
      BY ChannelAssumptions DEF Local, Bounded
    <3>2. v + (InBytes(c) + Len(d)) <= Window
      BY <1>1, <1>2, <2>2, <3>1
    <3> QED
      BY <2>3, <2>4, <3>2 DEF Local, Bounded, InBytes, PendBytes
  <2>7. /\ b.send_window <= c.send_window + 0
        /\ c.recv_window <= b.recv_window + Len(d)
    BY <1>1, <1>2, <2>2, <2>4
  <2>8. Changes(c, b, 0, Len(d))
    BY <1>2, <2>4, <2>5, <2>6, <2>7, ChangesNoPacket
  <2> QED
    BY <2>1, <2>8
<1> QED
  BY <1>3, <1>4

\* Credit raises the send window by what was granted.
LEMMA OnWindowAdjustChanges ==
  ASSUME NEW c, Local(c), NEW add \in Nat
  PROVE  Changes(c, OnWindowAdjust(c, add), add, 0)
<1>1. c \in ConnType /\ c.send_window \in Nat /\ c.recv_window \in Nat
  BY ConnNumbers
<1>2. CASE c.slot # "live"
  <2>1. OnWindowAdjust(c, add) = Fail(c)
    BY <1>2 DEF OnWindowAdjust
  <2> QED
    BY <2>1, FailHarmless, ChangesMore
<1>3. CASE c.slot = "live"
  <2> DEFINE v == c.send_window + add
             b == [c EXCEPT !.send_window = v]
  <2>1. OnWindowAdjust(c, add) = FlushPending(b)
    BY <1>3 DEF OnWindowAdjust
  <2>2. v \in Nat /\ v = c.send_window + add
    BY <1>1
  <2> HIDE DEF v
  <2>3. /\ b \in ConnType
        /\ b.write_q = c.write_q
        /\ b.kex_blocks_app = c.kex_blocks_app /\ b.sent_newkeys = c.sent_newkeys
        /\ b.send_window = v /\ b.recv_window = c.recv_window
        /\ b.in_q = c.in_q /\ b.pending_out = c.pending_out
        /\ b.open_confirmed = c.open_confirmed /\ b.slot = c.slot
    BY <1>1, <2>2 DEF ConnType
  <2> HIDE DEF b
  <2>4. Fresh(b) /\ Bounded(b)
    BY <1>3, <2>3 DEF Local, Fresh, Bounded, InBytes, PendBytes
  <2>5. b.send_window <= c.send_window + add /\ c.recv_window <= b.recv_window + 0
    BY <1>1, <2>2, <2>3
  <2>6. Changes(c, b, add, 0)
    BY <2>3, <2>4, <2>5, ChangesNoPacket
  <2>7. Local(b)
    BY <2>6 DEF Changes
  <2>8. Changes(b, FlushPending(b), 0, 0)
    BY <2>7, FlushPendingHarmless DEF Harmless
  <2>9. Changes(c, FlushPending(b), add + 0, 0 + 0)
    BY <2>6, <2>8, ChangesCompose
  <2>10. add + 0 = add /\ 0 + 0 = 0
    OBVIOUS
  <2> QED
    BY <2>1, <2>9, <2>10
<1> QED
  BY <1>2, <1>3

\* Every packet but OPEN and OPEN_CONFIRMATION.
LEMMA HandleChanges ==
  ASSUME NEW e, NEW c, Local(c), NEW m \in Packet, m.t \notin {"OPEN", "CONFIRM"}
  PROVE  Changes(c, HandlePayload(e, c, m), Weight("credit", m), Weight("data", m))
<1> DEFINE d == HandlePayload(e, c, m)
<1>1. Weight("credit", m) \in Nat /\ Weight("data", m) \in Nat
  BY WeightNat
<1>2. CASE c.error
  <2>1. d = c
    BY <1>2 DEF HandlePayload
  <2> QED
    BY <1>1, <2>1, HarmlessSelf, ChangesMore
<1>3. CASE ~c.error /\ m.t = "ADJUST"
  <2>1. d = OnWindowAdjust(c, m.add)
    BY <1>3 DEF HandlePayload
  <2>2. m.add \in Nat /\ Weight("credit", m) = m.add /\ Weight("data", m) = 0
    BY <1>3, PacketFields DEF Weight
  <2>3. Changes(c, OnWindowAdjust(c, m.add), m.add, 0)
    BY <2>2, OnWindowAdjustChanges
  <2> QED
    BY <2>1, <2>2, <2>3
<1>4. CASE ~c.error /\ m.t = "DATA"
  <2>1. d = OnChannelData(c, m.data)
    BY <1>4 DEF HandlePayload
  <2>2. m.data \in Seq(Nat) /\ Weight("data", m) = Len(m.data)
        /\ Weight("credit", m) = 0
    BY <1>4, PacketFields DEF Weight
  <2>3. Changes(c, OnChannelData(c, m.data), 0, Len(m.data))
    BY <2>2, OnChannelDataChanges
  <2> QED
    BY <2>1, <2>2, <2>3
<1>5. CASE ~c.error /\ m.t \notin {"ADJUST", "DATA"}
  <2>1. m.t \in {"EOF", "CLOSE", "FAILURE", "KEXINIT", "ECDH_INIT",
                 "ECDH_REPLY", "NEWKEYS"}
    BY <1>5, PacketFields DEF GatedTypes, KexTypes
  <2>2. Harmless(c, d)
    <3>1. CASE m.t = "EOF"
      <4>1. d = OnChannelEof(c)
        BY <1>5, <3>1 DEF HandlePayload
      <4> QED
        BY <4>1, OnChannelEofHarmless
    <3>2. CASE m.t = "CLOSE"
      <4>1. d = OnChannelClose(c)
        BY <1>5, <3>2 DEF HandlePayload
      <4> QED
        BY <4>1, OnChannelCloseHarmless
    <3>3. CASE m.t = "FAILURE"
      <4>1. d = OnOpenFail(c)
        BY <1>5, <3>3 DEF HandlePayload
      <4> QED
        BY <4>1, OpenFailedHarmless
    <3>4. CASE m.t = "KEXINIT"
      <4>1. d = OnKexinit(e, c)
        BY <1>5, <3>4 DEF HandlePayload
      <4> QED
        BY <4>1, OnKexinitHarmless
    <3>5. CASE m.t = "ECDH_INIT"
      <4> DEFINE q == Queue(c, Kex("ECDH_REPLY"))
      <4>1. d = SendNewkeys(q)
        BY <1>5, <3>5 DEF HandlePayload
      <4>2. Harmless(c, q)
        BY QueueKexHarmless
      <4> HIDE DEF q
      <4>3. Local(q)
        BY <4>2 DEF Harmless, Changes
      <4> QED
        BY <4>1, <4>2, <4>3, SendNewkeysHarmless, HarmlessThen
    <3>6. CASE m.t = "ECDH_REPLY"
      <4>1. d = SendNewkeys(c)
        BY <1>5, <3>6 DEF HandlePayload
      <4> QED
        BY <4>1, SendNewkeysHarmless
    <3>7. CASE m.t = "NEWKEYS"
      <4>1. d = OnNewkeys(c)
        BY <1>5, <3>7 DEF HandlePayload
      <4> QED
        BY <4>1, OnNewkeysHarmless
    <3> QED
      BY <2>1, <3>1, <3>2, <3>3, <3>4, <3>5, <3>6, <3>7
  <2> HIDE DEF d
  <2>3. Changes(c, d, Weight("credit", m), Weight("data", m))
    BY <1>1, <2>2, ChangesMore
  <2> QED
    BY <2>3 DEF d
<1> QED
  BY <1>2, <1>3, <1>4, <1>5

-----------------------------------------------------------------------------
(* The link between the two connections.                                   *)

\* The same for both sides: c is the connection of e and p that of its peer.
LinkedAt(e, c, p, toMe, toPeer) ==
  IF e = "client" THEN Linked(c, p, toMe, toPeer) ELSE Linked(p, c, toPeer, toMe)

\* The arithmetic of the three cases below.
LEMMA CreditUsed ==
  ASSUME NEW u \in Nat, NEW v \in Nat, NEW w \in Nat, NEW s \in Nat,
         NEW a \in Nat, NEW b \in Nat, NEW c \in Nat, NEW d \in Nat,
         NEW e \in Nat, NEW f \in Nat, NEW g \in Nat,
         v + b <= u + a + s, u + a + c + d + f + g <= w, d = s + e
  PROVE  v + b + c + e + f + g <= w
  OBVIOUS

\* Arithmetic of FlowOfReceiver: data that leave the way shrink the window.
LEMMA WindowUsed ==
  ASSUME NEW u \in Nat, NEW v \in Nat, NEW w \in Nat, NEW r \in Nat,
         NEW a \in Nat, NEW c \in Nat, NEW d \in Nat, NEW e \in Nat,
         NEW f \in Nat, NEW g \in Nat, NEW h \in Nat,
         v + h <= w + f + r, u + a + c + e + f + g <= v, c = r + d
  PROVE  u + a + d + e + h + g <= w
  OBVIOUS

\* Arithmetic of FlowOfReceiver, for data that meet no channel.
LEMMA DataArrived ==
  ASSUME NEW u \in Nat, NEW w \in Nat, NEW r \in Nat,
         NEW a \in Nat, NEW c \in Nat, NEW d \in Nat, NEW e \in Nat,
         NEW f \in Nat, NEW g \in Nat, NEW h \in Nat,
         0 + h <= 0 + f + r, u + a + c + e + f + g <= w, c = r + d
  PROVE  u + a + d + e + h + g <= w
  OBVIOUS

\* c changes as the sender, and s bytes of credit leave the way to it.
LEMMA FlowOfSender ==
  ASSUME NEW e, NEW c, NEW d, NEW p, NEW s \in Nat, NEW r \in Nat,
         Local(c), Local(p), Changes(c, d, s, r),
         NEW toPeer \in Seq(Packet), NEW toMe \in Seq(Packet),
         NEW left \in Seq(Packet),
         Total("credit", toMe) = s + Total("credit", left),
         Flow(e, c, p, toPeer, toMe)
  PROVE  Flow(e, d, p, toPeer, left)
<1>1. Local(d) /\ d.open_confirmed = c.open_confirmed
      /\ (d.slot = "none") = (c.slot = "none")
  BY DEF Changes
<1>2. Unopened(e, d) = Unopened(e, c)
  BY <1>1 DEF Unopened
<1> DEFINE A == Total("data", c.write_q)
           B == Total("data", d.write_q)
           C == Total("data", toPeer)
           D == Total("credit", toMe)
           E == Total("credit", left)
           F == Total("credit", p.write_q)
           G == Unopened(e, c)
<1>3. /\ A \in Nat /\ B \in Nat /\ C \in Nat /\ D \in Nat /\ E \in Nat /\ F \in Nat
      /\ c.send_window \in Nat /\ d.send_window \in Nat /\ p.recv_window \in Nat
  BY <1>1, ConnNumbers, TotalNat
<1>4. G \in Nat /\ Accepts(p) \in Nat
  BY <1>3, ChannelAssumptions DEF Unopened, Accepts
<1>5. d.send_window + B <= c.send_window + A + s
  BY DEF Changes
<1>6. c.send_window + A + C + D + F + G <= Accepts(p)
  BY DEF Flow
<1>7. D = s + E
  OBVIOUS
<1> HIDE DEF A, B, C, D, E, F, G
<1>8. d.send_window + B + C + E + F + G <= Accepts(p)
  BY <1>3, <1>4, <1>5, <1>6, <1>7, CreditUsed
<1> QED
  BY <1>2, <1>8 DEF Flow, B, C, E, F, G

\* c changes as the receiver, and r bytes of data leave the way to it.
LEMMA FlowOfReceiver ==
  ASSUME NEW e, NEW c, NEW d, NEW p, NEW s \in Nat, NEW r \in Nat,
         Local(c), Local(p), Changes(c, d, s, r),
         NEW toPeer \in Seq(Packet), NEW toMe \in Seq(Packet),
         NEW left \in Seq(Packet),
         Total("data", toMe) = r + Total("data", left),
         Flow(e, p, c, toMe, toPeer)
  PROVE  Flow(e, p, d, left, toPeer)
<1>1. Local(d) /\ (d.slot = "none") = (c.slot = "none")
  BY DEF Changes
<1> DEFINE A == Total("data", p.write_q)
           C == Total("data", toMe)
           D == Total("data", left)
           E == Total("credit", toPeer)
           F == Total("credit", c.write_q)
           H == Total("credit", d.write_q)
           G == Unopened(e, p)
<1>2. /\ A \in Nat /\ C \in Nat /\ D \in Nat /\ E \in Nat /\ F \in Nat /\ H \in Nat
      /\ p.send_window \in Nat /\ c.recv_window \in Nat /\ d.recv_window \in Nat
  BY <1>1, ConnNumbers, TotalNat
<1>3. G \in Nat /\ Window \in Nat
  BY ChannelAssumptions DEF Unopened
<1>4. c.recv_window + H <= d.recv_window + F + r
  BY DEF Changes
<1>5. p.send_window + A + C + E + F + G <= Accepts(c)
  BY DEF Flow
<1>6. C = r + D
  OBVIOUS
<1>7. c.slot = "none" => c.recv_window = 0 /\ d.recv_window = 0
  BY <1>1 DEF Local, Fresh
<1>8. \/ c.slot = "none" /\ Accepts(c) = Window /\ Accepts(d) = Window
      \/ c.slot # "none" /\ Accepts(c) = c.recv_window /\ Accepts(d) = d.recv_window
  BY <1>1 DEF Accepts
<1> HIDE DEF A, C, D, E, F, G, H
<1>9. p.send_window + A + D + E + H + G <= Accepts(d)
  <2>1. CASE c.slot = "none"
    <3>1. Accepts(c) = Window /\ Accepts(d) = Window /\ 0 + H <= 0 + F + r
      BY <1>4, <1>7, <1>8, <2>1
    <3>2. p.send_window + A + C + E + F + G <= Window
      BY <1>5, <3>1
    <3>3. p.send_window + A + D + E + H + G <= Window
      BY <1>2, <1>3, <1>6, <3>1, <3>2, DataArrived
    <3> QED
      BY <3>1, <3>3
  <2>2. CASE c.slot # "none"
    <3>1. Accepts(c) = c.recv_window /\ Accepts(d) = d.recv_window
      BY <1>8, <2>2
    <3>2. p.send_window + A + C + E + F + G <= c.recv_window
      BY <1>5, <3>1
    <3>3. p.send_window + A + D + E + H + G <= d.recv_window
      BY ZenonT(30), <1>2, <1>3, <1>4, <1>6, <3>2, WindowUsed
    <3> QED
      BY <3>1, <3>3
  <2> QED
    BY <2>1, <2>2
<1> QED
  BY <1>9 DEF Flow, A, D, E, G, H

\* A change of one side keeps the link, if the packets that caused it leave
\* the way to it.
LEMMA LinkedChanges ==
  ASSUME NEW e \in Ends, NEW c, NEW d, NEW p, NEW s \in Nat, NEW r \in Nat,
         Local(c), Local(p), Changes(c, d, s, r),
         NEW toPeer \in Seq(Packet), NEW toMe \in Seq(Packet),
         NEW left \in Seq(Packet),
         Total("credit", toMe) = s + Total("credit", left),
         Total("data", toMe) = r + Total("data", left),
         Total("OPEN", left) = Total("OPEN", toMe),
         Total("CONFIRM", left) = Total("CONFIRM", toMe),
         LinkedAt(e, c, p, toMe, toPeer)
  PROVE  LinkedAt(e, d, p, left, toPeer)
<1>1. /\ Total("OPEN", d.write_q) = Total("OPEN", c.write_q)
      /\ Total("CONFIRM", d.write_q) = Total("CONFIRM", c.write_q)
      /\ d.open_confirmed = c.open_confirmed
      /\ (d.slot = "none") = (c.slot = "none")
  BY DEF Changes
<1>2. CASE e = "client"
  <2>1. OpenedOnce(c, p, toMe, toPeer)
        /\ Flow("client", c, p, toPeer, toMe)
        /\ Flow("server", p, c, toMe, toPeer)
    BY <1>2 DEF LinkedAt, Linked
  <2>2. OpenedOnce(d, p, left, toPeer)
    BY <1>1, <2>1 DEF OpenedOnce
  <2>3. Flow("client", d, p, toPeer, left)
    BY <2>1, FlowOfSender
  <2>4. Flow("server", p, d, left, toPeer)
    BY <2>1, FlowOfReceiver
  <2> QED
    BY <1>2, <2>2, <2>3, <2>4 DEF LinkedAt, Linked
<1>3. CASE e = "server"
  <2>1. OpenedOnce(p, c, toPeer, toMe)
        /\ Flow("server", c, p, toPeer, toMe)
        /\ Flow("client", p, c, toMe, toPeer)
    BY <1>3 DEF LinkedAt, Linked
  <2>2. OpenedOnce(p, d, toPeer, left)
    BY <1>1, <2>1 DEF OpenedOnce
  <2>3. Flow("server", d, p, toPeer, left)
    BY <2>1, FlowOfSender
  <2>4. Flow("client", p, d, left, toPeer)
    BY <2>1, FlowOfReceiver
  <2> QED
    BY <1>3, <2>2, <2>3, <2>4 DEF LinkedAt, Linked
<1> QED
  BY <1>2, <1>3 DEF Ends

\* A harmless call keeps the link in order, whatever is on the way.
LEMMA LinkedHarmless ==
  ASSUME NEW e \in Ends, NEW c, NEW d, NEW p, Local(c), Local(p), Harmless(c, d),
         NEW toPeer \in Seq(Packet), NEW toMe \in Seq(Packet),
         LinkedAt(e, c, p, toMe, toPeer)
  PROVE  LinkedAt(e, d, p, toMe, toPeer)
<1>1. /\ Total("credit", toMe) = 0 + Total("credit", toMe)
      /\ Total("data", toMe) = 0 + Total("data", toMe)
  <2>1. Total("credit", toMe) \in Nat /\ Total("data", toMe) \in Nat
    BY TotalNat
  <2> QED
    BY <2>1
<1> QED
  BY <1>1, LinkedChanges DEF Harmless

\* A packet without data or credit leaves the way to c and c takes no notice.
LEMMA LinkedLoses ==
  ASSUME NEW e \in Ends, NEW c, NEW p, Local(c), Local(p),
         NEW toPeer \in Seq(Packet), NEW toMe \in Seq(Packet),
         NEW left \in Seq(Packet),
         Total("credit", left) = Total("credit", toMe),
         Total("data", left) = Total("data", toMe),
         Total("OPEN", left) <= Total("OPEN", toMe),
         Total("CONFIRM", left) <= Total("CONFIRM", toMe),
         LinkedAt(e, c, p, toMe, toPeer)
  PROVE  LinkedAt(e, c, p, left, toPeer)
<1>1. \A x : /\ Total(x, left) \in Nat /\ Total(x, toMe) \in Nat
             /\ Total(x, toPeer) \in Nat
             /\ Total(x, c.write_q) \in Nat /\ Total(x, p.write_q) \in Nat
  BY ConnNumbers, TotalNat
<1> DEFINE A == Total("OPEN", left)
           B == Total("OPEN", toMe)
           C == Total("CONFIRM", left)
           D == Total("CONFIRM", toMe)
           E == Total("OPEN", p.write_q)
           F == Total("CONFIRM", p.write_q)
<1>2. /\ A \in Nat /\ B \in Nat /\ C \in Nat /\ D \in Nat /\ E \in Nat /\ F \in Nat
      /\ A <= B /\ C <= D
  BY <1>1
<1>3. CASE e = "client"
  <2>1. OpenedOnce(c, p, toMe, toPeer)
        /\ Flow("client", c, p, toPeer, toMe)
        /\ Flow("server", p, c, toMe, toPeer)
    BY <1>3 DEF LinkedAt, Linked
  <2>2. OpenedOnce(c, p, left, toPeer)
    <3>1. /\ D + F <= 1
          /\ D + F = 1 => ~c.open_confirmed
          /\ ~p.open_confirmed => D + F = 0 /\ ~c.open_confirmed
          /\ B = 0
      BY <2>1 DEF OpenedOnce
    <3> HIDE DEF A, B, C, D, E, F
    <3>2. /\ C + F <= 1
          /\ C + F = 1 => ~c.open_confirmed
          /\ ~p.open_confirmed => C + F = 0 /\ ~c.open_confirmed
          /\ A = 0
      BY <1>2, <3>1
    <3> QED
      BY <2>1, <3>2 DEF OpenedOnce, A, C, F
  <2>3. Flow("client", c, p, toPeer, left) /\ Flow("server", p, c, left, toPeer)
    BY <2>1 DEF Flow
  <2> QED
    BY <1>3, <2>2, <2>3 DEF LinkedAt, Linked
<1>4. CASE e = "server"
  <2>1. OpenedOnce(p, c, toPeer, toMe)
        /\ Flow("server", c, p, toPeer, toMe)
        /\ Flow("client", p, c, toMe, toPeer)
    BY <1>4 DEF LinkedAt, Linked
  <2>2. OpenedOnce(p, c, toPeer, left)
    <3>1. /\ B + E <= 1
          /\ B + E = 1 => c.slot = "none"
          /\ p.slot = "none" => B + E = 0 /\ c.slot = "none"
          /\ D = 0
      BY <2>1 DEF OpenedOnce
    <3> HIDE DEF A, B, C, D, E, F
    <3>2. /\ A + E <= 1
          /\ A + E = 1 => c.slot = "none"
          /\ p.slot = "none" => A + E = 0 /\ c.slot = "none"
          /\ C = 0
      BY <1>2, <3>1
    <3> QED
      BY <2>1, <3>2 DEF OpenedOnce, A, C, E
  <2>3. Flow("server", c, p, toPeer, left) /\ Flow("client", p, c, left, toPeer)
    BY <2>1 DEF Flow
  <2> QED
    BY <1>4, <2>2, <2>3 DEF LinkedAt, Linked
<1> QED
  BY <1>3, <1>4 DEF Ends

\* The invariants of one side are kept.
Keeps(c, d) ==
  /\ Local(d)
  /\ \A N \in Seq(Packet) : Gated(c, N) => Gated(d, N)

\* CHANNEL_OPEN reaches the server c: the client's window becomes its own.
LEMMA OpenLinks ==
  ASSUME NEW c, NEW p, Local(c), Local(p), c.slot = "none",
         NEW toPeer \in Seq(Packet), NEW toMe \in Seq(Packet),
         NEW left \in Seq(Packet),
         Total("credit", left) = Total("credit", toMe),
         Total("data", left) = Total("data", toMe),
         Total("OPEN", toMe) = 1 + Total("OPEN", left),
         Total("CONFIRM", left) = Total("CONFIRM", toMe),
         LinkedAt("server", c, p, toMe, toPeer)
  PROVE  LET d == OnChannelOpen(c, 0)
         IN Keeps(c, d) /\ LinkedAt("server", d, p, left, toPeer)
<1> DEFINE d == OnChannelOpen(c, 0)
<1>1. /\ c \in ConnType /\ c.send_window = 0 /\ c.recv_window = 0
      /\ c.in_q = << >> /\ c.pending_out = << >> /\ ~c.open_confirmed
      /\ c.write_q \in Seq(Packet)
  BY ConnNumbers DEF Local, Fresh
<1>2. Window \in Nat /\ 0 \in Remote
  BY ChannelAssumptions DEF Remote
<1>3. /\ d \in ConnType
      /\ d.write_q = c.write_q
      /\ d.kex_blocks_app = c.kex_blocks_app /\ d.sent_newkeys = c.sent_newkeys
      /\ d.send_window = Window /\ d.recv_window = Window
      /\ d.in_q = c.in_q /\ d.pending_out = c.pending_out
      /\ d.open_confirmed = c.open_confirmed /\ d.slot = "live"
  BY <1>1, <1>2 DEF ConnType, OnChannelOpen, NewChannel
<1> HIDE DEF d
<1>4. Local(d)
  <2>1. InBytes(d) = 0
    BY <1>1, <1>3, FlattenEmpty DEF InBytes
  <2>2. PendBytes(d) = PendBytes(c)
    BY <1>3 DEF PendBytes
  <2>3. d.recv_window + InBytes(d) <= Window
    BY <1>2, <1>3, <2>1
  <2> QED
    BY <1>3, <2>2, <2>3 DEF Local, Bounded, Fresh
<1>5. Keeps(c, d)
  BY <1>3, <1>4 DEF Keeps, Gated
<1>6. /\ OpenedOnce(p, c, toPeer, toMe)
      /\ Flow("server", c, p, toPeer, toMe)
      /\ Flow("client", p, c, toMe, toPeer)
  BY DEF LinkedAt, Linked
<1>7. OpenedOnce(p, d, toPeer, left)
  <2> DEFINE A == Total("OPEN", left)
             B == Total("OPEN", toMe)
             E == Total("OPEN", p.write_q)
  <2>1. A \in Nat /\ B \in Nat /\ E \in Nat /\ B = 1 + A
    BY ConnNumbers, TotalNat
  <2>2. B + E <= 1 /\ (p.slot = "none" => B + E = 0)
    BY <1>6 DEF OpenedOnce
  <2> HIDE DEF A, B, E
  <2>3. A + E = 0 /\ p.slot # "none"
    BY <2>1, <2>2
  <2>4. A + E <= 1 /\ A + E # 1
    BY <2>3
  <2> QED
    BY <1>3, <1>6, <2>3, <2>4 DEF OpenedOnce, A, E
<1>8. Flow("server", d, p, toPeer, left)
  <2>1. /\ Unopened("server", c) = Window /\ Unopened("server", d) = 0
        /\ c.send_window = 0 /\ d.send_window = Window
    BY <1>1, <1>3 DEF Unopened
  <2> DEFINE A == Total("data", c.write_q)
             B == Total("data", toPeer)
             C == Total("credit", toMe)
             D == Total("credit", p.write_q)
             w == Accepts(p)
  <2>2. A \in Nat /\ B \in Nat /\ C \in Nat /\ D \in Nat /\ w \in Nat
    BY <1>2, ConnNumbers, TotalNat DEF Accepts
  <2>3. 0 + A + B + C + D + Window <= w
    BY <1>6, <2>1 DEF Flow
  <2> HIDE DEF A, B, C, D, w
  <2>4. Window + A + B + C + D + 0 <= w
    BY <1>2, <2>2, <2>3
  <2> QED
    BY <1>3, <2>1, <2>4 DEF Flow, A, B, C, D, w
<1>9. Flow("client", p, d, left, toPeer)
  BY <1>3, <1>6 DEF Flow, Accepts
<1> QED
  BY <1>5, <1>7, <1>8, <1>9 DEF LinkedAt, Linked, d

\* OPEN_CONFIRMATION reaches the client c: the server's window becomes its
\* own, and what waited is sent.
LEMMA ConfirmLinks ==
  ASSUME NEW c, NEW p, Local(c), Local(p), c.slot = "live",
         NEW toPeer \in Seq(Packet), NEW toMe \in Seq(Packet),
         NEW left \in Seq(Packet),
         Total("credit", left) = Total("credit", toMe),
         Total("data", left) = Total("data", toMe),
         Total("CONFIRM", toMe) = 1 + Total("CONFIRM", left),
         Total("OPEN", left) = Total("OPEN", toMe),
         LinkedAt("client", c, p, toMe, toPeer)
  PROVE  LET d == OnOpenConfirm(c, 0)
         IN Keeps(c, d) /\ LinkedAt("client", d, p, left, toPeer)
<1> DEFINE b == [c EXCEPT !.remote_id = 0, !.send_window = Window,
                          !.open_confirmed = TRUE]
<1>1. /\ c \in ConnType /\ c.send_window \in Nat
      /\ c.write_q \in Seq(Packet)
  BY ConnNumbers
<1>2. Window \in Nat /\ 0 \in Remote
  BY ChannelAssumptions DEF Remote
<1>3. /\ b \in ConnType
      /\ b.write_q = c.write_q
      /\ b.kex_blocks_app = c.kex_blocks_app /\ b.sent_newkeys = c.sent_newkeys
      /\ b.send_window = Window /\ b.recv_window = c.recv_window
      /\ b.in_q = c.in_q /\ b.pending_out = c.pending_out
      /\ b.open_confirmed = TRUE /\ b.slot = c.slot
  BY <1>1, <1>2 DEF ConnType
<1>4. OnOpenConfirm(c, 0) = FlushPending(b)
  BY DEF OnOpenConfirm
<1> HIDE DEF b
<1>5. Local(b)
  BY <1>3 DEF Local, Bounded, Fresh, InBytes, PendBytes
<1>6. Keeps(c, b)
  BY <1>3, <1>5 DEF Keeps, Gated
<1>7. /\ OpenedOnce(c, p, toMe, toPeer)
      /\ Flow("client", c, p, toPeer, toMe)
      /\ Flow("server", p, c, toMe, toPeer)
  BY DEF LinkedAt, Linked
<1> DEFINE A == Total("CONFIRM", left)
           B == Total("CONFIRM", toMe)
           E == Total("CONFIRM", p.write_q)
<1>8. /\ A + E = 0 /\ A + E # 1 /\ A + E <= 1
      /\ ~c.open_confirmed /\ p.open_confirmed
  <2>1. A \in Nat /\ B \in Nat /\ E \in Nat /\ B = 1 + A
    BY ConnNumbers, TotalNat
  <2>2. /\ B + E <= 1 /\ (B + E = 1 => ~c.open_confirmed)
        /\ ~p.open_confirmed => B + E = 0
    BY <1>7 DEF OpenedOnce
  <2> HIDE DEF A, B, E
  <2>3. A + E = 0 /\ B + E = 1
    BY <2>1, <2>2
  <2> QED
    BY <2>2, <2>3
<1>9. OpenedOnce(b, p, left, toPeer)
  <2> HIDE DEF A, B, E
  <2> QED
    BY <1>3, <1>7, <1>8 DEF OpenedOnce, A, B, E
<1>10. Flow("client", b, p, toPeer, left)
  <2>1. /\ Unopened("client", c) = Window /\ Unopened("client", b) = 0
        /\ b.send_window = Window
    BY <1>3, <1>8 DEF Unopened
  <2> DEFINE F == Total("data", c.write_q)
             G == Total("data", toPeer)
             H == Total("credit", toMe)
             I == Total("credit", p.write_q)
             w == Accepts(p)
  <2>2. F \in Nat /\ G \in Nat /\ H \in Nat /\ I \in Nat /\ w \in Nat
    BY <1>2, ConnNumbers, TotalNat DEF Accepts
  <2>3. c.send_window + F + G + H + I + Window <= w
    BY <1>7, <2>1 DEF Flow
  <2> HIDE DEF F, G, H, I, w
  <2>4. Window + F + G + H + I + 0 <= w
    BY <1>1, <1>2, <2>2, <2>3
  <2> QED
    BY <1>3, <2>1, <2>4 DEF Flow, F, G, H, I, w
<1>11. Flow("server", p, b, left, toPeer)
  BY <1>3, <1>7 DEF Flow, Accepts
<1>12. LinkedAt("client", b, p, left, toPeer)
  BY <1>9, <1>10, <1>11 DEF LinkedAt, Linked
<1> DEFINE d == FlushPending(b)
<1>13. Harmless(b, d)
  BY <1>5, FlushPendingHarmless
<1> HIDE DEF d
<1>14. Keeps(c, d)
  BY <1>6, <1>13 DEF Keeps, Harmless, Changes
<1>15. LinkedAt("client", d, p, left, toPeer)
  BY <1>5, <1>12, <1>13, LinkedHarmless DEF Ends
<1> QED
  BY <1>4, <1>14, <1>15 DEF d

\* One packet from the peer.
LEMMA HandleLinks ==
  ASSUME NEW e \in Ends, NEW c, NEW p, Local(c), Local(p),
         NEW toPeer \in Seq(Packet), NEW toMe \in Seq(Packet),
         NEW left \in Seq(Packet), NEW m \in Packet,
         \A x : Total(x, toMe) = Weight(x, m) + Total(x, left),
         LinkedAt(e, c, p, toMe, toPeer)
  PROVE  LET d == HandlePayload(e, c, m)
         IN Keeps(c, d) /\ LinkedAt(e, d, p, left, toPeer)
<1> DEFINE d == HandlePayload(e, c, m)
<1>1. \A x : /\ Total(x, left) \in Nat /\ Total(x, toMe) \in Nat
             /\ Weight(x, m) \in Nat
  BY TotalNat, WeightNat
<1>2. CASE m.t \notin {"OPEN", "CONFIRM"}
  <2>1. Changes(c, d, Weight("credit", m), Weight("data", m))
    BY <1>2, HandleChanges
  <2> HIDE DEF d
  <2>2. Weight("OPEN", m) = 0 /\ Weight("CONFIRM", m) = 0
    BY <1>2 DEF Weight
  <2>3. /\ Total("OPEN", left) = Total("OPEN", toMe)
        /\ Total("CONFIRM", left) = Total("CONFIRM", toMe)
    BY <1>1, <2>2
  <2>4. LinkedAt(e, d, p, left, toPeer)
    BY <1>1, <2>1, <2>3, LinkedChanges
  <2>5. Keeps(c, d)
    BY <2>1 DEF Keeps, Changes
  <2> QED
    BY <2>4, <2>5 DEF d
<1>3. CASE m.t \in {"OPEN", "CONFIRM"}
  <2>1. /\ Weight("credit", m) = 0 /\ Weight("data", m) = 0
        /\ Weight("OPEN", m) = (IF m.t = "OPEN" THEN 1 ELSE 0)
        /\ Weight("CONFIRM", m) = (IF m.t = "CONFIRM" THEN 1 ELSE 0)
        /\ m.from = 0
    BY <1>3, PacketFields DEF Weight
  <2>2. /\ Total("credit", left) = Total("credit", toMe)
        /\ Total("data", left) = Total("data", toMe)
    BY <1>1, <2>1
  <2>3. /\ Total("OPEN", left) <= Total("OPEN", toMe)
        /\ Total("CONFIRM", left) <= Total("CONFIRM", toMe)
    BY <1>1
  <2>4. LinkedAt(e, c, p, left, toPeer)
    BY <2>2, <2>3, LinkedLoses
  <2>5. ASSUME Harmless(c, d)
        PROVE  Keeps(c, d) /\ LinkedAt(e, d, p, left, toPeer)
    <3> HIDE DEF d
    <3> QED
      BY <2>4, <2>5, LinkedHarmless DEF Keeps, Harmless, Changes
  <2>6. CASE c.error
    <3>1. d = c
      BY <2>6 DEF HandlePayload
    <3> QED
      BY <2>5, <3>1, HarmlessSelf
  <2>7. CASE ~c.error /\ m.t = "OPEN"
    <3>1. Total("OPEN", toMe) = 1 + Total("OPEN", left)
          /\ Total("CONFIRM", left) = Total("CONFIRM", toMe)
      BY <1>1, <2>1, <2>7
    <3>2. Total("OPEN", toMe) # 0
      BY <1>1, <3>1
    <3>3. e = "server"
      BY <3>2 DEF Ends, LinkedAt, Linked, OpenedOnce
    <3>4. c.slot = "none"
      <4> DEFINE A == Total("OPEN", toMe)
                 B == Total("OPEN", p.write_q)
      <4>1. /\ A + B <= 1 /\ (A + B = 1 => c.slot = "none")
        BY <3>3 DEF LinkedAt, Linked, OpenedOnce
      <4>2. A \in Nat /\ A # 0 /\ B \in Nat
        BY <1>1, <3>2, ConnNumbers
      <4> HIDE DEF A, B
      <4> QED
        BY <4>1, <4>2
    <3>5. d = OnChannelOpen(c, 0)
      BY <2>1, <2>7 DEF HandlePayload
    <3> HIDE DEF d
    <3>6. Keeps(c, d) /\ LinkedAt(e, d, p, left, toPeer)
      BY <2>2, <3>1, <3>3, <3>4, <3>5, OpenLinks
    <3> QED
      BY <3>6 DEF d
  <2>8. CASE ~c.error /\ m.t = "CONFIRM"
    <3>1. Total("CONFIRM", toMe) = 1 + Total("CONFIRM", left)
          /\ Total("OPEN", left) = Total("OPEN", toMe)
      BY <1>1, <2>1, <2>8
    <3>2. Total("CONFIRM", toMe) # 0
      BY <1>1, <3>1
    <3>3. e = "client"
      BY <3>2 DEF Ends, LinkedAt, Linked, OpenedOnce
    <3>4. d = OnOpenConfirm(c, 0)
      BY <2>1, <2>8 DEF HandlePayload
    <3>5. CASE c.slot = "live"
      <4> HIDE DEF d
      <4>1. Keeps(c, d) /\ LinkedAt(e, d, p, left, toPeer)
        BY <2>2, <3>1, <3>3, <3>4, <3>5, ConfirmLinks
      <4> QED
        BY <4>1 DEF d
    <3>6. CASE c.slot # "live"
      <4>1. d = Fail(c)
        BY <3>4, <3>6 DEF OnOpenConfirm
      <4> QED
        BY <2>5, <4>1, FailHarmless
    <3> QED
      BY <3>5, <3>6
  <2> QED
    BY <1>3, <2>6, <2>7, <2>8
<1> QED
  BY <1>2, <1>3

HF == INSTANCE FoldLemmas WITH Op <- HandlePayload

\* process_in hands one packet after the other to handle_payload.
LEMMA ProcessInFold ==
  \A e, c, q : FoldLeft(LAMBDA a, m : HandlePayload(e, a, m), c, q)
                 = HF!Fold(e, c, q)
  BY DEF HF!Fold, HF!IsFold, HF!Largest, FoldLeft, MapThenFoldSet, Max

\* What is left of a queue after i - 1 packets begins with packet i.
LEMMA NextOf ==
  ASSUME NEW q \in Seq(Packet), NEW i \in 1 .. Len(q)
  PROVE  LET r == SubSeq(q, (i - 1) + 1, Len(q))
         IN r # << >> /\ Head(r) = q[i] /\ Tail(r) = SubSeq(q, i + 1, Len(q))
<1> DEFINE n == Len(q)
           r == SubSeq(q, (i - 1) + 1, n)
           s == SubSeq(q, i + 1, n)
           v == Tail(r)
<1>1. n \in Nat /\ i \in 1 .. n /\ (i - 1) + 1 = i
  OBVIOUS
<1>2. /\ r \in Seq(Packet) /\ Len(r) = n - i + 1
      /\ \A j \in 1 .. n - i + 1 : r[j] = q[j + i - 1]
  BY <1>1
<1>3. /\ s \in Seq(Packet) /\ Len(s) = n - i
      /\ \A j \in 1 .. n - i : s[j] = q[j + i]
  BY <1>1
<1> HIDE DEF r, s, n
<1>4. r # << >> /\ Head(r) = q[i]
  BY <1>1, <1>2
<1>5. /\ v \in Seq(Packet) /\ Len(v) = n - i
      /\ \A j \in 1 .. n - i : v[j] = q[j + i]
  BY SMTT(30), <1>1, <1>2, <1>4
<1> HIDE DEF v
<1>6. v = s
  <2>1. \A j \in 1 .. Len(v) : v[j] = s[j]
    BY <1>3, <1>5
  <2> QED
    BY <1>3, <1>5, <2>1, SeqEqual
<1> QED
  BY <1>4, <1>6 DEF r, s, v, n

\* All the packets a read completes.
LEMMA BatchLinks ==
  ASSUME NEW e \in Ends, NEW c, NEW p, Local(c), Local(p),
         NEW toPeer \in Seq(Packet), NEW toMe \in Seq(Packet),
         NEW k \in 0 .. Len(toMe), LinkedAt(e, c, p, toMe, toPeer)
  PROVE  LET d == HF!Fold(e, c, SubSeq(toMe, 1, k))
         IN /\ Keeps(c, d)
            /\ LinkedAt(e, d, p, SubSeq(toMe, k + 1, Len(toMe)), toPeer)
<1> DEFINE q == SubSeq(toMe, 1, k)
           R(i) == SubSeq(toMe, i + 1, Len(toMe))
<1>1. /\ k \in Nat /\ Len(toMe) \in Nat /\ DOMAIN q = 1 .. k
      /\ \A i \in 1 .. k : q[i] = toMe[i]
  OBVIOUS
<1>2. R(0) = toMe
  BY <1>1
<1>3. ASSUME NEW i \in 1 .. k
      PROVE  /\ R(i - 1) \in Seq(Packet) /\ R(i) \in Seq(Packet)
             /\ toMe[i] \in Packet
             /\ \A x : Total(x, R(i - 1)) = Weight(x, toMe[i]) + Total(x, R(i))
  <2>1. R(i - 1) \in Seq(Packet) /\ R(i) \in Seq(Packet) /\ toMe[i] \in Packet
    BY <1>1
  <2>2. R(i - 1) # << >> /\ Head(R(i - 1)) = toMe[i] /\ Tail(R(i - 1)) = R(i)
    BY <1>1, NextOf
  <2> HIDE DEF R
  <2> QED
    BY <2>1, <2>2, TotalHeadTail
<1> HIDE DEF q, R
<1>4. PICK g : HF!IsChain(g, e, c, q, k) /\ HF!Fold(e, c, q) = g[k]
  BY <1>1, HF!FoldChain
<1>5. g[0] = c /\ \A i \in 1 .. k : g[i] = HandlePayload(e, g[i - 1], toMe[i])
  BY <1>1, <1>4 DEF HF!IsChain
<1> DEFINE T == {i \in 0 .. k : /\ Keeps(c, g[i])
                                /\ LinkedAt(e, g[i], p, R(i), toPeer)}
<1>6. 0 \in T
  BY <1>1, <1>2, <1>5 DEF Keeps
<1>7. ASSUME NEW i \in 1 .. k, i - 1 \in T PROVE i \in T
  <2>1. Keeps(c, g[i - 1]) /\ LinkedAt(e, g[i - 1], p, R(i - 1), toPeer)
    BY <1>7
  <2>2. Local(g[i - 1])
    BY <2>1 DEF Keeps
  <2>3. Keeps(g[i - 1], g[i]) /\ LinkedAt(e, g[i], p, R(i), toPeer)
    <3> DEFINE a == g[i - 1]
               h == R(i - 1)
               l == R(i)
               m == toMe[i]
    <3>1. /\ h \in Seq(Packet) /\ l \in Seq(Packet) /\ m \in Packet
          /\ \A x : Total(x, h) = Weight(x, m) + Total(x, l)
      BY <1>3
    <3>2. Local(a) /\ LinkedAt(e, a, p, h, toPeer) /\ g[i] = HandlePayload(e, a, m)
      BY <1>5, <2>1, <2>2
    <3> HIDE DEF a, h, l, m
    <3>3. Keeps(a, g[i]) /\ LinkedAt(e, g[i], p, l, toPeer)
      BY <3>1, <3>2, HandleLinks
    <3> QED
      BY <3>3 DEF a, l
  <2>4. Keeps(c, g[i])
    BY <2>1, <2>3 DEF Keeps
  <2> QED
    BY <1>1, <2>3, <2>4
<1> HIDE DEF T
<1>8. k \in T
  BY <1>1, <1>6, <1>7, IntervalInduction
<1> QED
  BY <1>4, <1>8 DEF T, q, R

-----------------------------------------------------------------------------
(* The invariant is inductive.                                             *)

\* The two ends.
LEMMA PeerFacts ==
  /\ \A e \in Ends : Peer(e) \in Ends /\ Peer(e) # e /\ Peer(Peer(e)) = e
  /\ \A e, f \in Ends : f # e => f = Peer(e)
  /\ \A e \in Ends : e = "client" \/ e = "server"
  /\ Peer("client") = "server" /\ Peer("server") = "client"
  BY DEF Ends, Peer

\* The invariant of the link, seen from one side.
LEMMA LinkInvAt ==
  ASSUME NEW e \in Ends, LinkInv
  PROVE  /\ Local(conn[e]) /\ Local(conn[Peer(e)])
         /\ conn[e] \in ConnType /\ conn[Peer(e)] \in ConnType
         /\ net[e] \in Seq(Packet) /\ net[Peer(e)] \in Seq(Packet)
         /\ Gated(conn[e], net[Peer(e)]) /\ Gated(conn[Peer(e)], net[e])
         /\ LinkedAt(e, conn[e], conn[Peer(e)], net[e], net[Peer(e)])
<1>1. Peer(e) \in Ends /\ Peer(Peer(e)) = e
  BY PeerFacts
<1>2. LinkedAt(e, conn[e], conn[Peer(e)], net[e], net[Peer(e)])
  <2>1. CASE e = "client"
    BY <2>1, PeerFacts DEF LinkInv, LinkedAt
  <2>2. CASE e = "server"
    BY <2>2, PeerFacts DEF LinkInv, LinkedAt
  <2> QED
    BY <2>1, <2>2, PeerFacts
<1> QED
  BY <1>1, <1>2 DEF LinkInv

\* A step of side e that takes k packets from the way to it and sends none
\* on the way to its peer.
LEMMA SideStep ==
  ASSUME NEW e \in Ends, LinkInv, NEW d, NEW k \in 0 .. Len(net[e]),
         Keeps(conn[e], d),
         LinkedAt(e, d, conn[Peer(e)], SubSeq(net[e], k + 1, Len(net[e])),
                  net[Peer(e)]),
         conn' = [conn EXCEPT ![e] = d],
         net' = [net EXCEPT ![e] = SubSeq(net[e], k + 1, Len(net[e]))]
  PROVE  LinkInv'
<1> DEFINE p == Peer(e)
           N == SubSeq(net[e], k + 1, Len(net[e]))
<1>1. /\ p \in Ends /\ p # e /\ Peer(p) = e
      /\ \A f \in Ends : f = e \/ f = p
  BY PeerFacts
<1>2. /\ Local(conn[e]) /\ Local(conn[p])
      /\ conn[e] \in ConnType /\ conn[p] \in ConnType
      /\ net[e] \in Seq(Packet) /\ net[p] \in Seq(Packet)
      /\ Gated(conn[e], net[p]) /\ Gated(conn[p], net[e])
  BY LinkInvAt
<1>3. Local(d) /\ d \in ConnType /\ Gated(d, net[p])
  BY <1>2 DEF Keeps, Local
<1>4. N \in Seq(Packet) /\ Gated(conn[p], N)
  <2> DEFINE w == conn[p].write_q
             a == net[e] \o w
  <2>1. w \in Seq(Packet)
    BY <1>2 DEF ConnType
  <2>2. a \in Seq(Packet) /\ k \in 0 .. Len(a)
    <3>1. a \in Seq(Packet) /\ Len(a) = Len(net[e]) + Len(w)
          /\ Len(net[e]) \in Nat /\ Len(w) \in Nat
      BY <1>2, <2>1, ConcatElements
    <3> HIDE DEF a, w
    <3> QED
      BY <3>1
  <2>3. N \in Seq(Packet) /\ SubSeq(a, k + 1, Len(a)) = N \o w
    BY <1>2, <2>1, ConcatCut
  <2> HIDE DEF N, a
  <2>4. /\ QuietIn(a) => QuietIn(N \o w)
        /\ ShutIn(a) => ShutIn(N \o w)
    BY <2>2, <2>3, GateCut
  <2> QED
    BY <1>2, <2>3, <2>4 DEF Gated, a
<1> HIDE DEF N
<1>5. net' = [net EXCEPT ![e] = N]
  BY DEF N
<1> HIDE DEF p
<1>6. /\ conn'[e] = d /\ conn'[p] = conn[p] /\ conn' \in [Ends -> ConnType]
      /\ net'[e] = N /\ net'[p] = net[p] /\ net' \in [Ends -> Seq(Packet)]
  BY <1>1, <1>3, <1>4, <1>5 DEF LinkInv
<1>7. \A f \in Ends : Local(conn'[f]) /\ Gated(conn'[f], net'[Peer(f)])
  BY <1>1, <1>2, <1>3, <1>4, <1>6 DEF p
<1>8. LinkedAt(e, d, conn[p], N, net[p])
  BY DEF p, N
<1>9. Linked(conn'["client"], conn'["server"], net'["client"], net'["server"])
  <2>1. CASE e = "client"
    BY <1>6, <1>8, <2>1, PeerFacts DEF LinkedAt, p
  <2>2. CASE e = "server"
    BY <1>6, <1>8, <2>2, PeerFacts DEF LinkedAt, p
  <2> QED
    BY <2>1, <2>2, PeerFacts
<1> QED
  BY <1>6, <1>7, <1>9 DEF LinkInv

\* A call of side e's application.
LEMMA CallStep ==
  ASSUME NEW e \in Ends, LinkInv, NEW d, Keeps(conn[e], d),
         LinkedAt(e, d, conn[Peer(e)], net[e], net[Peer(e)]),
         conn' = [conn EXCEPT ![e] = d], net' = net
  PROVE  LinkInv'
<1>1. net[e] \in Seq(Packet) /\ net \in [Ends -> Seq(Packet)]
  BY DEF LinkInv
<1>2. 0 \in 0 .. Len(net[e]) /\ SubSeq(net[e], 0 + 1, Len(net[e])) = net[e]
  BY <1>1
<1>3. net' = [net EXCEPT ![e] = SubSeq(net[e], 0 + 1, Len(net[e]))]
  BY <1>1, <1>2
<1> QED
  BY <1>2, <1>3, SideStep

\* A step in which one side makes a harmless call keeps the invariant.
LEMMA HarmlessCall ==
  ASSUME NEW e \in Ends, LinkInv, NEW d, Harmless(conn[e], d),
         conn' = [conn EXCEPT ![e] = d], net' = net
  PROVE  LinkInv'
<1>1. LinkedAt(e, d, conn[Peer(e)], net[e], net[Peer(e)])
  BY LinkInvAt, LinkedHarmless
<1>2. Keeps(conn[e], d)
  BY DEF Keeps, Harmless, Changes
<1> QED
  BY <1>1, <1>2, CallStep

\* The first packet of c's write queue moves onto the way to the peer.
LEMMA WriteLinks ==
  ASSUME NEW e \in Ends, NEW c, NEW p, Local(c), Local(p),
         NEW toPeer \in Seq(Packet), NEW toMe \in Seq(Packet),
         c.write_q # << >>, Gated(c, toPeer), LinkedAt(e, c, p, toMe, toPeer)
  PROVE  LET d == [c EXCEPT !.write_q = Tail(c.write_q)]
             N == Append(toPeer, Head(c.write_q))
         IN /\ Local(d) /\ N \in Seq(Packet) /\ Gated(d, N)
            /\ LinkedAt(e, d, p, toMe, N)
<1> DEFINE m == Head(c.write_q)
           v == Tail(c.write_q)
           d == [c EXCEPT !.write_q = v]
           N == Append(toPeer, m)
<1>1. c \in ConnType /\ c.write_q \in Seq(Packet)
  BY ConnNumbers
<1>2. m \in Packet /\ v \in Seq(Packet) /\ c.write_q = <<m>> \o v
  BY <1>1
<1>3. \A x : Total(x, c.write_q) = Weight(x, m) + Total(x, v)
  BY <1>1, TotalHeadTail
<1>4. N \in Seq(Packet) /\ N \o v = toPeer \o c.write_q
  <2>1. toPeer \in Seq(Packet)
    OBVIOUS
  <2> HIDE DEF m, v
  <2>2. N \in Seq(Packet) /\ N \o v = toPeer \o (<<m>> \o v)
    BY ONLY <1>2, <2>1
  <2> QED
    BY <1>2, <2>2
<1>5. \A x : Total(x, N) = Total(x, toPeer) + Weight(x, m)
  BY <1>2, TotalStep
<1> HIDE DEF m, v, N
<1>6. /\ d \in ConnType
      /\ d.write_q = v
      /\ d.kex_blocks_app = c.kex_blocks_app /\ d.sent_newkeys = c.sent_newkeys
      /\ d.send_window = c.send_window /\ d.recv_window = c.recv_window
      /\ d.in_q = c.in_q /\ d.pending_out = c.pending_out
      /\ d.open_confirmed = c.open_confirmed /\ d.slot = c.slot
  BY <1>1, <1>2 DEF ConnType
<1> HIDE DEF d
<1>7. \A x : /\ Total(x, c.write_q) \in Nat /\ Total(x, v) \in Nat
             /\ Weight(x, m) \in Nat /\ Total(x, N) \in Nat
             /\ Total(x, toPeer) \in Nat /\ Total(x, toMe) \in Nat
             /\ Total(x, p.write_q) \in Nat
  BY <1>1, <1>2, <1>4, ConnNumbers, TotalNat, WeightNat
<1>8. Local(d)
  <2>1. Total("data", c.write_q) < WriteSoft + MaxPacket
    BY DEF Local, Bounded
  <2> DEFINE A == Total("data", c.write_q)
             B == Total("data", v)
             C == Weight("data", m)
  <2>2. A \in Nat /\ B \in Nat /\ C \in Nat /\ A = C + B
    BY <1>3, <1>7
  <2>3. WriteSoft \in Nat /\ MaxPacket \in Nat
    BY ChannelAssumptions
  <2> HIDE DEF A, B, C
  <2>4. B < WriteSoft + MaxPacket
    BY <2>1, <2>2, <2>3 DEF A
  <2> QED
    BY <1>6, <2>4 DEF Local, Bounded, Fresh, InBytes, PendBytes, B
<1>9. Gated(d, N)
  BY <1>4, <1>6 DEF Gated
<1>10. \A x : /\ Total(x, N) + Total(x, v) = Total(x, toPeer) + Total(x, c.write_q)
              /\ Total(x, toPeer) = 0 /\ Total(x, c.write_q) = 0
                   => Total(x, N) = 0 /\ Total(x, v) = 0
  <2> SUFFICES ASSUME NEW x
               PROVE  /\ Total(x, N) + Total(x, v)
                           = Total(x, toPeer) + Total(x, c.write_q)
                      /\ Total(x, toPeer) = 0 /\ Total(x, c.write_q) = 0
                           => Total(x, N) = 0 /\ Total(x, v) = 0
    OBVIOUS
  <2> DEFINE A == Total(x, c.write_q)
             B == Total(x, v)
             C == Weight(x, m)
             D == Total(x, N)
             E == Total(x, toPeer)
  <2>1. /\ A \in Nat /\ B \in Nat /\ C \in Nat /\ D \in Nat /\ E \in Nat
        /\ A = C + B /\ D = E + C
    BY <1>3, <1>5, <1>7
  <2> HIDE DEF A, B, C, D, E
  <2>2. D + B = E + A /\ (E = 0 /\ A = 0 => D = 0 /\ B = 0)
    BY <2>1
  <2> QED
    BY <2>2 DEF A, B, D, E
<1>11. ASSUME NEW f, Flow(f, c, p, toPeer, toMe) PROVE Flow(f, d, p, N, toMe)
  <2> DEFINE A == Total("data", c.write_q)
             B == Total("data", v)
             C == Total("data", N)
             D == Total("data", toPeer)
             E == Total("credit", toMe)
             F == Total("credit", p.write_q)
             G == Unopened(f, c)
             w == Accepts(p)
  <2>1. /\ A \in Nat /\ B \in Nat /\ C \in Nat /\ D \in Nat /\ E \in Nat /\ F \in Nat
        /\ c.send_window \in Nat /\ C + B = D + A
    BY <1>7, <1>10, ConnNumbers
  <2>2. G \in Nat /\ w \in Nat
    BY ChannelAssumptions, ConnNumbers DEF Unopened, Accepts
  <2>3. c.send_window + A + D + E + F + G <= w
    BY <1>11 DEF Flow
  <2> HIDE DEF A, B, C, D, E, F, G, w
  <2>4. c.send_window + B + C + E + F + G <= w
    <3> DEFINE z == c.send_window
    <3>1. z \in Nat /\ z + A + D + E + F + G <= w
      BY <2>1, <2>3
    <3> HIDE DEF z
    <3>2. z + B + C + E + F + G <= w
      BY ONLY <2>1, <2>2, <3>1
    <3> QED
      BY <3>2 DEF z
  <2>5. Unopened(f, d) = G
    BY <1>6 DEF Unopened, G
  <2> QED
    BY <1>6, <2>4, <2>5 DEF Flow, B, C, E, F, w
<1>12. ASSUME NEW f, Flow(f, p, c, toMe, toPeer) PROVE Flow(f, p, d, toMe, N)
  <2> DEFINE A == Total("credit", c.write_q)
             B == Total("credit", v)
             C == Total("credit", N)
             D == Total("credit", toPeer)
             E == Total("data", toMe)
             F == Total("data", p.write_q)
             G == Unopened(f, p)
             w == Accepts(c)
  <2>1. /\ A \in Nat /\ B \in Nat /\ C \in Nat /\ D \in Nat /\ E \in Nat /\ F \in Nat
        /\ p.send_window \in Nat /\ C + B = D + A
    BY <1>7, <1>10, ConnNumbers
  <2>2. G \in Nat /\ w \in Nat
    BY ChannelAssumptions, ConnNumbers DEF Unopened, Accepts
  <2>3. p.send_window + F + E + D + A + G <= w
    BY <1>12 DEF Flow
  <2> HIDE DEF A, B, C, D, E, F, G, w
  <2>4. p.send_window + F + E + C + B + G <= w
    <3> DEFINE z == p.send_window
    <3>1. z \in Nat /\ z + F + E + D + A + G <= w
      BY <2>1, <2>3
    <3> HIDE DEF z
    <3>2. z + F + E + C + B + G <= w
      BY ONLY <2>1, <2>2, <3>1
    <3> QED
      BY <3>2 DEF z
  <2>5. Accepts(d) = w
    BY <1>6 DEF Accepts, w
  <2> QED
    BY <1>6, <2>4, <2>5 DEF Flow, B, C, E, F, G
<1>13. LinkedAt(e, d, p, toMe, N)
  <2>1. CASE e = "client"
    <3>1. OpenedOnce(c, p, toMe, toPeer)
          /\ Flow("client", c, p, toPeer, toMe)
          /\ Flow("server", p, c, toMe, toPeer)
      BY <2>1 DEF LinkedAt, Linked
    <3>2. OpenedOnce(d, p, toMe, N)
      BY <1>6, <1>10, <3>1 DEF OpenedOnce
    <3> QED
      BY <1>11, <1>12, <2>1, <3>1, <3>2 DEF LinkedAt, Linked
  <2>2. CASE e = "server"
    <3>1. OpenedOnce(p, c, toPeer, toMe)
          /\ Flow("server", c, p, toPeer, toMe)
          /\ Flow("client", p, c, toMe, toPeer)
      BY <2>2 DEF LinkedAt, Linked
    <3>2. OpenedOnce(p, d, N, toMe)
      BY <1>6, <1>10, <3>1 DEF OpenedOnce
    <3> QED
      BY <1>11, <1>12, <2>2, <3>1, <3>2 DEF LinkedAt, Linked
  <2> QED
    BY <2>1, <2>2 DEF Ends
<1> QED
  BY <1>4, <1>8, <1>9, <1>13 DEF d, N, m, v

\* A packet that moves from the write queue to the network changes no total.
LEMMA WriteStep ==
  ASSUME NEW e \in Ends, LinkInv, Write(e)
  PROVE  LinkInv'
<1> DEFINE p == Peer(e)
           m == Head(conn[e].write_q)
           d == [conn[e] EXCEPT !.write_q = Tail(conn[e].write_q)]
           N == Append(net[p], m)
<1>1. /\ p \in Ends /\ p # e /\ Peer(p) = e
      /\ \A f \in Ends : f = e \/ f = p
  BY PeerFacts
<1>2. /\ Local(conn[e]) /\ Local(conn[p])
      /\ conn[e] \in ConnType /\ conn[p] \in ConnType
      /\ net[e] \in Seq(Packet) /\ net[p] \in Seq(Packet)
      /\ Gated(conn[e], net[p]) /\ Gated(conn[p], net[e])
      /\ LinkedAt(e, conn[e], conn[p], net[e], net[p])
      /\ conn \in [Ends -> ConnType] /\ net \in [Ends -> Seq(Packet)]
  BY LinkInvAt DEF LinkInv
<1>3. conn[e].write_q # << >>
  BY DEF Write
<1>4. Local(d) /\ N \in Seq(Packet) /\ Gated(d, N) /\ LinkedAt(e, d, conn[p], net[e], N)
  BY <1>2, <1>3, WriteLinks
<1>5. conn' = [conn EXCEPT ![e] = d] /\ net' = [net EXCEPT ![p] = N]
  BY <1>1, <1>2 DEF Write
<1>6. d \in ConnType
  BY <1>4 DEF Local
<1> HIDE DEF d, N, p
<1>7. /\ conn'[e] = d /\ conn'[p] = conn[p] /\ conn' \in [Ends -> ConnType]
      /\ net'[p] = N /\ net'[e] = net[e] /\ net' \in [Ends -> Seq(Packet)]
  BY <1>1, <1>2, <1>4, <1>5, <1>6
<1>8. \A f \in Ends : Local(conn'[f]) /\ Gated(conn'[f], net'[Peer(f)])
  BY <1>1, <1>2, <1>4, <1>7 DEF p
<1>9. Linked(conn'["client"], conn'["server"], net'["client"], net'["server"])
  <2>1. CASE e = "client"
    BY <1>4, <1>7, <2>1, PeerFacts DEF LinkedAt, p
  <2>2. CASE e = "server"
    BY <1>4, <1>7, <2>2, PeerFacts DEF LinkedAt, p
  <2> QED
    BY <2>1, <2>2, PeerFacts
<1> QED
  BY <1>7, <1>8, <1>9 DEF LinkInv

\* open_direct_tcpip: the one CHANNEL_OPEN is queued.
LEMMA OpenCall ==
  ASSUME LinkInv, conn["client"].slot = "none"
  PROVE  LET c == conn["client"]
             d == Queue(NewChannel(c, None, 0), [t |-> "OPEN", from |-> 0])
         IN /\ Keeps(c, d)
            /\ LinkedAt("client", d, conn["server"], net["client"], net["server"])
<1> DEFINE c == conn["client"]
           p == conn["server"]
           toMe == net["client"]
           toPeer == net["server"]
           m == [t |-> "OPEN", from |-> 0]
           b == NewChannel(c, None, 0)
           d == Queue(b, m)
<1>1. /\ Local(c) /\ Local(p) /\ toMe \in Seq(Packet) /\ toPeer \in Seq(Packet)
      /\ LinkedAt("client", c, p, toMe, toPeer)
  BY LinkInvAt, PeerFacts DEF Ends
<1>2. c.slot = "none"
  OBVIOUS
<1> HIDE DEF c, p, toMe, toPeer
<1>3. /\ c \in ConnType /\ c.send_window = 0 /\ c.recv_window = 0
      /\ c.in_q = << >> /\ c.pending_out = << >> /\ ~c.open_confirmed
      /\ c.write_q \in Seq(Packet)
  BY <1>1, <1>2, ConnNumbers DEF Local, Fresh
<1>4. Window \in Nat /\ None \in Remote
  BY ChannelAssumptions DEF Remote
<1>5. /\ b \in ConnType
      /\ b.write_q = c.write_q
      /\ b.kex_blocks_app = c.kex_blocks_app /\ b.sent_newkeys = c.sent_newkeys
      /\ b.send_window = 0 /\ b.recv_window = Window
      /\ b.in_q = c.in_q /\ b.pending_out = c.pending_out
      /\ b.open_confirmed = c.open_confirmed /\ b.slot = "live"
  BY <1>3, <1>4 DEF ConnType, NewChannel
<1>6. m \in Packet /\ m.t = "OPEN"
  BY DEF Packet
<1>7. /\ Weight("data", m) = 0 /\ Weight("credit", m) = 0
      /\ Weight("OPEN", m) = 1 /\ Weight("CONFIRM", m) = 0
  BY <1>6 DEF Weight
<1> HIDE DEF b, m
<1>8. /\ d \in ConnType
      /\ d.slot = "live" /\ d.open_confirmed = c.open_confirmed
      /\ d.send_window = 0 /\ d.recv_window = Window
      /\ d.in_q = c.in_q /\ d.pending_out = c.pending_out
      /\ d.kex_blocks_app = c.kex_blocks_app
      /\ d.sent_newkeys = c.sent_newkeys
      /\ d.write_q = Append(c.write_q, m)
  BY <1>5, <1>6, QueueFields
<1> HIDE DEF d
<1>9. \A x : Total(x, d.write_q) = Total(x, c.write_q) + Weight(x, m)
             /\ Total(x, c.write_q) \in Nat
  BY <1>3, <1>6, <1>8, TotalStep, TotalNat
<1>10. /\ Total("data", d.write_q) = Total("data", c.write_q)
       /\ Total("credit", d.write_q) = Total("credit", c.write_q)
       /\ Total("CONFIRM", d.write_q) = Total("CONFIRM", c.write_q)
       /\ Total("OPEN", d.write_q) = Total("OPEN", c.write_q) + 1
  BY <1>7, <1>9
<1>11. Local(d)
  <2>1. InBytes(d) = 0
    BY <1>3, <1>8, FlattenEmpty DEF InBytes
  <2>2. PendBytes(d) = PendBytes(c)
    BY <1>8 DEF PendBytes
  <2>3. d.recv_window + InBytes(d) <= Window
    BY <1>4, <1>8, <2>1
  <2> QED
    BY <1>1, <1>8, <1>10, <2>2, <2>3 DEF Local, Bounded, Fresh
<1>12. Keeps(c, d)
  <2>1. m.t \notin GatedTypes /\ m.t # "KEXINIT"
    BY <1>6 DEF GatedTypes
  <2> QED
    BY <1>3, <1>6, <1>8, <1>11, <2>1, QueueGated DEF Keeps
<1>13. /\ OpenedOnce(c, p, toMe, toPeer)
       /\ Flow("client", c, p, toPeer, toMe)
       /\ Flow("server", p, c, toMe, toPeer)
  BY <1>1 DEF LinkedAt, Linked
<1>14. OpenedOnce(d, p, toMe, toPeer)
  <2> DEFINE A == Total("OPEN", toPeer)
             B == Total("OPEN", c.write_q)
             C == Total("OPEN", d.write_q)
  <2>1. A \in Nat /\ B \in Nat /\ C = B + 1
    BY <1>1, <1>9, <1>10, TotalNat
  <2>2. A + B = 0 /\ p.slot = "none"
    BY <1>2, <1>13 DEF OpenedOnce
  <2> HIDE DEF A, B, C
  <2>3. A + C = 1 /\ A + C <= 1
    BY <2>1, <2>2
  <2> QED
    BY <1>8, <1>10, <1>13, <2>2, <2>3 DEF OpenedOnce, A, C
<1>15. Flow("client", d, p, toPeer, toMe)
  BY <1>3, <1>8, <1>10, <1>13 DEF Flow, Unopened
<1>16. Flow("server", p, d, toMe, toPeer)
  BY <1>2, <1>8, <1>10, <1>13 DEF Flow, Accepts
<1>17. LinkedAt("client", d, p, toMe, toPeer)
  BY <1>14, <1>15, <1>16 DEF LinkedAt, Linked
<1> QED
  BY <1>12, <1>17 DEF d, b, m, c, p, toMe, toPeer

\* confirm_open: the one OPEN_CONFIRMATION is queued.
LEMMA ConfirmCall ==
  ASSUME LinkInv, conn["server"].slot = "live", ~conn["server"].open_confirmed
  PROVE  LET c == conn["server"]
             d == ConfirmOpen(c, 0)
         IN /\ Keeps(c, d)
            /\ LinkedAt("server", d, conn["client"], net["server"], net["client"])
<1> DEFINE c == conn["server"]
           p == conn["client"]
           toMe == net["server"]
           toPeer == net["client"]
           m == [t |-> "CONFIRM", to |-> c.remote_id, from |-> 0]
           b == [c EXCEPT !.open_confirmed = TRUE]
           d == ConfirmOpen(c, 0)
<1>1. /\ Local(c) /\ Local(p) /\ toMe \in Seq(Packet) /\ toPeer \in Seq(Packet)
      /\ LinkedAt("server", c, p, toMe, toPeer)
  BY LinkInvAt, PeerFacts DEF Ends
<1>2. c.slot = "live" /\ ~c.open_confirmed
  OBVIOUS
<1>3. CASE c.remote_id = None
  <2>1. d = Fail(c)
    BY <1>3 DEF ConfirmOpen
  <2> HIDE DEF c, p, toMe, toPeer
  <2>2. Harmless(c, d)
    BY <1>1, <2>1, FailHarmless
  <2> HIDE DEF d
  <2>3. LinkedAt("server", d, p, toMe, toPeer)
    BY <1>1, <2>2, LinkedHarmless DEF Ends
  <2> QED
    BY <2>2, <2>3 DEF d, c, p, toMe, toPeer, Keeps, Harmless, Changes
<1>4. CASE c.remote_id # None
  <2>1. d = Queue(b, m)
    BY <1>2, <1>4 DEF ConfirmOpen
  <2> HIDE DEF c, p, toMe, toPeer, d
  <2>2. c \in ConnType /\ c.write_q \in Seq(Packet)
    BY <1>1, ConnNumbers
  <2>3. /\ b \in ConnType
        /\ b.write_q = c.write_q
        /\ b.kex_blocks_app = c.kex_blocks_app /\ b.sent_newkeys = c.sent_newkeys
        /\ b.send_window = c.send_window /\ b.recv_window = c.recv_window
        /\ b.in_q = c.in_q /\ b.pending_out = c.pending_out
        /\ b.open_confirmed = TRUE /\ b.slot = c.slot
    BY <2>2 DEF ConnType
  <2>4. m \in Packet /\ m.t = "CONFIRM"
    <3>1. c.remote_id \in Remote
      BY <2>2 DEF ConnType
    <3> QED
      BY <3>1 DEF Packet
  <2>5. /\ Weight("data", m) = 0 /\ Weight("credit", m) = 0
        /\ Weight("CONFIRM", m) = 1 /\ Weight("OPEN", m) = 0
    BY <2>4 DEF Weight
  <2> HIDE DEF b, m
  <2>6. /\ d \in ConnType
        /\ d.slot = c.slot /\ d.open_confirmed = TRUE
        /\ d.send_window = c.send_window /\ d.recv_window = c.recv_window
        /\ d.in_q = c.in_q /\ d.pending_out = c.pending_out
        /\ d.kex_blocks_app = c.kex_blocks_app
        /\ d.sent_newkeys = c.sent_newkeys
        /\ d.write_q = Append(c.write_q, m)
    BY <2>1, <2>3, <2>4, QueueFields
  <2>7. \A x : Total(x, d.write_q) = Total(x, c.write_q) + Weight(x, m)
               /\ Total(x, c.write_q) \in Nat
    BY <2>2, <2>4, <2>6, TotalStep, TotalNat
  <2>8. /\ Total("data", d.write_q) = Total("data", c.write_q)
        /\ Total("credit", d.write_q) = Total("credit", c.write_q)
        /\ Total("OPEN", d.write_q) = Total("OPEN", c.write_q)
        /\ Total("CONFIRM", d.write_q) = Total("CONFIRM", c.write_q) + 1
    BY <2>5, <2>7
  <2>9. Local(d)
    BY <1>1, <1>2, <2>6, <2>8 DEF Local, Bounded, Fresh, InBytes, PendBytes
  <2>10. Keeps(c, d)
    <3>1. m.t \notin GatedTypes /\ m.t # "KEXINIT"
      BY <2>4 DEF GatedTypes
    <3> QED
      BY <2>2, <2>4, <2>6, <2>9, <3>1, QueueGated DEF Keeps
  <2>11. /\ OpenedOnce(p, c, toPeer, toMe)
         /\ Flow("server", c, p, toPeer, toMe)
         /\ Flow("client", p, c, toMe, toPeer)
    BY <1>1 DEF LinkedAt, Linked
  <2>12. OpenedOnce(p, d, toPeer, toMe)
    <3> DEFINE A == Total("CONFIRM", toPeer)
               B == Total("CONFIRM", c.write_q)
               C == Total("CONFIRM", d.write_q)
    <3>1. A \in Nat /\ B \in Nat /\ C = B + 1
      BY <1>1, <2>7, <2>8, TotalNat
    <3>2. A + B = 0 /\ ~p.open_confirmed
      BY <1>2, <2>11 DEF OpenedOnce
    <3> HIDE DEF A, B, C
    <3>3. A + C = 1 /\ A + C <= 1
      BY <3>1, <3>2
    <3> QED
      BY <2>6, <2>8, <2>11, <3>2, <3>3 DEF OpenedOnce, A, C
  <2>13. Flow("server", d, p, toPeer, toMe)
    BY <2>6, <2>8, <2>11 DEF Flow, Unopened
  <2>14. Flow("client", p, d, toMe, toPeer)
    BY <2>6, <2>8, <2>11 DEF Flow, Accepts
  <2>15. LinkedAt("server", d, p, toMe, toPeer)
    BY <2>12, <2>13, <2>14 DEF LinkedAt, Linked
  <2> QED
    BY <2>10, <2>15 DEF d, c, p, toMe, toPeer
<1> QED
  BY <1>3, <1>4

\* process_in: the packets of a read, then perhaps a rekey, then the flush.
LEMMA ReadStep ==
  ASSUME NEW e \in Ends, LinkInv, NEW k \in 0 .. Len(net[e]),
         NEW rekey \in BOOLEAN, ProcessIn(e, k, rekey)
  PROVE  LinkInv'
<1> DEFINE c == conn[e]
           p == conn[Peer(e)]
           toMe == net[e]
           toPeer == net[Peer(e)]
           left == SubSeq(toMe, k + 1, Len(toMe))
           f == HF!Fold(e, c, SubSeq(toMe, 1, k))
           r == IF rekey THEN StartKex(f) ELSE f
           d == IF r.error THEN r ELSE FlushPending(r)
<1>1. /\ Local(c) /\ Local(p) /\ toMe \in Seq(Packet) /\ toPeer \in Seq(Packet)
      /\ LinkedAt(e, c, p, toMe, toPeer)
  BY LinkInvAt
<1>2. conn' = [conn EXCEPT ![e] = d] /\ net' = [net EXCEPT ![e] = left]
  BY ProcessInFold DEF ProcessIn, Take
<1>3. Keeps(c, f) /\ LinkedAt(e, f, p, left, toPeer)
  <2> HIDE DEF c, p, toPeer
  <2> QED
    BY <1>1, BatchLinks
<1>4. left \in Seq(Packet)
  BY <1>1, CutInTwo
<1> HIDE DEF f
<1>5. Local(f)
  BY <1>3 DEF Keeps
<1>6. Harmless(f, r)
  BY <1>5, StartKexHarmless, HarmlessSelf
<1> HIDE DEF r
<1>7. Local(r)
  BY <1>6 DEF Harmless, Changes
<1>8. Harmless(r, d)
  BY <1>7, FlushPendingHarmless, HarmlessSelf
<1> HIDE DEF d
<1>9. Harmless(f, d)
  BY <1>5, <1>6, <1>8, HarmlessThen
<1>10. Keeps(c, d)
  BY <1>3, <1>9 DEF Keeps, Harmless, Changes
<1>11. LinkedAt(e, d, p, left, toPeer)
  BY <1>1, <1>3, <1>4, <1>5, <1>9, LinkedHarmless
<1> QED
  BY <1>2, <1>10, <1>11, SideStep

\* The invariant holds of two fresh connections.
LEMMA InitIInv == Init => IInv
<1> SUFFICES ASSUME Init PROVE IInv
  OBVIOUS
<1>1. /\ MaxRekeys \in Nat /\ Stream \in [Ends -> Nat]
      /\ Window \in Nat /\ PendRoom \in Nat /\ WriteSoft \in Nat
      /\ MaxPacket \in Nat /\ MaxPacket > 0
  BY ChannelAssumptions, LinkAssumptions
<1>2. << >> \in Seq(Packet) /\ << >> \in Seq(Nat) /\ << >> \in Seq(Seq(Nat))
  OBVIOUS
<1>3. AppInv
  <2>1. \A e \in Ends : 0 <= Stream[e]
    BY <1>1
  <2> QED
    BY <1>1, <1>2, <2>1 DEF Init, AppInv
<1>4. NoChannel \in ConnType
  BY <1>2 DEF NoChannel, ConnType, Remote
<1>5. Local(NoChannel)
  <2>1. InBytes(NoChannel) = 0 /\ PendBytes(NoChannel) = 0
    BY FlattenEmpty DEF InBytes, PendBytes, NoChannel
  <2>2. Total("data", NoChannel.write_q) = 0
    BY TotalEmpty DEF NoChannel
  <2>3. /\ NoChannel.recv_window = 0 /\ NoChannel.send_window = 0
        /\ NoChannel.in_q = << >> /\ NoChannel.pending_out = << >>
        /\ ~NoChannel.open_confirmed
    BY DEF NoChannel
  <2>4. Bounded(NoChannel)
    BY <1>1, <2>1, <2>2, <2>3 DEF Bounded
  <2> QED
    BY <1>4, <2>3, <2>4 DEF Local, Fresh
<1>6. Gated(NoChannel, << >>)
  <2>1. NoChannel.write_q = << >> /\ << >> \o << >> = << >>
    BY DEF NoChannel
  <2>2. QuietIn(<< >>) /\ ShutIn(<< >>)
    BY DEF QuietIn, ShutIn
  <2> QED
    BY <2>1, <2>2 DEF Gated
<1>7. Linked(NoChannel, NoChannel, << >>, << >>)
  <2>1. /\ NoChannel.write_q = << >> /\ NoChannel.slot = "none"
        /\ NoChannel.send_window = 0 /\ ~NoChannel.open_confirmed
    BY DEF NoChannel
  <2>2. \A x : Total(x, << >>) = 0
    BY TotalEmpty
  <2>3. OpenedOnce(NoChannel, NoChannel, << >>, << >>)
    BY <2>1, <2>2 DEF OpenedOnce
  <2>4. \A e \in Ends : Flow(e, NoChannel, NoChannel, << >>, << >>)
    BY <1>1, <2>1, <2>2 DEF Flow, Unopened, Accepts
  <2> QED
    BY <2>3, <2>4 DEF Linked, Ends
<1>8. LinkInv
  BY <1>2, <1>4, <1>5, <1>6, <1>7, PeerFacts DEF LinkInv, Init, Ends
<1> QED
  BY <1>3, <1>8 DEF IInv

\* Every action keeps the invariant.
LEMMA NextIInv == IInv /\ [Next]_vars => IInv'
<1> SUFFICES ASSUME IInv, [Next]_vars PROVE IInv'
  OBVIOUS
<1>1. LinkInv /\ AppInv
  BY DEF IInv
<1>2. "client" \in Ends /\ "server" \in Ends
  BY DEF Ends
<1>3. CASE UNCHANGED vars
  <2>1. LinkInv'
    BY <1>1, <1>3 DEF LinkInv, vars
  <2>2. AppInv'
    BY <1>1, <1>3 DEF AppInv, vars
  <2> QED
    BY <2>1, <2>2 DEF IInv
<1>4. CASE AppOpen
  <2>1. LinkInv'
    <3> DEFINE d == Queue(NewChannel(conn["client"], None, 0),
                          [t |-> "OPEN", from |-> 0])
    <3>1. conn' = [conn EXCEPT !["client"] = d] /\ net' = net
      BY <1>4 DEF AppOpen, Step
    <3>2. /\ Keeps(conn["client"], d)
          /\ LinkedAt("client", d, conn["server"], net["client"], net["server"])
      BY <1>1, <1>4, OpenCall DEF AppOpen
    <3> HIDE DEF d
    <3> QED
      BY <1>1, <1>2, <3>1, <3>2, PeerFacts, CallStep
  <2>2. AppInv'
    BY <1>1, <1>4 DEF AppOpen, AppInv
  <2> QED
    BY <2>1, <2>2 DEF IInv
<1>5. CASE AppConfirm
  <2>1. LinkInv'
    <3> DEFINE d == ConfirmOpen(conn["server"], 0)
    <3>1. conn' = [conn EXCEPT !["server"] = d] /\ net' = net
      BY <1>5 DEF AppConfirm, Step
    <3>2. /\ Keeps(conn["server"], d)
          /\ LinkedAt("server", d, conn["client"], net["server"], net["client"])
      BY <1>1, <1>5, ConfirmCall DEF AppConfirm, Connecting
    <3> HIDE DEF d
    <3> QED
      BY <1>1, <1>2, <3>1, <3>2, PeerFacts, CallStep
  <2>2. AppInv'
    BY <1>1, <1>5 DEF AppConfirm, AppInv
  <2> QED
    BY <2>1, <2>2 DEF IInv
<1>6. CASE AppRefuse
  <2>1. LinkInv'
    <3> DEFINE d == FailOpen(conn["server"])
    <3>1. conn' = [conn EXCEPT !["server"] = d] /\ net' = net
      BY <1>6 DEF AppRefuse, Step
    <3>2. Harmless(conn["server"], d)
      BY <1>1, <1>2, LinkInvAt, OpenFailedHarmless
    <3> HIDE DEF d
    <3> QED
      BY <1>1, <1>2, <3>1, <3>2, HarmlessCall
  <2>2. AppInv'
    BY <1>1, <1>6 DEF AppRefuse, AppInv
  <2> QED
    BY <2>1, <2>2 DEF IInv
<1>7. ASSUME NEW e \in Ends, Write(e) PROVE IInv'
  <2>1. LinkInv'
    BY <1>1, <1>7, WriteStep
  <2>2. AppInv'
    BY <1>1, <1>7 DEF Write, AppInv
  <2> QED
    BY <2>1, <2>2 DEF IInv
<1>8. ASSUME NEW e \in Ends, NEW k \in 0 .. Len(net[e]), NEW rekey \in BOOLEAN,
             ProcessIn(e, k, rekey)
      PROVE  IInv'
  <2>1. LinkInv'
    BY <1>1, <1>8, ReadStep
  <2>2. rekeys \in 0 .. MaxRekeys /\ MaxRekeys \in Nat
    BY <1>1, LinkAssumptions DEF AppInv
  <2>3. rekeys' \in 0 .. MaxRekeys
    <3>1. \/ rekeys' = rekeys
          \/ rekeys < MaxRekeys /\ rekeys' = rekeys + 1
      BY <1>8 DEF ProcessIn
    <3> QED
      BY <2>2, <3>1
  <2>4. sent' = sent /\ delivered' = delivered
    BY <1>8 DEF ProcessIn
  <2>5. AppInv'
    BY <1>1, <2>3, <2>4 DEF AppInv
  <2> QED
    BY <2>1, <2>5 DEF IInv
<1>9. ASSUME NEW e \in Ends, Read(e) \/ ReadPartial(e) PROVE IInv'
  <2>1. net[e] \in Seq(Packet) /\ Len(net[e]) \in Nat
    BY <1>1, LinkInvAt
  <2>2. PICK k \in 0 .. Len(net[e]), rekey \in BOOLEAN : ProcessIn(e, k, rekey)
    BY <1>9, <2>1 DEF Read, ReadPartial
  <2> QED
    BY <1>8, <2>2
<1>10. ASSUME NEW e \in Ends, AppSend(e) PROVE IInv'
  <2>1. PICK n \in Sizes :
          /\ InUse(e) /\ n <= OutboundAllowance(conn[e])
          /\ sent[e] + n <= Stream[e]
          /\ Step(e, EnqueueOrSend(conn[e], [i \in 1 .. n |-> sent[e] + i]))
          /\ sent' = [sent EXCEPT ![e] = sent[e] + n]
          /\ UNCHANGED <<net, delivered, rekeys>>
    BY <1>10 DEF AppSend
  <2>2. n \in Nat /\ n > 0 /\ Stream[e] \in Nat /\ sent[e] \in Nat
    <3>1. n \in Nat \ {0} /\ Stream[e] \in Nat
      BY LinkAssumptions
    <3>2. sent[e] \in Nat
      BY <1>1 DEF AppInv
    <3> QED
      BY <3>1, <3>2
  <2> DEFINE x == [i \in 1 .. n |-> sent[e] + i]
             d == EnqueueOrSend(conn[e], x)
  <2>3. x \in [1 .. n -> Nat]
    BY <2>2
  <2>4. conn' = [conn EXCEPT ![e] = d] /\ net' = net
    BY <2>1 DEF Step
  <2> HIDE DEF x
  <2>5. x \in Seq(Nat) /\ Len(x) = n
    BY <2>2, <2>3, FunctionIsSeq
  <2>6. Local(conn[e]) /\ conn[e].slot = "live"
    BY <1>1, <2>1, LinkInvAt DEF InUse
  <2>7. Len(x) > 0 /\ Len(x) <= OutboundAllowance(conn[e])
    BY <2>1, <2>2, <2>5
  <2>8. Harmless(conn[e], d)
    BY <2>5, <2>6, <2>7, EnqueueOrSendHarmless
  <2> HIDE DEF d
  <2>9. LinkInv'
    BY <1>1, <2>4, <2>8, HarmlessCall
  <2>10. AppInv'
    <3>1. sent' \in [Ends -> Nat] /\ \A f \in Ends : sent'[f] <= Stream[f]
      BY <1>1, <2>1, <2>2 DEF AppInv
    <3> QED
      BY <1>1, <2>1, <3>1 DEF AppInv
  <2> QED
    BY <2>9, <2>10 DEF IInv
<1>11. ASSUME NEW e \in Ends, AppEof(e) PROVE IInv'
  <2>1. conn' = [conn EXCEPT ![e] = SendEof(conn[e])] /\ net' = net
    BY <1>11 DEF AppEof, Step
  <2>2. Harmless(conn[e], SendEof(conn[e]))
    BY <1>1, LinkInvAt, SendEofHarmless
  <2>3. LinkInv'
    BY <1>1, <2>1, <2>2, HarmlessCall
  <2>4. AppInv'
    BY <1>1, <1>11 DEF AppEof, AppInv
  <2> QED
    BY <2>3, <2>4 DEF IInv
<1>12. ASSUME NEW e \in Ends, AppConsume(e) PROVE IInv'
  <2>1. PICK n \in Sizes :
          /\ conn[e].in_q # << >> /\ n <= Len(Head(conn[e].in_q))
          /\ Step(e, ConsumeInbound(conn[e], n))
          /\ delivered' = [delivered EXCEPT
                             ![e] = delivered[e] \o SubSeq(Head(conn[e].in_q), 1, n)]
          /\ UNCHANGED <<net, sent, rekeys>>
    BY <1>12 DEF AppConsume
  <2>2. n \in Nat
    BY LinkAssumptions
  <2> DEFINE d == ConsumeInbound(conn[e], n)
             front == Head(conn[e].in_q)
  <2>3. conn' = [conn EXCEPT ![e] = d] /\ net' = net
    BY <2>1 DEF Step
  <2>4. Local(conn[e])
    BY <1>1, LinkInvAt
  <2>5. Harmless(conn[e], d)
    BY <2>1, <2>2, <2>4, ConsumeInboundHarmless
  <2> HIDE DEF d
  <2>6. LinkInv'
    BY <1>1, <2>3, <2>5, HarmlessCall
  <2>7. AppInv'
    <3>1. conn[e].in_q \in Seq(Seq(Nat))
      BY <2>4, ConnNumbers
    <3>2. front \in Seq(Nat)
      BY <2>1, <3>1
    <3>3. SubSeq(front, 1, n) \in Seq(Nat)
      BY <2>1, <2>2, <3>2
    <3>4. delivered \in [Ends -> Seq(Nat)]
      BY <1>1 DEF AppInv
    <3> DEFINE v == delivered[e] \o SubSeq(front, 1, n)
    <3>5. v \in Seq(Nat) /\ delivered' = [delivered EXCEPT ![e] = v]
      BY <2>1, <3>3, <3>4
    <3> HIDE DEF v
    <3>6. delivered' \in [Ends -> Seq(Nat)]
      BY <3>4, <3>5
    <3> QED
      BY <1>1, <2>1, <3>6 DEF AppInv
  <2> QED
    BY <2>6, <2>7 DEF IInv
<1>13. ASSUME NEW e \in Ends, AppFinish(e) PROVE IInv'
  <2>1. conn' = [conn EXCEPT ![e] = SendClose(conn[e])] /\ net' = net
    BY <1>13 DEF AppFinish, Step
  <2>2. Harmless(conn[e], SendClose(conn[e]))
    BY <1>1, LinkInvAt, SendCloseHarmless
  <2>3. LinkInv'
    BY <1>1, <2>1, <2>2, HarmlessCall
  <2>4. AppInv'
    BY <1>1, <1>13 DEF AppFinish, AppInv
  <2> QED
    BY <2>3, <2>4 DEF IInv
<1>14. ASSUME NEW e \in Ends, AppAbort(e) PROVE IInv'
  <2> DEFINE b == SendEof(conn[e])
             d == SendClose(b)
  <2>1. conn' = [conn EXCEPT ![e] = d] /\ net' = net
    BY <1>14 DEF AppAbort, Step
  <2>2. Local(conn[e]) /\ Harmless(conn[e], b)
    BY <1>1, LinkInvAt, SendEofHarmless
  <2> HIDE DEF b
  <2>3. Local(b)
    BY <2>2 DEF Harmless, Changes
  <2>4. Harmless(conn[e], d)
    BY <2>2, <2>3, SendCloseHarmless, HarmlessThen
  <2> HIDE DEF d
  <2>5. LinkInv'
    BY <1>1, <2>1, <2>4, HarmlessCall
  <2>6. AppInv'
    BY <1>1, <1>14 DEF AppAbort, AppInv
  <2> QED
    BY <2>5, <2>6 DEF IInv
<1> QED
  BY <1>3, <1>4, <1>5, <1>6, <1>7, <1>9, <1>10, <1>11, <1>12, <1>13, <1>14
     DEF Next

-----------------------------------------------------------------------------
(* Theorems.                                                               *)

\* The inductive invariant of the link: credit in both directions, buffers,
\* the gate of the key exchange (core/channel.rs and core/conn.rs together).
THEOREM LinkInvariant == Spec => []IInv
  BY InitIInv, NextIInv, PTL DEF Spec

\* No window, queue or counter ever leaves its range: in particular neither
\* send_window nor recv_window, u32 in the code, exceeds the window that was
\* advertised, however credit, data and key exchanges interleave.
THEOREM WindowsInRange == Spec => []TypeOK
<1>1. IInv => TypeOK
  <2> SUFFICES ASSUME IInv PROVE TypeOK
    OBVIOUS
  <2>1. LinkInv /\ AppInv
    BY DEF IInv
  <2>2. ASSUME NEW e \in Ends
        PROVE  /\ conn[e].slot \in {"none", "live", "freed"}
               /\ {conn[e].send_window, conn[e].recv_window} \subseteq 0 .. Window
               /\ conn[e].in_q \in Seq(Seq(Nat))
               /\ conn[e].pending_out \in Seq(Seq(Nat))
    <3> DEFINE c == conn[e]
               p == conn[Peer(e)]
    <3>1. /\ Local(c) /\ Local(p) /\ c \in ConnType
          /\ net[e] \in Seq(Packet) /\ net[Peer(e)] \in Seq(Packet)
          /\ LinkedAt(e, c, p, net[e], net[Peer(e)])
      BY <2>1, LinkInvAt
    <3>2. Flow(e, c, p, net[Peer(e)], net[e])
      BY <3>1, PeerFacts DEF LinkedAt, Linked
    <3> HIDE DEF c, p
    <3>3. /\ c.send_window \in Nat /\ c.recv_window \in Nat /\ InBytes(c) \in Nat
          /\ p.recv_window \in Nat /\ InBytes(p) \in Nat /\ Window \in Nat
      BY <3>1, ConnNumbers, ChannelAssumptions
    <3>4. /\ c.recv_window + InBytes(c) <= Window
          /\ p.recv_window + InBytes(p) <= Window
      BY <3>1 DEF Local, Bounded
    <3>5. Accepts(p) <= Window /\ Accepts(p) \in Nat
      BY <3>3, <3>4 DEF Accepts
    <3>6. c.send_window <= Accepts(p)
      <4> DEFINE A == Total("data", c.write_q)
                 B == Total("data", net[Peer(e)])
                 C == Total("credit", net[e])
                 D == Total("credit", p.write_q)
                 G == Unopened(e, c)
                 z == c.send_window
                 w == Accepts(p)
      <4>1. /\ A \in Nat /\ B \in Nat /\ C \in Nat /\ D \in Nat /\ G \in Nat
            /\ z \in Nat /\ w \in Nat
        BY <3>1, <3>3, <3>5, ConnNumbers, TotalNat DEF Unopened
      <4>2. z + A + B + C + D + G <= w
        BY <3>2 DEF Flow
      <4> HIDE DEF A, B, C, D, G, z, w
      <4>3. z <= w
        BY ONLY <4>1, <4>2
      <4> QED
        BY <4>3 DEF z, w
    <3>7. c.send_window <= Window /\ c.recv_window <= Window
      BY <3>3, <3>4, <3>5, <3>6
    <3>8. /\ c.slot \in {"none", "live", "freed"}
          /\ c.in_q \in Seq(Seq(Nat)) /\ c.pending_out \in Seq(Seq(Nat))
      BY <3>1 DEF ConnType
    <3> QED
      BY <3>3, <3>7, <3>8 DEF c
  <2>3. /\ \A e \in Ends : sent[e] \in 0 .. Stream[e] /\ delivered[e] \in Seq(Nat)
        /\ rekeys \in 0 .. MaxRekeys
    BY <2>1, LinkAssumptions DEF AppInv
  <2> QED
    BY <2>2, <2>3 DEF TypeOK
<1> QED
  BY <1>1, LinkInvariant, PTL

\* However slow the peer or the destination, and however long a rekey, a side
\* holds at most a window of inbound data, PendRoom bytes held back and one
\* packet beyond the soft limit (outbound_allowance, flush_pending, push_in).
THEOREM BuffersBounded == Spec => []BufferingBounded
<1>1. IInv => BufferingBounded
  <2> SUFFICES ASSUME IInv, NEW e \in Ends
               PROVE  /\ InBytes(conn[e]) <= Window
                      /\ PendBytes(conn[e]) <= PendRoom
                      /\ Len(Bytes(conn[e].write_q)) < WriteSoft + MaxPacket
    BY DEF BufferingBounded
  <2> DEFINE c == conn[e]
  <2>1. Local(c)
    BY LinkInvAt DEF IInv
  <2> HIDE DEF c
  <2>2. /\ c.recv_window \in Nat /\ InBytes(c) \in Nat /\ Window \in Nat
        /\ c.write_q \in Seq(Packet)
    BY <2>1, ConnNumbers, ChannelAssumptions
  <2>3. /\ c.recv_window + InBytes(c) <= Window
        /\ PendBytes(c) <= PendRoom
        /\ Total("data", c.write_q) < WriteSoft + MaxPacket
    BY <2>1 DEF Local, Bounded
  <2>4. InBytes(c) <= Window
    BY <2>2, <2>3
  <2>5. Len(Bytes(c.write_q)) = Total("data", c.write_q)
    BY <2>2, BytesTotal
  <2> QED
    BY <2>3, <2>4, <2>5 DEF c
<1> QED
  BY <1>1, LinkInvariant, PTL

\* No side sends DATA, WINDOW_ADJUST, EOF or CLOSE between its KEXINIT and its
\* NEWKEYS, for any number of rekeys and any interleaving with the
\* applications' calls.  OPEN, CONFIRM and FAILURE, which the code does not
\* hold back, may stand there.
THEOREM GateHolds == Spec => []GatedTrafficWaits
<1>1. IInv => GatedTrafficWaits
  <2> SUFFICES ASSUME IInv, NEW e \in Ends PROVE QuietIn(Toward(e))
    BY DEF GatedTrafficWaits, QuietIn
  <2>1. Gated(conn[Peer(e)], net[e])
    BY LinkInvAt DEF IInv
  <2> QED
    BY <2>1 DEF Gated, Toward
<1> QED
  BY <1>1, LinkInvariant, PTL

\* A sender never has more bytes on their way than the receiver still accepts,
\* and whatever it has sent, may still send or has been granted fits, with what
\* lies unread, the receiver's window: in both directions the bounds of module
\* WindowCredit hold of the real send_window, recv_window, in_q and packets,
\* also while a rekey holds grants back and after a side has failed.  So
\* push_in never answers "channel window exceeded".
THEOREM NeverOverrun ==
  Spec => [](/\ ToServer!NeverExceeded /\ ToServer!NoOvercommit
             /\ ToClient!NeverExceeded /\ ToClient!NoOvercommit)
<1>1. ASSUME IInv, NEW e \in Ends
      PROVE  /\ Len(Bytes(Toward(e))) <= Accepting(e)
             /\ Promised(Peer(e)) + conn[Peer(e)].send_window
                  + Len(Bytes(Toward(e))) + InBytes(conn[e]) <= Window
  <2> DEFINE c == conn[e]
             p == conn[Peer(e)]
             q == net[e]
             r == net[Peer(e)]
  <2>1. /\ Local(c) /\ Local(p) /\ q \in Seq(Packet) /\ r \in Seq(Packet)
        /\ LinkedAt(e, c, p, q, r)
    BY <1>1, LinkInvAt DEF IInv
  <2>2. Flow(Peer(e), p, c, q, r)
    <3>1. CASE e = "client"
      BY <2>1, <3>1, PeerFacts DEF LinkedAt, Linked
    <3>2. CASE e = "server"
      BY <2>1, <3>2, PeerFacts DEF LinkedAt, Linked
    <3> QED
      BY <3>1, <3>2, PeerFacts
  <2>3. /\ Accepting(e) = Accepts(c) /\ Toward(e) = q \o p.write_q
        /\ Toward(Peer(e)) = r \o c.write_q
        /\ Promised(Peer(e)) = Unopened(Peer(e), p) + Credit(r \o c.write_q)
    BY PeerFacts DEF Accepting, Accepts, Toward, Promised, Unopened
  <2> HIDE DEF c, p, q, r
  <2>4. /\ c.recv_window \in Nat /\ InBytes(c) \in Nat /\ Window \in Nat
        /\ p.write_q \in Seq(Packet) /\ p.send_window \in Nat
        /\ c.write_q \in Seq(Packet)
    BY <2>1, ConnNumbers, ChannelAssumptions
  <2> DEFINE A == Total("data", p.write_q)
             B == Total("data", q)
             C == Total("credit", r)
             D == Total("credit", c.write_q)
             G == Unopened(Peer(e), p)
             z == p.send_window
             w == Accepts(c)
             n == InBytes(c)
  <2>5. Len(Bytes(q \o p.write_q)) = B + A
    <3>1. q \o p.write_q \in Seq(Packet)
      BY <2>1, <2>4
    <3> QED
      BY <2>1, <2>4, <3>1, BytesTotal, TotalConcat
  <2>6. Credit(r \o c.write_q) = C + D
    <3>1. r \o c.write_q \in Seq(Packet)
      BY <2>1, <2>4
    <3> QED
      BY <2>1, <2>4, <3>1, CreditTotal, TotalConcat
  <2>7. w + n <= Window
    <3>1. c.recv_window + InBytes(c) <= Window
      BY <2>1 DEF Local, Bounded
    <3>2. c.slot = "none" => InBytes(c) = 0
      BY <2>1, FlattenEmpty DEF Local, Fresh, InBytes
    <3> QED
      BY <2>4, <3>1, <3>2 DEF Accepts
  <2>8. /\ A \in Nat /\ B \in Nat /\ C \in Nat /\ D \in Nat /\ G \in Nat
        /\ z \in Nat /\ w \in Nat /\ n \in Nat
    BY <2>1, <2>4, ConnNumbers, TotalNat DEF Unopened, Accepts
  <2>9. z + A + B + C + D + G <= w
    BY <2>2 DEF Flow
  <2>10. /\ Len(Bytes(Toward(e))) = B + A /\ Accepting(e) = w
         /\ Promised(Peer(e)) = G + (C + D)
         /\ conn[Peer(e)].send_window = z /\ InBytes(conn[e]) = n
    BY <2>3, <2>5, <2>6 DEF c, p
  <2> HIDE DEF A, B, C, D, G, z, w, n
  <2>11. B + A <= w /\ (G + (C + D)) + z + (B + A) + n <= Window
    BY ONLY <2>4, <2>7, <2>8, <2>9
  <2> QED
    BY <2>10, <2>11
<1>2. IInv => /\ ToServer!NeverExceeded /\ ToServer!NoOvercommit
              /\ ToClient!NeverExceeded /\ ToClient!NoOvercommit
  BY <1>1, PeerFacts
     DEF Ends, Peer, ToServer!NeverExceeded, ToServer!NoOvercommit,
         ToClient!NeverExceeded, ToClient!NoOvercommit
<1> QED
  BY <1>2, LinkInvariant, PTL

-----------------------------------------------------------------------------
(* Both sides free the channel.                                            *)

Carries(q, t) == \E i \in 1 .. Len(q) : q[i].t = t

\* Every CLOSE in q comes after a CONFIRM.
Late(q) == \A i \in 1 .. Len(q) :
             q[i].t = "CLOSE" => \E j \in 1 .. i : q[j].t = "CONFIRM"

\* The life of a channel on one side: it fails only when it is gone, a CLOSE
\* is sent at most when it was asked for, and the peer's CLOSE is answered.
Orderly(c) ==
  /\ c.error => c.slot # "live"
  /\ c.wire_close => c.sent_close
  /\ c.sent_eof \/ c.sent_close => c.open_confirmed
  /\ c.open_confirmed => c.remote_id # None /\ c.slot # "none"
  /\ c.got_close => c.sent_close

\* A channel that both sides have closed stays only while the gate is shut.
Settled(c) == c.slot = "live" /\ c.got_close => c.kex_blocks_app

\* When c has put its CLOSE into q, the peer d has it or will have it.
Told(c, d, q) ==
  c.wire_close /\ d.slot = "live" => Carries(q, "CLOSE") \/ d.got_close

\* What s has said of its channel to a client that does not know it is open.
Announced(s, q) == Late(q) /\ (s.open_confirmed => Carries(q, "CONFIRM"))

\* How the channels of client c and server s end; toClient and toServer are
\* all the packets between them.
Fates(c, s, toClient, toServer) ==
  /\ Told(c, s, toServer) /\ Told(s, c, toClient)
  /\ s.slot = "freed" =>
       \/ s.wire_close
       \/ ~s.open_confirmed /\ (c.slot = "live" => Carries(toClient, "FAILURE"))
  /\ c.slot = "freed" => c.wire_close \/ s.slot = "freed"
  /\ Carries(toClient, "FAILURE") => s.slot = "freed"
  /\ ~Carries(toServer, "FAILURE")
  /\ Carries(toServer, "CLOSE") => c.wire_close
  /\ s.slot # "none" => s.remote_id # None
  /\ ~c.open_confirmed /\ ~c.error => Announced(s, toClient)

FateInv ==
  /\ \A e \in Ends : Orderly(conn[e]) /\ Settled(conn[e])
  /\ Fates(conn["client"], conn["server"], Toward("client"), Toward("server"))

\* One more packet at the end of a queue.
LEMMA CarriesAppend ==
  ASSUME NEW q \in Seq(Packet), NEW m \in Packet
  PROVE  /\ \A t : Carries(Append(q, m), t) <=> Carries(q, t) \/ m.t = t
         /\ Late(q) /\ (m.t # "CLOSE" \/ Carries(q, "CONFIRM"))
              => Late(Append(q, m))
<1> DEFINE a == Append(q, m)
           n == Len(q)
<1>1. /\ n \in Nat /\ Len(q) = n /\ Len(a) = n + 1
      /\ a[n + 1] = m /\ \A i \in 1 .. n : a[i] = q[i]
  BY AppendProperties
<1> HIDE DEF a, n
<1>2. ASSUME NEW t PROVE Carries(a, t) <=> Carries(q, t) \/ m.t = t
  <2>1. ASSUME Carries(a, t) PROVE Carries(q, t) \/ m.t = t
    <3>1. PICK i \in 1 .. n + 1 : a[i].t = t
      BY <1>1, <2>1 DEF Carries
    <3>2. i \in 1 .. n \/ i = n + 1
      BY <1>1
    <3> QED
      BY <1>1, <3>1, <3>2 DEF Carries
  <2>2. ASSUME Carries(q, t) PROVE Carries(a, t)
    <3>1. PICK i \in 1 .. n : q[i].t = t
      BY <1>1, <2>2 DEF Carries
    <3>2. i \in 1 .. n + 1
      BY <1>1
    <3> QED
      BY <1>1, <3>1, <3>2 DEF Carries
  <2>3. ASSUME m.t = t PROVE Carries(a, t)
    <3>1. n + 1 \in 1 .. n + 1
      BY <1>1
    <3> QED
      BY <1>1, <2>3, <3>1 DEF Carries
  <2> QED
    BY <2>1, <2>2, <2>3
<1>3. ASSUME Late(q), m.t # "CLOSE" \/ Carries(q, "CONFIRM") PROVE Late(a)
  <2> SUFFICES ASSUME NEW i \in 1 .. n + 1, a[i].t = "CLOSE"
               PROVE  \E j \in 1 .. i : a[j].t = "CONFIRM"
    BY <1>1 DEF Late
  <2>1. CASE i \in 1 .. n
    <3>1. PICK j \in 1 .. i : q[j].t = "CONFIRM"
      BY <1>1, <1>3, <2>1 DEF Late
    <3>2. j \in 1 .. n
      BY <1>1, <2>1
    <3> QED
      BY <1>1, <3>1, <3>2
  <2>2. CASE i = n + 1
    <3>1. PICK j \in 1 .. n : q[j].t = "CONFIRM"
      BY <1>1, <1>3, <2>2 DEF Carries
    <3>2. j \in 1 .. i
      BY <1>1, <2>2
    <3> QED
      BY <1>1, <3>1, <3>2
  <2> QED
    BY <1>1, <2>1, <2>2
<1> QED
  BY <1>2, <1>3 DEF a

\* The first packet of a queue leaves it.
LEMMA CarriesTail ==
  ASSUME NEW q \in Seq(Packet), q # << >>
  PROVE  /\ Head(q) \in Packet /\ Tail(q) \in Seq(Packet)
         /\ \A t : Carries(q, t) <=> Head(q).t = t \/ Carries(Tail(q), t)
         /\ Late(q) /\ Head(q).t # "CONFIRM" => Late(Tail(q))
         /\ Late(q) => Head(q).t # "CLOSE"
<1> DEFINE r == Tail(q)
           m == Head(q)
           n == Len(r)
<1>1. /\ m \in Packet /\ r \in Seq(Packet)
      /\ n \in Nat /\ Len(q) = n + 1 /\ Len(r) = n
      /\ q[1] = m /\ \A i \in 1 .. n : r[i] = q[i + 1]
  OBVIOUS
<1> HIDE DEF r, m, n
<1>2. ASSUME NEW t PROVE Carries(q, t) <=> m.t = t \/ Carries(r, t)
  <2>1. ASSUME Carries(q, t) PROVE m.t = t \/ Carries(r, t)
    <3>1. PICK i \in 1 .. n + 1 : q[i].t = t
      BY <1>1, <2>1 DEF Carries
    <3>2. CASE i = 1
      BY <1>1, <3>1, <3>2
    <3>3. CASE i # 1
      <4>1. i - 1 \in 1 .. n /\ (i - 1) + 1 = i
        BY <1>1, <3>3
      <4>2. r[i - 1] = q[i]
        BY <1>1, <4>1
      <4> QED
        BY <1>1, <3>1, <4>1, <4>2 DEF Carries
    <3> QED
      BY <3>2, <3>3
  <2>2. ASSUME m.t = t PROVE Carries(q, t)
    <3>1. 1 \in 1 .. n + 1
      BY <1>1
    <3> QED
      BY <1>1, <2>2, <3>1 DEF Carries
  <2>3. ASSUME Carries(r, t) PROVE Carries(q, t)
    <3>1. PICK i \in 1 .. n : r[i].t = t
      BY <1>1, <2>3 DEF Carries
    <3>2. i + 1 \in 1 .. n + 1
      BY <1>1
    <3> QED
      BY <1>1, <3>1, <3>2 DEF Carries
  <2> QED
    BY <2>1, <2>2, <2>3
<1>3. ASSUME Late(q), m.t # "CONFIRM" PROVE Late(r)
  <2> SUFFICES ASSUME NEW i \in 1 .. n, r[i].t = "CLOSE"
               PROVE  \E j \in 1 .. i : r[j].t = "CONFIRM"
    BY <1>1 DEF Late
  <2> DEFINE x == i + 1
  <2>1. x \in 1 .. Len(q) /\ q[x].t = "CLOSE"
    BY <1>1
  <2>2. PICK j \in 1 .. x : q[j].t = "CONFIRM"
    BY <1>3, <2>1 DEF Late
  <2>3. j # 1
    BY <1>1, <1>3, <2>2
  <2>4. j - 1 \in 1 .. i /\ j - 1 \in 1 .. n /\ (j - 1) + 1 = j
    BY <1>1, <2>3
  <2>5. r[j - 1] = q[j]
    BY <1>1, <2>4
  <2> QED
    BY <2>2, <2>4, <2>5
<1>4. ASSUME Late(q) PROVE m.t # "CLOSE"
  <2>1. 1 \in 1 .. Len(q) /\ \A j \in 1 .. 1 : j = 1
    BY <1>1
  <2> QED
    BY <1>1, <1>4, <2>1 DEF Late
<1> QED
  BY <1>1, <1>2, <1>3, <1>4 DEF r, m

-----------------------------------------------------------------------------
(* What a handler or a call does to the fate of a channel.                 *)

\* The packets on their way from c, before (p) and after (q) it becomes d.
Wire(c, d, p, q) ==
  /\ \A t : Carries(p, t) => Carries(q, t)
  /\ \A t \in {"FAILURE", "CONFIRM", "OPEN"} : Carries(q, t) => Carries(p, t)
  /\ Carries(q, "CLOSE") => Carries(p, "CLOSE") \/ d.wire_close
  /\ d.wire_close => c.wire_close \/ Carries(q, "CLOSE")
  /\ Announced(c, p) => Announced(d, q)

\* From c to d nothing is opened, confirmed or refused; the channel may go,
\* but only together with a CLOSE.
Calm(c, d) ==
  /\ Local(d) /\ Orderly(d)
  /\ c.error => d.error
  /\ d.open_confirmed = c.open_confirmed /\ d.remote_id = c.remote_id
  /\ \/ d.slot = c.slot
     \/ c.slot = "live" /\ d.slot = "freed" /\ d.wire_close
  /\ c.wire_close => d.wire_close
  /\ c.got_close => d.got_close
  /\ \A N \in Seq(Packet) : Wire(c, d, N \o c.write_q, N \o d.write_q)

\* The channel's flags stay as they are.
SameFlags(c, d) ==
  /\ d.slot = c.slot /\ d.remote_id = c.remote_id
  /\ d.open_confirmed = c.open_confirmed
  /\ d.sent_eof = c.sent_eof /\ d.sent_close = c.sent_close
  /\ d.got_close = c.got_close /\ d.wire_close = c.wire_close
  /\ d.error = c.error

Silent(c, d) == Calm(c, d) /\ SameFlags(c, d) /\ d.kex_blocks_app = c.kex_blocks_app

\* Calm changes made one after the other are calm.
LEMMA CalmThen ==
  ASSUME NEW a, NEW b, NEW c, Calm(a, b), Calm(b, c)
  PROVE  Calm(a, c)
<1>1. ASSUME NEW N \in Seq(Packet)
      PROVE  Wire(a, c, N \o a.write_q, N \o c.write_q)
  <2> DEFINE p == N \o a.write_q
             q == N \o b.write_q
             r == N \o c.write_q
  <2>1. Wire(a, b, p, q) /\ Wire(b, c, q, r) /\ (b.wire_close => c.wire_close)
    BY DEF Calm
  <2> HIDE DEF p, q, r
  <2>2. Wire(a, c, p, r)
    BY <2>1 DEF Wire
  <2> QED
    BY <2>2 DEF p, r
<1>2. /\ a.error => c.error
      /\ c.open_confirmed = a.open_confirmed /\ c.remote_id = a.remote_id
      /\ \/ c.slot = a.slot
         \/ a.slot = "live" /\ c.slot = "freed" /\ c.wire_close
      /\ a.wire_close => c.wire_close
      /\ a.got_close => c.got_close
      /\ Local(c) /\ Orderly(c)
  BY DEF Calm
<1> QED
  BY <1>1, <1>2 DEF Calm

\* A change that queues nothing.
LEMMA CalmNoPacket ==
  ASSUME NEW c, NEW d, Local(d), Orderly(d), d.write_q = c.write_q,
         c.error => d.error, d.open_confirmed = c.open_confirmed,
         d.remote_id = c.remote_id, d.wire_close = c.wire_close,
         c.got_close => d.got_close,
         \/ d.slot = c.slot
         \/ c.slot = "live" /\ d.slot = "freed" /\ d.wire_close
  PROVE  Calm(c, d)
<1>1. \A p : Wire(c, d, p, p)
  BY DEF Wire, Announced
<1> QED
  BY <1>1 DEF Calm

\* A handler that returns early is silent.
LEMMA SilentSelf ==
  ASSUME NEW c, Local(c), Orderly(c)
  PROVE  Silent(c, c)
  BY CalmNoPacket DEF Silent, SameFlags

QuietTypes == {"DATA", "ADJUST", "EOF"} \union KexTypes

\* A change that queues the packet m.
LEMMA CalmPacket ==
  ASSUME NEW c \in ConnType, NEW d, NEW m \in Packet, Local(d), Orderly(d),
         d.write_q = Append(c.write_q, m),
         \/ m.t \in QuietTypes /\ d.wire_close = c.wire_close
         \/ m.t = "CLOSE" /\ d.wire_close /\ d.open_confirmed,
         c.error => d.error, d.open_confirmed = c.open_confirmed,
         d.remote_id = c.remote_id, c.got_close => d.got_close,
         \/ d.slot = c.slot
         \/ c.slot = "live" /\ d.slot = "freed" /\ d.wire_close
  PROVE  Calm(c, d)
<1>1. c.write_q \in Seq(Packet)
  BY DEF ConnType
<1>2. c.wire_close => d.wire_close
  OBVIOUS
<1>3. ASSUME NEW N \in Seq(Packet)
      PROVE  Wire(c, d, N \o c.write_q, N \o d.write_q)
  <2> DEFINE p == N \o c.write_q
             q == N \o d.write_q
  <2>1. p \in Seq(Packet) /\ q = Append(p, m)
    BY <1>1
  <2> HIDE DEF p, q
  <2>2. /\ \A t : Carries(q, t) <=> Carries(p, t) \/ m.t = t
        /\ Late(p) /\ (m.t # "CLOSE" \/ Carries(p, "CONFIRM")) => Late(q)
    BY <2>1, CarriesAppend
  <2>3. m.t \notin {"FAILURE", "CONFIRM", "OPEN"}
    BY DEF QuietTypes, KexTypes
  <2>4. m.t = "CLOSE" => d.wire_close /\ c.open_confirmed
    BY DEF QuietTypes, KexTypes
  <2>5. d.wire_close => c.wire_close \/ m.t = "CLOSE"
    OBVIOUS
  <2>6. Announced(c, p) => Announced(d, q)
    BY <2>2, <2>4 DEF Announced
  <2>7. Wire(c, d, p, q)
    BY <2>2, <2>3, <2>4, <2>5, <2>6 DEF Wire
  <2> QED
    BY <2>7 DEF p, q
<1> QED
  BY <1>2, <1>3 DEF Calm

\* queue_msg below the hard limit changes the write queue only.
LEMMA QueueFlags ==
  ASSUME NEW b \in ConnType, NEW m \in Packet,
         m.t = "DATA" => Queued(b) < WriteHard
  PROVE  LET d == Queue(b, m) IN
         /\ SameFlags(b, d) /\ d.kex_blocks_app = b.kex_blocks_app
         /\ d.write_q = Append(b.write_q, m)
<1> DEFINE v == Append(b.write_q, m)
<1>1. b.write_q \in Seq(Packet)
  BY DEF ConnType
<1>2. Queued(b) \in Nat /\ WriteHard \in Nat
  BY <1>1, QueuedCovers, ChannelAssumptions
<1>3. m.t = "DATA" => ~(Queued(b) >= WriteHard)
  BY <1>2
<1>4. Queue(b, m) = [b EXCEPT !.write_q = v]
  BY <1>3 DEF Queue
<1> HIDE DEF v
<1>5. Queue(b, m).write_q = v
  BY <1>4 DEF ConnType
<1> QED
  BY <1>4, <1>5 DEF ConnType, SameFlags, v

\* The flags that Orderly is about.
LEMMA OrderlySame ==
  ASSUME NEW c, NEW d, Orderly(c), SameFlags(c, d)
  PROVE  Orderly(d)
  BY DEF Orderly, SameFlags

\* A silent change that queues the packet m.
LEMMA SilentQueue ==
  ASSUME NEW c \in ConnType, NEW b \in ConnType, NEW m \in Packet, Orderly(c),
         SameFlags(c, b), b.kex_blocks_app = c.kex_blocks_app,
         b.write_q = c.write_q, m.t \in QuietTypes,
         m.t = "DATA" => Queued(b) < WriteHard, Local(Queue(b, m))
  PROVE  Silent(c, Queue(b, m))
<1> DEFINE d == Queue(b, m)
<1>1. /\ SameFlags(b, d) /\ d.kex_blocks_app = b.kex_blocks_app
      /\ d.write_q = Append(b.write_q, m)
  BY QueueFlags
<1>2. Local(d)
  OBVIOUS
<1> HIDE DEF d
<1>3. SameFlags(c, d)
  BY <1>1 DEF SameFlags
<1>4. Orderly(d)
  BY <1>3, OrderlySame
<1>5. Calm(c, d)
  BY <1>1, <1>2, <1>3, <1>4, CalmPacket DEF SameFlags
<1> QED
  BY <1>1, <1>3, <1>5 DEF Silent, d

-----------------------------------------------------------------------------
(* The operations that leave the channel's flags alone.                    *)

\* What a harmless call leaves is well formed.
LEMMA HarmlessLocal ==
  ASSUME NEW c, NEW d, Harmless(c, d)
  PROVE  Local(d)
  BY DEF Harmless, Changes

\* A silent change that queues nothing.
LEMMA SilentNoPacket ==
  ASSUME NEW c, NEW d, Local(d), Orderly(c), SameFlags(c, d),
         d.kex_blocks_app = c.kex_blocks_app, d.write_q = c.write_q
  PROVE  Silent(c, d)
<1>1. Orderly(d)
  BY OrderlySame
<1>2. Calm(c, d)
  BY <1>1, CalmNoPacket DEF SameFlags
<1> QED
  BY <1>2 DEF Silent

\* Silent changes made one after the other are silent.
LEMMA SilentThen ==
  ASSUME NEW a, NEW b, NEW c, Silent(a, b), Silent(b, c)
  PROVE  Silent(a, c)
<1>1. Calm(a, c)
  BY CalmThen DEF Silent
<1> QED
  BY <1>1 DEF Silent, SameFlags

\* What a silent change leaves is well formed and orderly.
LEMMA SilentSound ==
  ASSUME NEW c, NEW d, Silent(c, d)
  PROVE  Local(d) /\ Orderly(d) /\ d.kex_blocks_app = c.kex_blocks_app
         /\ d.slot = c.slot
  BY DEF Silent, Calm, SameFlags

\* maybe_adjust queues at most a grant.
LEMMA MaybeAdjustSilent ==
  ASSUME NEW c \in ConnType, Orderly(c), Local(MaybeAdjust(c))
  PROVE  Silent(c, MaybeAdjust(c))
<1> DEFINE add == WindowAdjustAmount(c)
           v == c.recv_window + add
           g == [c EXCEPT !.recv_window = v]
           m == Adjust(c, add)
<1>1. /\ c.recv_window \in Nat /\ c.in_q \in Seq(Seq(Nat)) /\ Window \in Nat
  BY ChannelAssumptions DEF ConnType
<1>0. InBytes(c) \in Nat
  BY <1>1, FlattenType DEF InBytes
<1>2. add \in Nat /\ v \in Nat
  BY <1>0, <1>1 DEF WindowAdjustAmount, Monus
<1>3. MaybeAdjust(c) = IF c.kex_blocks_app \/ c.slot # "live" \/ add = 0
                         THEN c
                         ELSE IF c.remote_id # None THEN Queue(g, m) ELSE g
  BY DEF MaybeAdjust
<1>4. Local(MaybeAdjust(c))
  OBVIOUS
<1>5. m \in Packet /\ m.t = "ADJUST"
  BY <1>1, <1>2, << >> \in Seq(Nat), ChannelPackets
<1> HIDE DEF add, v, m
<1>6. /\ g \in ConnType /\ SameFlags(c, g)
      /\ g.write_q = c.write_q /\ g.kex_blocks_app = c.kex_blocks_app
  BY <1>1, <1>2 DEF ConnType, SameFlags
<1> HIDE DEF g
<1>7. CASE MaybeAdjust(c) = c
  BY <1>4, <1>7, SilentSelf
<1>8. CASE MaybeAdjust(c) = Queue(g, m)
  <2>1. m.t \in QuietTypes /\ m.t # "DATA"
    BY <1>5 DEF QuietTypes
  <2> QED
    BY <1>4, <1>5, <1>6, <1>8, <2>1, SilentQueue
<1>9. CASE MaybeAdjust(c) = g
  BY <1>4, <1>6, <1>9, SilentNoPacket
<1> QED
  BY <1>3, <1>7, <1>8, <1>9

\* A silent change that starts from a change of other fields.
LEMMA SilentFrom ==
  ASSUME NEW c, NEW b, NEW d, SameFlags(c, b), b.write_q = c.write_q,
         b.kex_blocks_app = c.kex_blocks_app, Silent(b, d)
  PROVE  Silent(c, d)
<1>1. \A p, q : Wire(b, d, p, q) => Wire(c, d, p, q)
  BY DEF Wire, Announced, SameFlags
<1>2. Calm(c, d)
  BY <1>1 DEF Silent, Calm, SameFlags
<1> QED
  BY <1>2 DEF Silent, SameFlags

\* consume_inbound queues at most a grant.
LEMMA ConsumeInboundSilent ==
  ASSUME NEW c, Local(c), Orderly(c), NEW n \in Nat, c.in_q # << >>,
         n <= Len(Head(c.in_q))
  PROVE  Silent(c, ConsumeInbound(c, n))
<1> DEFINE front == Head(c.in_q)
           left == IF n < Len(front) THEN <<SubSeq(front, n + 1, Len(front))>>
                                     ELSE << >>
           v == left \o Tail(c.in_q)
           b == [c EXCEPT !.in_q = v]
<1>1. ConsumeInbound(c, n) = MaybeAdjust(b)
  BY DEF ConsumeInbound
<1>2. Local(MaybeAdjust(b))
  BY <1>1, ConsumeInboundHarmless, HarmlessLocal
<1>3. c \in ConnType /\ c.in_q \in Seq(Seq(Nat))
  BY ConnNumbers
<1>4. v \in Seq(Seq(Nat))
  <2>1. front \in Seq(Nat) /\ Tail(c.in_q) \in Seq(Seq(Nat))
    BY <1>3
  <2>2. left \in Seq(Seq(Nat))
    BY <2>1
  <2> QED
    BY <2>1, <2>2
<1> HIDE DEF v
<1>5. /\ b \in ConnType /\ SameFlags(c, b)
      /\ b.write_q = c.write_q /\ b.kex_blocks_app = c.kex_blocks_app
  BY <1>3, <1>4 DEF ConnType, SameFlags
<1> HIDE DEF b
<1>6. Orderly(b)
  BY <1>5, OrderlySame
<1>7. Silent(b, MaybeAdjust(b))
  BY <1>2, <1>5, <1>6, MaybeAdjustSilent
<1> QED
  BY <1>1, <1>5, <1>7, SilentFrom

\* One turn of flush_pending's loop queues at most data.
LEMMA FlushOneSilent ==
  ASSUME NEW c, Local(c), Orderly(c), ~c.kex_blocks_app
  PROVE  Silent(c, FlushOne(c))
<1> DEFINE front == Head(c.pending_out)
           take  == Min2(Min2(Len(front), MaxPacket), c.send_window)
           rest  == IF take >= Len(front)
                      THEN Tail(c.pending_out)
                      ELSE <<SubSeq(front, take + 1, Len(front))>>
                           \o Tail(c.pending_out)
           stop  == \/ ~c.open_confirmed \/ c.sent_eof \/ c.remote_id = None
                    \/ c.send_window = 0 \/ c.pending_out = << >>
                    \/ Queued(c) >= WriteSoft
           d     == SubSeq(front, 1, take)
           v     == c.send_window - take
           b     == [c EXCEPT !.pending_out = rest, !.send_window = v]
           m     == Data(c, d)
<1>1. FlushOne(c) = IF stop THEN c ELSE Queue(b, m)
  BY DEF FlushOne
<1>2. CASE stop
  <2> HIDE DEF stop
  <2> QED
    BY <1>1, <1>2, SilentSelf
<1>3. CASE ~stop
  <2>1. /\ c \in ConnType /\ c.send_window \in Nat
        /\ c.pending_out \in Seq(Seq(Nat)) /\ c.pending_out # << >>
        /\ Queued(c) \in Nat /\ WriteSoft \in Nat /\ WriteHard \in Nat
        /\ WriteSoft <= WriteHard /\ MaxPacket \in Nat
    BY <1>3, ConnNumbers, ChannelAssumptions
  <2>2. Queued(c) < WriteHard
    BY <1>3, <2>1
  <2>3. FlushOne(c) = Queue(b, m)
    BY <1>1, <1>3
  <2> HIDE DEF stop
  <2>4. Local(Queue(b, m))
    BY <2>3, FlushOneHarmless, HarmlessLocal
  <2>5. front \in Seq(Nat) /\ Len(front) \in Nat
    BY <2>1
  <2>6. take \in Nat /\ take <= Len(front) /\ take <= c.send_window /\ v \in Nat
    <3> DEFINE x == Min2(Len(front), MaxPacket)
    <3>1. x \in Nat /\ x <= Len(front)
      BY <2>1, <2>5, Min2Nat
    <3> HIDE DEF x, front
    <3>2. take \in Nat /\ take <= x /\ take <= c.send_window
      BY <2>1, <3>1, Min2Nat DEF x
    <3> HIDE DEF take
    <3> QED
      BY <2>1, <2>5, <3>1, <3>2
  <2>7. d \in Seq(Nat)
    BY <2>5, <2>6
  <2>8. m \in Packet /\ m.t = "DATA"
    BY <2>1, <2>7, 0 \in Nat, ChannelPackets
  <2>9. rest \in Seq(Seq(Nat))
    <3>1. Tail(c.pending_out) \in Seq(Seq(Nat))
      BY <2>1
    <3>2. SubSeq(front, take + 1, Len(front)) \in Seq(Nat)
      BY <2>5, <2>6
    <3> QED
      BY <3>1, <3>2
  <2> HIDE DEF rest, v, d, take, front, m
  <2>10. /\ b \in ConnType /\ SameFlags(c, b)
         /\ b.write_q = c.write_q /\ b.kex_blocks_app = c.kex_blocks_app
    BY <2>1, <2>6, <2>9 DEF ConnType, SameFlags
  <2>11. Queued(b) < WriteHard
    BY <2>2, <2>10 DEF Queued
  <2> HIDE DEF b
  <2>12. m.t \in QuietTypes
    BY <2>8 DEF QuietTypes
  <2>13. Silent(c, Queue(b, m))
    BY <2>1, <2>4, <2>8, <2>10, <2>11, <2>12, SilentQueue
  <2> QED
    BY <2>3, <2>13
<1> QED
  BY <1>2, <1>3

\* flush_pending queues nothing but data.
LEMMA FlushPendingSilent ==
  ASSUME NEW c, Local(c), Orderly(c)
  PROVE  Silent(c, FlushPending(c))
<1>1. CASE c.kex_blocks_app \/ c.slot # "live"
  <2>1. FlushPending(c) = c
    BY <1>1 DEF FlushPending
  <2> QED
    BY <2>1, SilentSelf
<1>2. CASE ~c.kex_blocks_app /\ c.slot = "live"
  <2> DEFINE q == FlattenSeq(c.pending_out)
             n == Len(q)
  <2>1. q \in Seq(Nat)
    BY ConnNumbers, FlattenType
  <2>2. n \in Nat /\ DOMAIN q = 1 .. n
    BY <2>1
  <2>3. FlushPending(c) = FF!Fold(0, c, q)
    BY <1>2, FlushPendingFold
  <2> HIDE DEF q, n
  <2>4. PICK g : FF!IsChain(g, 0, c, q, n) /\ FF!Fold(0, c, q) = g[n]
    BY <2>2, FF!FoldChain
  <2>5. g[0] = c /\ \A k \in 1 .. n : g[k] = FlushOne(g[k - 1])
    BY <2>4 DEF FF!IsChain, FlushTurn
  <2> DEFINE T == {k \in 0 .. n : Silent(c, g[k])}
  <2>6. 0 \in T
    BY <2>2, <2>5, SilentSelf
  <2>7. ASSUME NEW k \in 1 .. n, k - 1 \in T PROVE k \in T
    <3>1. Silent(c, g[k - 1])
      BY <2>7
    <3>2. Local(g[k - 1]) /\ Orderly(g[k - 1]) /\ ~g[k - 1].kex_blocks_app
      BY <1>2, <3>1, SilentSound
    <3>3. Silent(g[k - 1], g[k])
      BY <2>5, <3>2, FlushOneSilent
    <3>4. Silent(c, g[k])
      BY <3>1, <3>3, SilentThen
    <3> QED
      BY <2>2, <3>4
  <2> HIDE DEF T
  <2>8. n \in T
    BY <2>2, <2>6, <2>7, IntervalInduction
  <2> QED
    BY <2>3, <2>4, <2>8 DEF T
<1> QED
  BY <1>1, <1>2

\* send_data queues at most data.
LEMMA EnqueueOrSendSilent ==
  ASSUME NEW c, Local(c), Orderly(c), c.slot = "live", NEW d \in Seq(Nat),
         Len(d) > 0, Len(d) <= OutboundAllowance(c)
  PROVE  Silent(c, EnqueueOrSend(c, d))
<1>1. /\ c \in ConnType /\ c.send_window \in Nat
      /\ c.pending_out \in Seq(Seq(Nat)) /\ Queued(c) \in Nat
      /\ WriteSoft \in Nat /\ WriteHard \in Nat /\ WriteSoft <= WriteHard
      /\ MaxPacket \in Nat /\ Len(d) \in Nat
  BY ConnNumbers, ChannelAssumptions
<1>2. Local(EnqueueOrSend(c, d))
  BY EnqueueOrSendHarmless, HarmlessLocal
<1>3. CASE ~CanWire(c) \/ c.remote_id = None \/ c.send_window = 0
  <2> DEFINE v == Append(c.pending_out, d)
             b == [c EXCEPT !.pending_out = v]
  <2>1. EnqueueOrSend(c, d) = b
    BY <1>3 DEF EnqueueOrSend
  <2> HIDE DEF v
  <2>2. /\ SameFlags(c, b)
        /\ b.write_q = c.write_q /\ b.kex_blocks_app = c.kex_blocks_app
    BY <1>1 DEF ConnType, SameFlags
  <2> HIDE DEF b
  <2> QED
    BY <1>2, <2>1, <2>2, SilentNoPacket
<1>4. CASE CanWire(c) /\ c.remote_id # None /\ c.send_window # 0
  <2> DEFINE n == Min2(Min2(Len(d), MaxPacket), c.send_window)
             v == c.send_window - n
             l == SubSeq(d, n + 1, Len(d))
             w == [c EXCEPT !.send_window = v]
             r == IF n < Len(d)
                    THEN [w EXCEPT !.pending_out = <<l>> \o @] ELSE w
             m == Data(c, SubSeq(d, 1, n))
  <2>1. EnqueueOrSend(c, d) = Queue(r, m)
    BY <1>4 DEF EnqueueOrSend
  <2>2. n \in Nat /\ n <= Len(d) /\ n <= c.send_window /\ v \in Nat
    <3> DEFINE y == Min2(Len(d), MaxPacket)
    <3>1. y \in Nat /\ y <= Len(d)
      BY <1>1, Min2Nat
    <3> HIDE DEF y
    <3>2. n \in Nat /\ n <= y /\ n <= c.send_window
      BY <1>1, <3>1, Min2Nat DEF y
    <3> HIDE DEF n
    <3> QED
      BY <1>1, <3>1, <3>2
  <2>3. SubSeq(d, 1, n) \in Seq(Nat) /\ l \in Seq(Nat)
    BY <1>1, <2>2
  <2>4. m \in Packet /\ m.t = "DATA"
    <3> HIDE DEF n
    <3> QED
      BY <1>1, <2>3, 0 \in Nat, ChannelPackets
  <2>5. Queued(c) < WriteHard
    <3>1. Queued(c) < WriteSoft
      BY <1>1, <1>4 DEF OutboundAllowance, CanWire
    <3> QED
      BY <1>1, <3>1
  <2>6. <<l>> \o c.pending_out \in Seq(Seq(Nat))
    <3> HIDE DEF l
    <3> QED
      BY <1>1, <2>3
  <2> HIDE DEF n, v, l, m
  <2>7. /\ w \in ConnType /\ SameFlags(c, w) /\ w.pending_out = c.pending_out
        /\ w.write_q = c.write_q /\ w.kex_blocks_app = c.kex_blocks_app
    BY <1>1, <2>2 DEF ConnType, SameFlags
  <2> HIDE DEF w
  <2>8. /\ r \in ConnType /\ SameFlags(c, r)
        /\ r.write_q = c.write_q /\ r.kex_blocks_app = c.kex_blocks_app
    <3>1. CASE n < Len(d)
      <4> DEFINE x == <<l>> \o c.pending_out
      <4>1. r = [w EXCEPT !.pending_out = x]
        BY <2>7, <3>1
      <4>2. x \in Seq(Seq(Nat))
        BY <2>6
      <4> HIDE DEF x, r
      <4> QED
        BY <2>7, <4>1, <4>2 DEF ConnType, SameFlags
    <3>2. CASE ~(n < Len(d))
      BY <2>7, <3>2
    <3> QED
      BY <3>1, <3>2
  <2> HIDE DEF r
  <2>9. Queued(r) < WriteHard
    BY <2>5, <2>8 DEF Queued
  <2>10. m.t \in QuietTypes
    BY <2>4 DEF QuietTypes
  <2> QED
    BY <1>1, <1>2, <2>1, <2>4, <2>8, <2>9, <2>10, SilentQueue
<1> QED
  BY <1>3, <1>4

\* emit_eof_if_ready queues at most an EOF.
LEMMA EmitEofSilent ==
  ASSUME NEW c, Local(c), Orderly(c)
  PROVE  Silent(c, EmitEofIfReady(c))
<1> DEFINE w == [c EXCEPT !.wire_eof = TRUE]
           m == Msg(c, "EOF")
<1>1. c \in ConnType
  BY ConnNumbers
<1>2. \/ EmitEofIfReady(c) = c
      \/ EmitEofIfReady(c) = Queue(w, m)
      \/ EmitEofIfReady(c) = w
  BY DEF EmitEofIfReady
<1>3. Local(EmitEofIfReady(c))
  BY EmitEofHarmless, HarmlessLocal
<1>4. m \in Packet /\ m.t = "EOF"
  BY <1>1, 0 \in Nat, << >> \in Seq(Nat), ChannelPackets
<1> HIDE DEF m
<1>5. /\ w \in ConnType /\ SameFlags(c, w)
      /\ w.write_q = c.write_q /\ w.kex_blocks_app = c.kex_blocks_app
  BY <1>1 DEF ConnType, SameFlags
<1> HIDE DEF w
<1>6. m.t \in QuietTypes /\ m.t # "DATA"
  BY <1>4 DEF QuietTypes
<1>7. CASE EmitEofIfReady(c) = c
  BY <1>7, SilentSelf
<1>8. CASE EmitEofIfReady(c) = Queue(w, m)
  BY <1>1, <1>3, <1>4, <1>5, <1>6, <1>8, SilentQueue
<1>9. CASE EmitEofIfReady(c) = w
  BY <1>3, <1>5, <1>9, SilentNoPacket
<1> QED
  BY <1>2, <1>7, <1>8, <1>9

\* A handler that finds no channel answers Err.
LEMMA FailCalm ==
  ASSUME NEW c, Local(c), Orderly(c), c.slot # "live"
  PROVE  Calm(c, Fail(c))
<1> DEFINE d == Fail(c)
<1>1. c \in ConnType
  BY ConnNumbers
<1>2. Local(d)
  BY FailHarmless, HarmlessLocal
<1>3. /\ d.write_q = c.write_q /\ d.error = TRUE
      /\ d.open_confirmed = c.open_confirmed /\ d.remote_id = c.remote_id
      /\ d.wire_close = c.wire_close /\ d.got_close = c.got_close
      /\ d.sent_close = c.sent_close /\ d.sent_eof = c.sent_eof
      /\ d.slot = c.slot
  BY <1>1 DEF Fail, ConnType
<1> HIDE DEF d
<1>4. Orderly(d)
  BY <1>3 DEF Orderly
<1>5. Calm(c, d)
  BY <1>2, <1>3, <1>4, CalmNoPacket
<1> QED
  BY <1>5 DEF d

\* Data within the window is taken.
LEMMA OnChannelDataCalm ==
  ASSUME NEW c, Local(c), Orderly(c), NEW d \in Seq(Nat),
         c.slot = "live" => Len(d) <= c.recv_window
  PROVE  Calm(c, OnChannelData(c, d)) /\ (Settled(c) => Settled(OnChannelData(c, d)))
<1>1. c \in ConnType /\ c.recv_window \in Nat /\ Len(d) \in Nat
  BY ConnNumbers
<1>2. Local(OnChannelData(c, d))
  BY OnChannelDataChanges DEF Changes
<1>3. CASE c.slot # "live"
  <2>1. OnChannelData(c, d) = Fail(c) /\ Fail(c).slot = c.slot
    BY <1>1, <1>3 DEF OnChannelData, Fail, ConnType
  <2> QED
    BY <1>3, <2>1, FailCalm DEF Settled
<1>4. CASE c.slot = "live"
  <2> DEFINE v == c.recv_window - Len(d)
             q == Append(c.in_q, d)
             b == [c EXCEPT !.recv_window = v, !.in_q = q]
  <2>1. ~(Len(d) > c.recv_window)
    BY <1>1, <1>4
  <2>2. OnChannelData(c, d) = b
    BY <1>4, <2>1 DEF OnChannelData, PushIn
  <2> HIDE DEF v, q
  <2>3. /\ SameFlags(c, b)
        /\ b.write_q = c.write_q /\ b.kex_blocks_app = c.kex_blocks_app
    BY <1>1 DEF ConnType, SameFlags
  <2> HIDE DEF b
  <2>4. Silent(c, b)
    BY <1>2, <2>2, <2>3, SilentNoPacket
  <2> QED
    BY <2>2, <2>4 DEF Silent, SameFlags, Settled
<1> QED
  BY <1>3, <1>4

\* Credit lets pending data out.
LEMMA OnWindowAdjustCalm ==
  ASSUME NEW c, Local(c), Orderly(c), NEW add \in Nat
  PROVE  /\ Calm(c, OnWindowAdjust(c, add))
         /\ Settled(c) => Settled(OnWindowAdjust(c, add))
<1>1. c \in ConnType /\ c.send_window \in Nat
  BY ConnNumbers
<1>2. CASE c.slot # "live"
  <2>1. OnWindowAdjust(c, add) = Fail(c) /\ Fail(c).slot = c.slot
    BY <1>1, <1>2 DEF OnWindowAdjust, Fail, ConnType
  <2> QED
    BY <1>2, <2>1, FailCalm DEF Settled
<1>3. CASE c.slot = "live"
  <2> DEFINE v == c.send_window + add
             b == [c EXCEPT !.send_window = v]
  <2>1. OnWindowAdjust(c, add) = FlushPending(b)
    BY <1>3 DEF OnWindowAdjust
  <2>2. v \in Nat
    BY <1>1
  <2> HIDE DEF v
  <2>3. /\ b \in ConnType /\ SameFlags(c, b)
        /\ b.write_q = c.write_q /\ b.kex_blocks_app = c.kex_blocks_app
        /\ b.in_q = c.in_q /\ b.pending_out = c.pending_out
        /\ b.recv_window = c.recv_window /\ b.slot = "live"
    BY <1>1, <1>3, <2>2 DEF ConnType, SameFlags
  <2> HIDE DEF b
  <2>4. Local(b)
    BY <2>3 DEF Local, Bounded, Fresh, InBytes, PendBytes
  <2>5. Silent(c, b) /\ Orderly(b)
    BY <2>3, <2>4, SilentNoPacket, OrderlySame
  <2>6. Silent(c, FlushPending(b))
    BY <2>4, <2>5, FlushPendingSilent, SilentThen
  <2> QED
    BY <2>1, <2>6 DEF Silent, SameFlags, Settled
<1> QED
  BY <1>2, <1>3

\* on_channel_eof notes the end of the peer's stream.
LEMMA OnChannelEofSilent ==
  ASSUME NEW c, Local(c), Orderly(c)
  PROVE  Silent(c, OnChannelEof(c))
<1> DEFINE b == [c EXCEPT !.got_eof = TRUE]
<1>1. c \in ConnType
  BY ConnNumbers
<1>2. OnChannelEof(c) = b \/ OnChannelEof(c) = c
  BY DEF OnChannelEof
<1>3. Local(OnChannelEof(c))
  BY OnChannelEofHarmless, HarmlessLocal
<1>4. /\ SameFlags(c, b)
      /\ b.write_q = c.write_q /\ b.kex_blocks_app = c.kex_blocks_app
  BY <1>1 DEF ConnType, SameFlags
<1> HIDE DEF b
<1> QED
  BY <1>2, <1>3, <1>4, SilentNoPacket, SilentSelf

-----------------------------------------------------------------------------
(* Closing, and the key exchange.                                          *)

\* emit_close_if_ready: with the gate open a CLOSE that was asked for is
\* queued, and a channel the peer has closed too leaves the table.
LEMMA EmitCloseCalm ==
  ASSUME NEW c, Local(c), Orderly(c)
  PROVE  Calm(c, EmitCloseIfReady(c)) /\ Settled(EmitCloseIfReady(c))
<1> DEFINE w == [c EXCEPT !.wire_close = TRUE, !.wire_eof = TRUE]
           m == Msg(c, "CLOSE")
           q == IF c.wire_close \/ c.remote_id = None THEN w ELSE Queue(w, m)
           d == EmitCloseIfReady(c)
<1>1. CASE c.kex_blocks_app \/ c.slot # "live" \/ ~c.sent_close
  <2>1. d = c
    BY <1>1 DEF EmitCloseIfReady
  <2>2. Settled(c)
    BY <1>1 DEF Settled, Orderly
  <2> QED
    BY <2>1, <2>2, SilentSelf DEF Silent
<1>2. CASE ~c.kex_blocks_app /\ c.slot = "live" /\ c.sent_close
  <2>1. d = IF q.got_close THEN [q EXCEPT !.slot = "freed"] ELSE q
    BY <1>2 DEF EmitCloseIfReady
  <2>2. c \in ConnType /\ c.open_confirmed /\ c.remote_id # None /\ ~c.error
    BY <1>2, ConnNumbers DEF Orderly, ConnType
  <2>3. Local(d)
    BY EmitCloseHarmless, HarmlessLocal
  <2>4. m \in Packet /\ m.t = "CLOSE"
    BY <2>2, 0 \in Nat, << >> \in Seq(Nat), ChannelPackets
  <2> HIDE DEF m
  <2>5. /\ w \in ConnType /\ w.write_q = c.write_q /\ w.wire_close = TRUE
        /\ w.slot = c.slot /\ w.remote_id = c.remote_id
        /\ w.open_confirmed = c.open_confirmed /\ w.sent_eof = c.sent_eof
        /\ w.sent_close = c.sent_close /\ w.got_close = c.got_close
        /\ w.error = c.error
    BY <2>2 DEF ConnType
  <2> HIDE DEF w
  <2>6. /\ q \in ConnType /\ q.wire_close = TRUE
        /\ q.slot = c.slot /\ q.remote_id = c.remote_id
        /\ q.open_confirmed = c.open_confirmed /\ q.sent_eof = c.sent_eof
        /\ q.sent_close = c.sent_close /\ q.got_close = c.got_close
        /\ q.error = c.error
        /\ q.write_q = IF c.wire_close THEN c.write_q ELSE Append(c.write_q, m)
    <3>1. CASE c.wire_close
      BY <2>5, <3>1
    <3>2. CASE ~c.wire_close
      <4>1. q = Queue(w, m) /\ m.t # "DATA"
        BY <2>2, <2>4, <3>2
      <4>2. /\ SameFlags(w, q) /\ q.write_q = Append(w.write_q, m)
            /\ q \in ConnType
        BY <2>4, <2>5, <4>1, QueueFlags, QueueFields
      <4> HIDE DEF q
      <4> QED
        BY <2>5, <3>2, <4>2 DEF SameFlags
    <3> QED
      BY <3>1, <3>2
  <2> HIDE DEF q, d
  <2>7. /\ d.wire_close = TRUE
        /\ d.slot = (IF c.got_close THEN "freed" ELSE "live")
        /\ d.remote_id = c.remote_id
        /\ d.open_confirmed = c.open_confirmed /\ d.sent_eof = c.sent_eof
        /\ d.sent_close = c.sent_close /\ d.got_close = c.got_close
        /\ d.error = c.error
        /\ d.write_q = q.write_q
    <3>1. CASE q.got_close
      <4>1. d = [q EXCEPT !.slot = "freed"]
        BY <2>1, <3>1
      <4> QED
        BY <2>6, <3>1, <4>1 DEF ConnType
    <3>2. CASE ~q.got_close
      BY <1>2, <2>1, <2>6, <3>2
    <3> QED
      BY <3>1, <3>2
  <2>8. Orderly(d)
    BY <1>2, <2>2, <2>7 DEF Orderly
  <2>9. d.slot = c.slot \/ (c.slot = "live" /\ d.slot = "freed" /\ d.wire_close)
    BY <1>2, <2>7
  <2>10. Calm(c, d)
    <3>1. CASE c.wire_close
      <4>1. d.write_q = c.write_q /\ d.wire_close = c.wire_close
        BY <2>2, <2>6, <2>7, <3>1 DEF ConnType
      <4> QED
        BY <2>3, <2>7, <2>8, <2>9, <4>1, CalmNoPacket
    <3>2. CASE ~c.wire_close
      <4>1. d.write_q = Append(c.write_q, m) /\ d.open_confirmed
        BY <2>2, <2>6, <2>7, <3>2
      <4> QED
        BY <2>2, <2>3, <2>4, <2>7, <2>8, <2>9, <4>1, CalmPacket
    <3> QED
      BY <3>1, <3>2
  <2>11. Settled(d)
    BY <2>7 DEF Settled
  <2> QED
    BY <2>10, <2>11 DEF d
<1> QED
  BY <1>1, <1>2

\* send_eof on a channel that is open.
LEMMA SendEofCalm ==
  ASSUME NEW c, Local(c), Orderly(c), Settled(c), c.slot = "live",
         c.open_confirmed
  PROVE  /\ Calm(c, SendEof(c)) /\ Settled(SendEof(c))
         /\ SendEof(c).slot = "live"
<1> DEFINE b == [c EXCEPT !.sent_eof = TRUE]
<1>1. c \in ConnType
  BY ConnNumbers
<1>2. CASE SendEof(c) = c
  BY <1>2, SilentSelf DEF Silent
<1>3. CASE SendEof(c) = EmitEofIfReady(b)
  <2>1. /\ b \in ConnType
        /\ b.write_q = c.write_q
        /\ b.kex_blocks_app = c.kex_blocks_app /\ b.sent_newkeys = c.sent_newkeys
        /\ b.send_window = c.send_window /\ b.recv_window = c.recv_window
        /\ b.in_q = c.in_q /\ b.pending_out = c.pending_out
        /\ b.open_confirmed = c.open_confirmed /\ b.slot = c.slot
        /\ b.remote_id = c.remote_id /\ b.error = c.error
        /\ b.sent_close = c.sent_close /\ b.got_close = c.got_close
        /\ b.wire_close = c.wire_close
    BY <1>1 DEF ConnType
  <2> HIDE DEF b
  <2>2. Local(b)
    BY <2>1, HarmlessFlags, HarmlessLocal
  <2>3. Orderly(b)
    BY <2>1 DEF Orderly
  <2>4. Calm(c, b)
    BY <2>1, <2>2, <2>3, CalmNoPacket
  <2>5. Silent(b, EmitEofIfReady(b))
    BY <2>2, <2>3, EmitEofSilent
  <2>6. Calm(c, EmitEofIfReady(b))
    BY <2>4, <2>5, CalmThen DEF Silent
  <2>7. Settled(EmitEofIfReady(b)) /\ EmitEofIfReady(b).slot = "live"
    BY <2>1, <2>5 DEF Silent, SameFlags, Settled
  <2> QED
    BY <1>3, <2>6, <2>7
<1> QED
  BY <1>2, <1>3 DEF SendEof

\* send_close on a channel that is open.
LEMMA SendCloseCalm ==
  ASSUME NEW c, Local(c), Orderly(c), Settled(c), c.slot = "live",
         c.open_confirmed
  PROVE  Calm(c, SendClose(c)) /\ Settled(SendClose(c))
<1> DEFINE b == [c EXCEPT !.sent_close = TRUE, !.sent_eof = TRUE]
<1>1. c \in ConnType
  BY ConnNumbers
<1>2. CASE SendClose(c) = c
  BY <1>2, SilentSelf DEF Silent
<1>3. CASE SendClose(c) = EmitCloseIfReady(b)
  <2>1. /\ b \in ConnType
        /\ b.write_q = c.write_q
        /\ b.kex_blocks_app = c.kex_blocks_app /\ b.sent_newkeys = c.sent_newkeys
        /\ b.send_window = c.send_window /\ b.recv_window = c.recv_window
        /\ b.in_q = c.in_q /\ b.pending_out = c.pending_out
        /\ b.open_confirmed = c.open_confirmed /\ b.slot = c.slot
        /\ b.remote_id = c.remote_id /\ b.error = c.error
        /\ b.sent_close = TRUE /\ b.got_close = c.got_close
        /\ b.wire_close = c.wire_close
    BY <1>1 DEF ConnType
  <2> HIDE DEF b
  <2>2. Local(b)
    BY <2>1, HarmlessFlags, HarmlessLocal
  <2>3. Orderly(b)
    BY <2>1 DEF Orderly
  <2>4. Calm(c, b)
    BY <2>1, <2>2, <2>3, CalmNoPacket
  <2>5. Calm(b, EmitCloseIfReady(b)) /\ Settled(EmitCloseIfReady(b))
    BY <2>2, <2>3, EmitCloseCalm
  <2> QED
    BY <1>3, <2>4, <2>5, CalmThen
<1> QED
  BY <1>2, <1>3 DEF SendClose

\* on_channel_close on a channel that is open: it is answered, now or when
\* the gate opens.
LEMMA OnChannelCloseCalm ==
  ASSUME NEW c, Local(c), Orderly(c), Settled(c),
         c.slot = "live" => c.open_confirmed
  PROVE  LET d == OnChannelClose(c)
         IN Calm(c, d) /\ Settled(d) /\ (d.slot = "live" => d.got_close)
<1> DEFINE g == [c EXCEPT !.got_close = TRUE, !.got_eof = TRUE]
           b == [g EXCEPT !.sent_close = TRUE, !.sent_eof = TRUE]
           d == OnChannelClose(c)
<1>1. c \in ConnType
  BY ConnNumbers
<1>2. CASE c.slot # "live"
  <2>1. d = c
    BY <1>2 DEF OnChannelClose
  <2> QED
    BY <1>2, <2>1, SilentSelf DEF Silent
<1>3. CASE c.slot = "live"
  <2>1. /\ g \in ConnType /\ g.slot = c.slot /\ g.sent_close = c.sent_close
        /\ g.write_q = c.write_q
        /\ g.kex_blocks_app = c.kex_blocks_app /\ g.sent_newkeys = c.sent_newkeys
        /\ g.send_window = c.send_window /\ g.recv_window = c.recv_window
        /\ g.in_q = c.in_q /\ g.pending_out = c.pending_out
        /\ g.open_confirmed = c.open_confirmed
        /\ g.remote_id = c.remote_id /\ g.error = c.error
        /\ g.got_close = TRUE /\ g.wire_close = c.wire_close
        /\ g.sent_eof = c.sent_eof
    BY <1>1 DEF ConnType
  <2>2. d = IF c.sent_close THEN EmitCloseIfReady(g) ELSE SendClose(g)
    BY <1>3 DEF OnChannelClose
  <2> HIDE DEF g
  <2>3. /\ b \in ConnType /\ b.slot = c.slot /\ b.sent_close = TRUE
        /\ b.write_q = c.write_q
        /\ b.kex_blocks_app = c.kex_blocks_app /\ b.sent_newkeys = c.sent_newkeys
        /\ b.send_window = c.send_window /\ b.recv_window = c.recv_window
        /\ b.in_q = c.in_q /\ b.pending_out = c.pending_out
        /\ b.open_confirmed = c.open_confirmed
        /\ b.remote_id = c.remote_id /\ b.error = c.error
        /\ b.got_close = TRUE /\ b.wire_close = c.wire_close
    BY <2>1 DEF ConnType
  <2>4. ~c.sent_close => SendClose(g) = EmitCloseIfReady(b)
    BY <1>3, <2>1 DEF SendClose
  <2> HIDE DEF b
  <2>5. Local(g) /\ Local(b)
    BY <2>1, <2>3, HarmlessFlags, HarmlessLocal
  <2>6. Orderly(b) /\ (c.sent_close => Orderly(g))
    BY <1>3, <2>1, <2>3 DEF Orderly
  <2>7. PICK x \in {g, b} : d = EmitCloseIfReady(x) /\ Orderly(x)
    BY <2>2, <2>4, <2>6
  <2> HIDE DEF d
  <2>8. Local(x) /\ x.got_close
    BY <2>1, <2>3, <2>5
  <2>9. Calm(c, x)
    BY <2>1, <2>3, <2>7, <2>8, CalmNoPacket
  <2>10. Calm(x, d) /\ Settled(d)
    BY <2>7, <2>8, EmitCloseCalm
  <2>11. Calm(c, d) /\ d.got_close
    BY <2>8, <2>9, <2>10, CalmThen DEF Calm
  <2> QED
    BY <2>10, <2>11 DEF d
<1> QED
  BY <1>2, <1>3

\* A packet of the exchange is queued.
LEMMA QueueKexCalm ==
  ASSUME NEW c, Local(c), Orderly(c), Settled(c),
         NEW t \in {"ECDH_INIT", "ECDH_REPLY"}
  PROVE  Calm(c, Queue(c, Kex(t))) /\ Settled(Queue(c, Kex(t)))
<1>1. c \in ConnType /\ t \in KexTypes /\ t # "DATA"
  BY ConnNumbers DEF KexTypes
<1>2. Kex(t) \in Packet /\ Kex(t).t = t
  BY <1>1, KexPacket
<1>3. Local(Queue(c, Kex(t)))
  BY QueueKexHarmless, HarmlessLocal
<1>4. t \in QuietTypes /\ SameFlags(c, c)
  BY <1>1 DEF QuietTypes, SameFlags
<1>5. Silent(c, Queue(c, Kex(t)))
  BY <1>1, <1>2, <1>3, <1>4, SilentQueue
<1> QED
  BY <1>5 DEF Silent, SameFlags, Settled

\* start_kex shuts the gate and queues KEXINIT.
LEMMA StartKexCalm ==
  ASSUME NEW c, Local(c), Orderly(c)
  PROVE  /\ Calm(c, StartKex(c)) /\ Settled(StartKex(c))
         /\ StartKex(c).error = c.error
<1> DEFINE b == [c EXCEPT !.sent_kexinit = TRUE, !.sent_newkeys = FALSE,
                          !.recv_newkeys = FALSE, !.kex_blocks_app = TRUE]
           m == Kex("KEXINIT")
           d == StartKex(c)
<1>1. c \in ConnType /\ "KEXINIT" \in KexTypes
  BY ConnNumbers DEF KexTypes
<1>2. m \in Packet /\ m.t = "KEXINIT" /\ m.t # "DATA"
  BY <1>1, KexPacket
<1>3. d = Queue(b, m)
  BY DEF StartKex
<1>4. Local(d)
  BY StartKexHarmless, HarmlessLocal
<1> HIDE DEF m
<1>5. /\ b \in ConnType /\ SameFlags(c, b)
      /\ b.write_q = c.write_q /\ b.kex_blocks_app = TRUE
  BY <1>1 DEF ConnType, SameFlags
<1> HIDE DEF b
<1>6. /\ SameFlags(b, d) /\ d.kex_blocks_app = TRUE
      /\ d.write_q = Append(c.write_q, m)
  BY <1>2, <1>3, <1>5, QueueFlags
<1> HIDE DEF d
<1>7. SameFlags(c, d)
  BY <1>5, <1>6 DEF SameFlags
<1>8. Orderly(d)
  BY <1>7, OrderlySame
<1>9. m.t \in QuietTypes
  BY <1>1, <1>2 DEF QuietTypes
<1>10. Calm(c, d)
  BY <1>1, <1>2, <1>4, <1>6, <1>7, <1>8, <1>9, CalmPacket DEF SameFlags
<1> QED
  BY <1>6, <1>7, <1>10 DEF Settled, SameFlags, d

\* flush_post_rekey, with the gate open, answers the CLOSE that waited.
LEMMA FlushPostRekeyCalm ==
  ASSUME NEW c, Local(c), Orderly(c)
  PROVE  Calm(c, FlushPostRekey(c)) /\ Settled(FlushPostRekey(c))
<1> DEFINE x == MaybeAdjust(c)
           y == FlushPending(x)
           z == EmitEofIfReady(y)
           w == EmitCloseIfReady(z)
<1>1. FlushPostRekey(c) = w
  BY DEF FlushPostRekey
<1>2. Silent(c, x)
  BY ConnNumbers, MaybeAdjustHarmless, HarmlessLocal, MaybeAdjustSilent
<1> HIDE DEF x
<1>3. Silent(c, y)
  BY <1>2, SilentSound, FlushPendingSilent, SilentThen
<1> HIDE DEF y
<1>4. Silent(c, z)
  BY <1>3, SilentSound, EmitEofSilent, SilentThen
<1> HIDE DEF z
<1>5. Calm(z, w) /\ Settled(w)
  BY <1>4, SilentSound, EmitCloseCalm
<1> HIDE DEF w
<1>6. Calm(c, w)
  BY <1>4, <1>5, CalmThen DEF Silent
<1> QED
  BY <1>1, <1>5, <1>6

\* The gate opens, and what it held back is sent.
LEMMA TryCompleteKexCalm ==
  ASSUME NEW c, Local(c), Orderly(c), Settled(c)
  PROVE  Calm(c, TryCompleteKex(c)) /\ Settled(TryCompleteKex(c))
<1> DEFINE b == [c EXCEPT !.sent_kexinit = FALSE, !.kex_blocks_app = FALSE]
<1>1. c \in ConnType
  BY ConnNumbers
<1>2. \/ TryCompleteKex(c) = c
      \/ c.sent_newkeys /\ TryCompleteKex(c) = FlushPostRekey(b)
  BY <1>1 DEF TryCompleteKex, ConnType
<1>3. /\ b \in ConnType /\ SameFlags(c, b)
      /\ b.write_q = c.write_q /\ b.sent_newkeys = c.sent_newkeys
      /\ b.send_window = c.send_window /\ b.recv_window = c.recv_window
      /\ b.in_q = c.in_q /\ b.pending_out = c.pending_out
      /\ b.open_confirmed = c.open_confirmed /\ b.slot = c.slot
  BY <1>1 DEF ConnType, SameFlags
<1> HIDE DEF b
<1>4. ASSUME c.sent_newkeys
      PROVE  Calm(c, FlushPostRekey(b)) /\ Settled(FlushPostRekey(b))
  <2>1. Local(b)
    BY <1>3, <1>4, HarmlessFlags, HarmlessLocal
  <2>2. Orderly(b)
    BY <1>3, OrderlySame
  <2>3. Calm(c, b)
    BY <1>3, <2>1, <2>2, CalmNoPacket DEF SameFlags
  <2> QED
    BY <2>1, <2>2, <2>3, FlushPostRekeyCalm, CalmThen
<1>5. Calm(c, c)
  BY SilentSelf DEF Silent
<1> QED
  BY <1>2, <1>4, <1>5

\* send_newkeys may complete the exchange.
LEMMA SendNewkeysCalm ==
  ASSUME NEW c, Local(c), Orderly(c), Settled(c)
  PROVE  Calm(c, SendNewkeys(c)) /\ Settled(SendNewkeys(c))
<1> DEFINE m == Kex("NEWKEYS")
           q == Queue(c, m)
           d == [q EXCEPT !.sent_newkeys = TRUE]
<1>1. c \in ConnType /\ "NEWKEYS" \in KexTypes
  BY ConnNumbers DEF KexTypes
<1>2. m \in Packet /\ m.t = "NEWKEYS" /\ m.t # "DATA"
  BY <1>1, KexPacket
<1>3. SendNewkeys(c) = TryCompleteKex(d)
  BY DEF SendNewkeys
<1> HIDE DEF m
<1>4. /\ q \in ConnType /\ SameFlags(c, q)
      /\ q.slot = c.slot /\ q.open_confirmed = c.open_confirmed
      /\ q.send_window = c.send_window /\ q.recv_window = c.recv_window
      /\ q.in_q = c.in_q /\ q.pending_out = c.pending_out
      /\ q.kex_blocks_app = c.kex_blocks_app
      /\ q.write_q = Append(c.write_q, m)
  BY <1>1, <1>2, QueueFields, QueueFlags
<1> HIDE DEF q
<1>5. /\ d \in ConnType /\ SameFlags(q, d)
      /\ d.slot = q.slot /\ d.open_confirmed = q.open_confirmed
      /\ d.send_window = q.send_window /\ d.recv_window = q.recv_window
      /\ d.in_q = q.in_q /\ d.pending_out = q.pending_out
      /\ d.kex_blocks_app = q.kex_blocks_app
      /\ d.write_q = q.write_q
  BY <1>4 DEF ConnType, SameFlags
<1> HIDE DEF d
<1>6. Local(d)
  BY <1>1, <1>4, <1>5, HarmlessKex, HarmlessLocal DEF m
<1>7. SameFlags(c, d) /\ d.write_q = Append(c.write_q, m)
      /\ d.kex_blocks_app = c.kex_blocks_app
  BY <1>4, <1>5 DEF SameFlags
<1>8. Orderly(d) /\ Settled(d)
  BY <1>7, OrderlySame DEF Settled, SameFlags
<1>9. m.t \in QuietTypes
  BY <1>1, <1>2 DEF QuietTypes
<1>10. Calm(c, d)
  BY <1>1, <1>2, <1>6, <1>7, <1>8, <1>9, CalmPacket DEF SameFlags
<1> QED
  BY <1>3, <1>6, <1>8, <1>10, TryCompleteKexCalm, CalmThen

\* on_kexinit answers with our own KEXINIT.
LEMMA OnKexinitCalm ==
  ASSUME NEW e, NEW c, Local(c), Orderly(c), Settled(c)
  PROVE  Calm(c, OnKexinit(e, c)) /\ Settled(OnKexinit(e, c))
<1> DEFINE k == IF c.sent_kexinit THEN c ELSE StartKex(c)
           d == Queue(k, Kex("ECDH_INIT"))
<1>1. OnKexinit(e, c) = k \/ OnKexinit(e, c) = d
  BY DEF OnKexinit
<1>2. Calm(c, k) /\ Settled(k)
  BY SilentSelf, StartKexCalm DEF Silent
<1> HIDE DEF k
<1>3. Local(k) /\ Orderly(k)
  BY <1>2 DEF Calm
<1>4. Calm(k, d) /\ Settled(d)
  BY <1>2, <1>3, QueueKexCalm
<1> HIDE DEF d
<1>5. Calm(c, d)
  BY <1>2, <1>4, CalmThen
<1> QED
  BY <1>1, <1>2, <1>4, <1>5

\* on_newkeys may complete the exchange.
LEMMA OnNewkeysCalm ==
  ASSUME NEW c, Local(c), Orderly(c), Settled(c)
  PROVE  Calm(c, OnNewkeys(c)) /\ Settled(OnNewkeys(c))
<1> DEFINE b == [c EXCEPT !.recv_newkeys = TRUE]
<1>1. c \in ConnType
  BY ConnNumbers
<1>2. OnNewkeys(c) = TryCompleteKex(b)
  BY DEF OnNewkeys
<1>3. /\ b \in ConnType /\ SameFlags(c, b)
      /\ b.write_q = c.write_q
      /\ b.kex_blocks_app = c.kex_blocks_app /\ b.sent_newkeys = c.sent_newkeys
      /\ b.send_window = c.send_window /\ b.recv_window = c.recv_window
      /\ b.in_q = c.in_q /\ b.pending_out = c.pending_out
      /\ b.open_confirmed = c.open_confirmed /\ b.slot = c.slot
  BY <1>1 DEF ConnType, SameFlags
<1> HIDE DEF b
<1>4. Local(b)
  BY <1>3, HarmlessFlags, HarmlessLocal
<1>5. Silent(c, b)
  BY <1>3, <1>4, SilentNoPacket
<1>6. Orderly(b) /\ Settled(b) /\ Calm(c, b)
  BY <1>5 DEF Silent, Calm, Settled, SameFlags
<1> QED
  BY <1>2, <1>4, <1>6, TryCompleteKexCalm, CalmThen

\* A packet that opens, confirms or refuses nothing.
LEMMA HandleCalm ==
  ASSUME NEW e, NEW c, Local(c), Orderly(c), Settled(c), NEW m \in Packet,
         m.t \notin {"OPEN", "CONFIRM", "FAILURE"},
         m.t = "DATA" /\ c.slot = "live" => Len(m.data) <= c.recv_window,
         m.t = "CLOSE" /\ c.slot = "live" => c.open_confirmed
  PROVE  LET d == HandlePayload(e, c, m)
         IN /\ Calm(c, d) /\ Settled(d)
            /\ m.t = "CLOSE" /\ d.slot = "live" => d.got_close
<1> DEFINE d == HandlePayload(e, c, m)
<1>1. CASE c.error
  <2>1. d = c /\ c.slot # "live"
    BY <1>1 DEF HandlePayload, Orderly
  <2> QED
    BY <2>1, SilentSelf DEF Silent
<1>2. CASE ~c.error
  <2>1. m.t \in {"DATA", "ADJUST", "EOF", "CLOSE", "KEXINIT", "ECDH_INIT",
                 "ECDH_REPLY", "NEWKEYS"}
    BY PacketFields DEF GatedTypes, KexTypes
  <2>2. CASE m.t = "DATA"
    <3>1. d = OnChannelData(c, m.data)
      BY <1>2, <2>2 DEF HandlePayload
    <3>2. m.data \in Seq(Nat)
      BY <2>2, PacketFields
    <3> QED
      BY <2>2, <3>1, <3>2, OnChannelDataCalm
  <2>3. CASE m.t = "ADJUST"
    <3>1. d = OnWindowAdjust(c, m.add)
      BY <1>2, <2>3 DEF HandlePayload
    <3>2. m.add \in Nat
      BY <2>3, PacketFields
    <3> QED
      BY <2>3, <3>1, <3>2, OnWindowAdjustCalm
  <2>4. CASE m.t = "EOF"
    <3>1. d = OnChannelEof(c)
      BY <1>2, <2>4 DEF HandlePayload
    <3>2. Silent(c, OnChannelEof(c))
      BY OnChannelEofSilent
    <3> QED
      BY <2>4, <3>1, <3>2 DEF Silent, SameFlags, Settled
  <2>5. CASE m.t = "CLOSE"
    <3>1. d = OnChannelClose(c)
      BY <1>2, <2>5 DEF HandlePayload
    <3> QED
      BY <2>5, <3>1, OnChannelCloseCalm
  <2>6. CASE m.t = "KEXINIT"
    <3>1. d = OnKexinit(e, c)
      BY <1>2, <2>6 DEF HandlePayload
    <3> QED
      BY <2>6, <3>1, OnKexinitCalm
  <2>7. CASE m.t = "ECDH_INIT"
    <3> DEFINE q == Queue(c, Kex("ECDH_REPLY"))
    <3>1. d = SendNewkeys(q)
      BY <1>2, <2>7 DEF HandlePayload
    <3>2. Calm(c, q) /\ Settled(q)
      BY QueueKexCalm
    <3> HIDE DEF q
    <3>3. Local(q) /\ Orderly(q)
      BY <3>2 DEF Calm
    <3>4. Calm(q, SendNewkeys(q)) /\ Settled(SendNewkeys(q))
      BY <3>2, <3>3, SendNewkeysCalm
    <3> QED
      BY <2>7, <3>1, <3>2, <3>4, CalmThen
  <2>8. CASE m.t = "ECDH_REPLY"
    <3>1. d = SendNewkeys(c)
      BY <1>2, <2>8 DEF HandlePayload
    <3> QED
      BY <2>8, <3>1, SendNewkeysCalm
  <2>9. CASE m.t = "NEWKEYS"
    <3>1. d = OnNewkeys(c)
      BY <1>2, <2>9 DEF HandlePayload
    <3> QED
      BY <2>9, <3>1, OnNewkeysCalm
  <2> QED
    BY <2>1, <2>2, <2>3, <2>4, <2>5, <2>6, <2>7, <2>8, <2>9
<1> QED
  BY <1>1, <1>2

-----------------------------------------------------------------------------
(* The fates of the two channels.                                          *)

\* The same for both sides: q is on its way to e, whose connection is c, and
\* r to its peer, whose connection is p.
FatesAt(e, c, p, q, r) ==
  IF e = "client" THEN Fates(c, p, q, r) ELSE Fates(p, c, r, q)

\* A calm change of one side, with what it queues.
LEMMA FatesCalm ==
  ASSUME NEW e, NEW c, NEW d, NEW p, NEW q, NEW r, NEW s,
         FatesAt(e, c, p, q, r), Calm(c, d), Wire(c, d, r, s)
  PROVE  FatesAt(e, d, p, q, s)
<1>1. /\ Orderly(d) /\ (c.error => d.error)
      /\ d.open_confirmed = c.open_confirmed /\ d.remote_id = c.remote_id
      /\ \/ d.slot = c.slot
         \/ c.slot = "live" /\ d.slot = "freed" /\ d.wire_close
      /\ c.wire_close => d.wire_close
      /\ c.got_close => d.got_close
  BY DEF Calm
<1>2. /\ \A t : Carries(r, t) => Carries(s, t)
      /\ Carries(s, "FAILURE") => Carries(r, "FAILURE")
      /\ Carries(s, "CLOSE") => Carries(r, "CLOSE") \/ d.wire_close
      /\ d.wire_close => c.wire_close \/ Carries(s, "CLOSE")
      /\ Announced(c, r) => Announced(d, s)
  BY DEF Wire
<1>3. CASE e = "client"
  <2>1. Fates(c, p, q, r)
    BY <1>3 DEF FatesAt
  <2>2. Fates(d, p, q, s)
    BY <1>1, <1>2, <2>1 DEF Fates, Told
  <2> QED
    BY <1>3, <2>2 DEF FatesAt
<1>4. CASE e # "client"
  <2>1. Fates(p, c, r, q)
    BY <1>4 DEF FatesAt
  <2>2. Fates(p, d, s, q)
    BY <1>1, <1>2, <2>1 DEF Fates, Told
  <2> QED
    BY <1>4, <2>2 DEF FatesAt
<1> QED
  BY <1>3, <1>4

\* The first packet to c leaves the way once c has done what it asks for.
LEMMA FatesLose ==
  ASSUME NEW e, NEW c, NEW p, NEW q \in Seq(Packet), NEW r, q # << >>,
         FatesAt(e, c, p, q, r),
         Head(q).t = "CLOSE" /\ c.slot = "live" => c.got_close,
         Head(q).t = "FAILURE" => c.slot # "live",
         Head(q).t = "CONFIRM" => c.open_confirmed \/ c.error
  PROVE  FatesAt(e, c, p, Tail(q), r)
<1> DEFINE v == Tail(q)
           m == Head(q)
<1>1. /\ \A t : Carries(q, t) <=> m.t = t \/ Carries(v, t)
      /\ Late(q) /\ m.t # "CONFIRM" => Late(v)
  BY CarriesTail
<1>2. /\ m.t = "CLOSE" /\ c.slot = "live" => c.got_close
      /\ m.t = "FAILURE" => c.slot # "live"
      /\ m.t = "CONFIRM" => c.open_confirmed \/ c.error
  OBVIOUS
<1> HIDE DEF v, m
<1>3. CASE e = "client"
  <2>1. Fates(c, p, q, r)
    BY <1>3 DEF FatesAt
  <2>2. ~c.open_confirmed /\ ~c.error => Announced(p, v)
    BY <1>1, <1>2, <2>1 DEF Fates, Announced
  <2>3. Fates(c, p, v, r)
    BY <1>1, <1>2, <2>1, <2>2 DEF Fates, Told
  <2> QED
    BY <1>3, <2>3 DEF FatesAt, v
<1>4. CASE e # "client"
  <2>1. Fates(p, c, r, q)
    BY <1>4 DEF FatesAt
  <2>2. Fates(p, c, r, v)
    BY <1>1, <1>2, <2>1 DEF Fates, Told
  <2> QED
    BY <1>4, <2>2 DEF FatesAt, v
<1> QED
  BY <1>3, <1>4

\* The first packet to c has room in its window, and no CLOSE comes too early.
LEMMA ArrivesInTime ==
  ASSUME NEW e \in Ends, NEW c, NEW p, Local(c), Local(p), Orderly(c), Orderly(p),
         NEW toPeer \in Seq(Packet), NEW toMe \in Seq(Packet),
         NEW left \in Seq(Packet), NEW m \in Packet,
         \A x : Total(x, toMe) = Weight(x, m) + Total(x, left),
         LinkedAt(e, c, p, toMe, toPeer), c.slot = "live",
         NEW q \in Seq(Packet), q # << >>, Head(q) = m, NEW r,
         FatesAt(e, c, p, q, r)
  PROVE  /\ m.t = "DATA" => Len(m.data) <= c.recv_window
         /\ m.t = "CLOSE" => c.open_confirmed
<1>1. ASSUME m.t = "DATA" PROVE Len(m.data) <= c.recv_window
  <2>1. Weight("data", m) = Len(m.data) /\ Accepts(c) = c.recv_window
    BY <1>1 DEF Weight, Accepts
  <2>2. PICK f : Flow(f, p, c, toMe, toPeer)
    BY DEF LinkedAt, Linked
  <2> DEFINE z == p.send_window
             A == Total("data", p.write_q)
             B == Total("data", toMe)
             C == Total("data", left)
             D == Total("credit", toPeer)
             E == Total("credit", c.write_q)
             G == Unopened(f, p)
             n == Weight("data", m)
             w == c.recv_window
  <2>3. /\ z \in Nat /\ A \in Nat /\ B \in Nat /\ C \in Nat /\ D \in Nat
        /\ E \in Nat /\ G \in Nat /\ n \in Nat /\ w \in Nat /\ B = n + C
    BY ConnNumbers, TotalNat, WeightNat, ChannelAssumptions DEF Unopened
  <2>4. z + A + B + D + E + G <= w
    BY <2>1, <2>2 DEF Flow
  <2> HIDE DEF z, A, B, C, D, E, G, n, w
  <2>5. n <= w
    BY ONLY <2>3, <2>4
  <2> QED
    BY <2>1, <2>5 DEF n, w
<1>2. ASSUME m.t = "CLOSE" PROVE c.open_confirmed
  <2>1. Carries(q, "CLOSE") /\ (Late(q) => m.t # "CLOSE")
    BY <1>2, CarriesTail
  <2>2. ~c.error
    BY DEF Orderly
  <2>3. CASE e = "client"
    <3>1. Fates(c, p, q, r)
      BY <2>3 DEF FatesAt
    <3> QED
      BY <1>2, <2>1, <2>2, <3>1 DEF Fates, Announced
  <2>4. CASE e = "server"
    <3>1. Fates(p, c, r, q) /\ OpenedOnce(p, c, toPeer, toMe)
      BY <2>4 DEF FatesAt, LinkedAt, Linked
    <3>2. p.open_confirmed
      BY <2>1, <3>1 DEF Fates, Orderly
    <3> QED
      BY <3>1, <3>2 DEF OpenedOnce
  <2> QED
    BY <2>3, <2>4 DEF Ends
<1> QED
  BY <1>1, <1>2

\* One side in order: what each step keeps of a connection.
Sound(c) == Local(c) /\ Orderly(c) /\ Settled(c)

\* CHANNEL_OPEN reaches the server c.
LEMMA OpenFates ==
  ASSUME NEW c, NEW p, Sound(c), Sound(p), c.slot = "none", ~c.error,
         c.open_confirmed \/ ~p.open_confirmed, NEW q, NEW r,
         FatesAt("server", c, p, q, r), Local(OnChannelOpen(c, 0))
  PROVE  LET d == OnChannelOpen(c, 0)
         IN /\ Sound(d) /\ FatesAt("server", d, p, q, r)
            /\ d.write_q = c.write_q
<1> DEFINE d == OnChannelOpen(c, 0)
<1>1. c \in ConnType
  BY ConnNumbers DEF Sound
<1>2. /\ d.slot = "live" /\ d.remote_id = 0 /\ d.write_q = c.write_q
      /\ d.open_confirmed = c.open_confirmed /\ d.sent_eof = c.sent_eof
      /\ d.sent_close = c.sent_close /\ d.got_close = c.got_close
      /\ d.wire_close = c.wire_close /\ d.error = c.error
      /\ d.kex_blocks_app = c.kex_blocks_app
  BY <1>1 DEF OnChannelOpen, NewChannel, ConnType
<1>3. Local(d) /\ 0 # None
  BY ChannelAssumptions
<1> HIDE DEF d
<1>4. /\ ~c.open_confirmed /\ ~c.sent_eof /\ ~c.sent_close /\ ~c.got_close
      /\ ~c.wire_close /\ ~p.open_confirmed /\ ~p.wire_close
  BY DEF Sound, Orderly
<1>5. Orderly(d) /\ Settled(d)
  BY <1>2, <1>4 DEF Orderly, Settled
<1>6. Fates(p, c, r, q)
  BY DEF FatesAt
<1>7. Fates(p, d, r, q)
  BY <1>2, <1>3, <1>4, <1>6 DEF Fates, Told, Announced
<1> QED
  BY <1>2, <1>3, <1>5, <1>7 DEF Sound, FatesAt, d

\* OPEN_CONFIRMATION reaches the client c.
LEMMA ConfirmFates ==
  ASSUME NEW c, NEW p, Sound(c), ~c.error, NEW N \in Seq(Packet), NEW q,
         FatesAt("client", c, p, q, N \o c.write_q)
  PROVE  LET d == OnOpenConfirm(c, 0)
         IN /\ Sound(d) /\ FatesAt("client", d, p, q, N \o d.write_q)
            /\ d.open_confirmed \/ d.error
<1>1. c \in ConnType /\ Local(c) /\ Orderly(c) /\ Settled(c)
  BY ConnNumbers DEF Sound
<1>2. CASE c.slot # "live"
  <2> DEFINE d == Fail(c)
  <2>1. OnOpenConfirm(c, 0) = d
    BY <1>2 DEF OnOpenConfirm
  <2>2. Calm(c, d)
    BY <1>1, <1>2, FailCalm
  <2>3. d.error /\ d.slot = c.slot
    BY <1>1 DEF Fail, ConnType
  <2> HIDE DEF d
  <2>4. Wire(c, d, N \o c.write_q, N \o d.write_q) /\ Local(d) /\ Orderly(d)
    BY <2>2 DEF Calm
  <2>5. FatesAt("client", d, p, q, N \o d.write_q)
    BY <2>2, <2>4, FatesCalm
  <2>6. Settled(d)
    BY <1>2, <2>3 DEF Settled
  <2> QED
    BY <2>1, <2>3, <2>4, <2>5, <2>6 DEF Sound
<1>3. CASE c.slot = "live"
  <2> DEFINE b == [c EXCEPT !.remote_id = 0, !.send_window = Window,
                            !.open_confirmed = TRUE]
             d == FlushPending(b)
  <2>1. OnOpenConfirm(c, 0) = d
    BY <1>3 DEF OnOpenConfirm
  <2>2. Window \in Nat /\ 0 \in Remote /\ 0 # None
    BY ChannelAssumptions DEF Remote
  <2>3. /\ b \in ConnType
        /\ b.write_q = c.write_q
        /\ b.kex_blocks_app = c.kex_blocks_app
        /\ b.recv_window = c.recv_window
        /\ b.in_q = c.in_q /\ b.pending_out = c.pending_out
        /\ b.open_confirmed = TRUE /\ b.slot = "live" /\ b.remote_id = 0
        /\ b.sent_eof = c.sent_eof /\ b.sent_close = c.sent_close
        /\ b.got_close = c.got_close /\ b.wire_close = c.wire_close
        /\ b.error = c.error
    BY <1>1, <1>3, <2>2 DEF ConnType
  <2> HIDE DEF b
  <2>4. Local(b)
    BY <1>1, <2>3 DEF Local, Bounded, Fresh, InBytes, PendBytes
  <2>5. Orderly(b) /\ Settled(b)
    BY <1>1, <1>3, <2>2, <2>3 DEF Orderly, Settled
  <2>6. FatesAt("client", b, p, q, N \o b.write_q)
    <3> DEFINE r == N \o c.write_q
    <3>1. Fates(c, p, q, r)
      BY DEF FatesAt
    <3> HIDE DEF r
    <3>2. Fates(b, p, q, r)
      BY <1>3, <2>3, <3>1 DEF Fates, Told
    <3> QED
      BY <2>3, <3>2 DEF FatesAt, r
  <2>7. Silent(b, d)
    BY <2>4, <2>5, FlushPendingSilent
  <2> HIDE DEF d
  <2>8. /\ Calm(b, d) /\ Wire(b, d, N \o b.write_q, N \o d.write_q)
        /\ Local(d) /\ Orderly(d) /\ d.open_confirmed /\ Settled(d)
    BY <2>3, <2>5, <2>7 DEF Silent, Calm, SameFlags, Settled
  <2>9. FatesAt("client", d, p, q, N \o d.write_q)
    BY <2>6, <2>8, FatesCalm
  <2> QED
    BY <2>1, <2>8, <2>9 DEF Sound
<1> QED
  BY <1>2, <1>3

\* OPEN_FAILURE reaches the client c.
LEMMA FailureFates ==
  ASSUME NEW c, NEW p, Sound(c), NEW q, NEW r, Carries(q, "FAILURE"),
         FatesAt("client", c, p, q, r)
  PROVE  LET d == OnOpenFail(c)
         IN /\ Sound(d) /\ FatesAt("client", d, p, q, r)
            /\ d.write_q = c.write_q /\ d.slot # "live"
<1> DEFINE d == OnOpenFail(c)
<1>1. c \in ConnType /\ Local(c) /\ Orderly(c)
  BY ConnNumbers DEF Sound
<1>2. CASE c.slot # "live"
  <2>1. d = c
    BY <1>2 DEF OnOpenFail
  <2> QED
    BY <1>2, <2>1
<1>3. CASE c.slot = "live"
  <2>1. d = [c EXCEPT !.slot = "freed"]
    BY <1>3 DEF OnOpenFail
  <2>2. Local(d)
    BY <1>1, OpenFailedHarmless, HarmlessLocal
  <2> HIDE DEF d
  <2>3. /\ d.slot = "freed" /\ d.remote_id = c.remote_id /\ d.write_q = c.write_q
        /\ d.open_confirmed = c.open_confirmed /\ d.sent_eof = c.sent_eof
        /\ d.sent_close = c.sent_close /\ d.got_close = c.got_close
        /\ d.wire_close = c.wire_close /\ d.error = c.error
    BY <1>1, <2>1 DEF ConnType
  <2>4. Orderly(d) /\ Settled(d)
    BY <1>1, <2>3 DEF Orderly, Settled
  <2>5. Fates(c, p, q, r)
    BY DEF FatesAt
  <2>6. Fates(d, p, q, r)
    BY <2>3, <2>5 DEF Fates, Told
  <2> QED
    BY <2>2, <2>3, <2>4, <2>6 DEF Sound, FatesAt, d
<1> QED
  BY <1>2, <1>3

\* What the totals say of a packet that opens or confirms.
LEMMA OnceOnly ==
  ASSUME NEW e \in Ends, NEW c, NEW p, Local(c), Local(p),
         NEW toPeer \in Seq(Packet), NEW toMe \in Seq(Packet),
         NEW left \in Seq(Packet), NEW m \in Packet,
         \A x : Total(x, toMe) = Weight(x, m) + Total(x, left),
         LinkedAt(e, c, p, toMe, toPeer)
  PROVE  /\ m.t = "OPEN" => /\ e = "server" /\ c.slot = "none"
                            /\ c.open_confirmed \/ ~p.open_confirmed
         /\ m.t = "CONFIRM" => e = "client"
<1>1. \A x : /\ Total(x, left) \in Nat /\ Total(x, toMe) \in Nat
  BY TotalNat
<1>2. ASSUME m.t = "OPEN"
      PROVE  e = "server" /\ c.slot = "none" /\ (c.open_confirmed \/ ~p.open_confirmed)
  <2> DEFINE A == Total("OPEN", toMe)
             B == Total("OPEN", p.write_q)
  <2>1. Weight("OPEN", m) = 1
    BY <1>2 DEF Weight
  <2>2. A \in Nat /\ A # 0 /\ B \in Nat
    <3>1. p.write_q \in Seq(Packet)
      BY ConnNumbers
    <3>2. B \in Nat
      BY <3>1, TotalNat
    <3>3. A \in Nat /\ A = 1 + Total("OPEN", left) /\ Total("OPEN", left) \in Nat
      BY <1>1, <2>1
    <3> HIDE DEF A, B
    <3> QED
      BY <3>2, <3>3
  <2>3. e = "server"
    BY <2>2 DEF Ends, LinkedAt, Linked, OpenedOnce
  <2>4. /\ A + B <= 1 /\ (A + B = 1 => c.slot = "none")
        /\ ~c.open_confirmed => ~p.open_confirmed
    BY <2>3 DEF LinkedAt, Linked, OpenedOnce
  <2> HIDE DEF A, B
  <2>5. c.slot = "none"
    BY <2>2, <2>4
  <2> QED
    BY <2>3, <2>4, <2>5
<1>3. ASSUME m.t = "CONFIRM" PROVE e = "client"
  <2>1. Weight("CONFIRM", m) = 1
    BY <1>3 DEF Weight
  <2>2. Total("CONFIRM", toMe) # 0
    BY <1>1, <2>1
  <2> QED
    BY <2>2 DEF Ends, LinkedAt, Linked, OpenedOnce
<1> QED
  BY <1>2, <1>3

\* One packet from the peer.
LEMMA HandleFates ==
  ASSUME NEW e \in Ends, NEW c, NEW p, Sound(c), Sound(p),
         NEW toPeer \in Seq(Packet), NEW toMe \in Seq(Packet),
         NEW left \in Seq(Packet), NEW m \in Packet,
         \A x : Total(x, toMe) = Weight(x, m) + Total(x, left),
         LinkedAt(e, c, p, toMe, toPeer),
         NEW q \in Seq(Packet), q # << >>, Head(q) = m,
         FatesAt(e, c, p, q, toPeer \o c.write_q)
  PROVE  LET d == HandlePayload(e, c, m)
         IN Sound(d) /\ FatesAt(e, d, p, Tail(q), toPeer \o d.write_q)
<1> DEFINE d == HandlePayload(e, c, m)
<1>1. /\ Local(c) /\ Orderly(c) /\ Settled(c) /\ Local(p) /\ Orderly(p)
      /\ c \in ConnType
  BY ConnNumbers DEF Sound
<1>2. Carries(q, m.t)
  BY CarriesTail
<1>3. m.t = "OPEN" => /\ e = "server" /\ c.slot = "none"
                      /\ c.open_confirmed \/ ~p.open_confirmed
  BY <1>1, OnceOnly
<1>4. m.t = "CONFIRM" => e = "client"
  BY <1>1, OnceOnly
<1>5. SUFFICES /\ Sound(d) /\ FatesAt(e, d, p, q, toPeer \o d.write_q)
               /\ m.t = "CLOSE" /\ d.slot = "live" => d.got_close
               /\ m.t = "FAILURE" => d.slot # "live"
               /\ m.t = "CONFIRM" => d.open_confirmed \/ d.error
  <2> HIDE DEF d
  <2>1. FatesAt(e, d, p, Tail(q), toPeer \o d.write_q)
    BY <1>5, FatesLose
  <2> QED
    BY <1>5, <2>1 DEF d
<1>6. CASE c.error
  <2>1. d = c /\ c.slot # "live"
    BY <1>1, <1>6 DEF HandlePayload, Orderly
  <2> QED
    BY <1>6, <2>1
<1>7. CASE ~c.error /\ m.t \notin {"OPEN", "CONFIRM", "FAILURE"}
  <2>1. /\ m.t = "DATA" /\ c.slot = "live" => Len(m.data) <= c.recv_window
        /\ m.t = "CLOSE" /\ c.slot = "live" => c.open_confirmed
    <3> DEFINE r == toPeer \o c.write_q
    <3>1. FatesAt(e, c, p, q, r)
      OBVIOUS
    <3> HIDE DEF r
    <3> QED
      BY <1>1, <3>1, ArrivesInTime
  <2>2. /\ Calm(c, d) /\ Settled(d)
        /\ m.t = "CLOSE" /\ d.slot = "live" => d.got_close
    BY <1>1, <1>7, <2>1, HandleCalm
  <2> HIDE DEF d
  <2>3. Wire(c, d, toPeer \o c.write_q, toPeer \o d.write_q)
        /\ Local(d) /\ Orderly(d)
    BY <2>2 DEF Calm
  <2>4. FatesAt(e, d, p, q, toPeer \o d.write_q)
    BY <2>2, <2>3, FatesCalm
  <2> QED
    BY <1>7, <2>2, <2>3, <2>4 DEF Sound
<1>8. CASE ~c.error /\ m.t = "OPEN"
  <2>1. m.from = 0
    BY <1>8, PacketFields
  <2>2. d = OnChannelOpen(c, 0)
    BY <1>8, <2>1 DEF HandlePayload
  <2>3. Local(d)
    BY <1>1, HandleLinks DEF Keeps
  <2> HIDE DEF d
  <2>4. Sound(d) /\ FatesAt(e, d, p, q, toPeer \o c.write_q)
        /\ d.write_q = c.write_q
    BY <1>3, <1>8, <2>2, <2>3, OpenFates
  <2> QED
    BY <1>8, <2>4
<1>9. CASE ~c.error /\ m.t = "CONFIRM"
  <2>1. m.from = 0
    BY <1>9, PacketFields
  <2>2. d = OnOpenConfirm(c, 0)
    BY <1>9, <2>1 DEF HandlePayload
  <2> HIDE DEF d
  <2>3. /\ Sound(d) /\ FatesAt(e, d, p, q, toPeer \o d.write_q)
        /\ d.open_confirmed \/ d.error
    BY <1>4, <1>9, <2>2, ConfirmFates
  <2> QED
    BY <1>9, <2>3
<1>10. CASE ~c.error /\ m.t = "FAILURE"
  <2>1. d = OnOpenFail(c)
    BY <1>10 DEF HandlePayload
  <2> HIDE DEF d
  <2>2. Carries(q, "FAILURE")
    BY <1>2, <1>10
  <2>3. e = "client"
    BY <2>2 DEF Ends, FatesAt, Fates
  <2>4. /\ Sound(d) /\ FatesAt(e, d, p, q, toPeer \o c.write_q)
        /\ d.write_q = c.write_q /\ d.slot # "live"
    BY <2>1, <2>2, <2>3, FailureFates
  <2> QED
    BY <1>10, <2>4
<1> QED
  BY <1>6, <1>7, <1>8, <1>9, <1>10

\* The first packet of two queues, one behind the other.
LEMMA HeadOfConcat ==
  ASSUME NEW q \in Seq(Packet), NEW w \in Seq(Packet), q # << >>
  PROVE  /\ q \o w \in Seq(Packet) /\ q \o w # << >>
         /\ Head(q \o w) = Head(q) /\ Tail(q \o w) = Tail(q) \o w
<1> DEFINE m == Head(q)
           v == Tail(q)
           z == v \o w
<1>1. m \in Packet /\ v \in Seq(Packet) /\ q = <<m>> \o v
  OBVIOUS
<1> HIDE DEF m, v
<1>2. z \in Seq(Packet) /\ q \o w = <<m>> \o z
  BY <1>1
<1> HIDE DEF z
<1>3. /\ <<m>> \o z \in Seq(Packet) /\ <<m>> \o z # << >>
      /\ Head(<<m>> \o z) = m /\ Tail(<<m>> \o z) = z
  BY <1>1, <1>2
<1> QED
  BY <1>2, <1>3 DEF m, v, z

\* All the packets a read completes; w waits behind them.
LEMMA BatchFates ==
  ASSUME NEW e \in Ends, NEW c, NEW p, Sound(c), Sound(p),
         NEW toPeer \in Seq(Packet), NEW toMe \in Seq(Packet),
         NEW k \in 0 .. Len(toMe), LinkedAt(e, c, p, toMe, toPeer),
         FatesAt(e, c, p, toMe \o p.write_q, toPeer \o c.write_q)
  PROVE  LET d == HF!Fold(e, c, SubSeq(toMe, 1, k))
             left == SubSeq(toMe, k + 1, Len(toMe))
         IN Sound(d) /\ FatesAt(e, d, p, left \o p.write_q, toPeer \o d.write_q)
<1> DEFINE q == SubSeq(toMe, 1, k)
           w == p.write_q
           R(i) == SubSeq(toMe, i + 1, Len(toMe))
<1>0. w \in Seq(Packet) /\ Local(p) /\ Local(c)
  BY ConnNumbers DEF Sound
<1>1. /\ k \in Nat /\ Len(toMe) \in Nat /\ DOMAIN q = 1 .. k
      /\ \A i \in 1 .. k : q[i] = toMe[i]
  OBVIOUS
<1>2. R(0) = toMe
  BY <1>1
<1>3. ASSUME NEW i \in 1 .. k
      PROVE  /\ R(i - 1) \in Seq(Packet) /\ R(i) \in Seq(Packet)
             /\ toMe[i] \in Packet /\ R(i - 1) # << >>
             /\ Head(R(i - 1)) = toMe[i] /\ Tail(R(i - 1)) = R(i)
             /\ \A x : Total(x, R(i - 1)) = Weight(x, toMe[i]) + Total(x, R(i))
  <2>1. R(i - 1) \in Seq(Packet) /\ R(i) \in Seq(Packet) /\ toMe[i] \in Packet
    BY <1>1
  <2>2. R(i - 1) # << >> /\ Head(R(i - 1)) = toMe[i] /\ Tail(R(i - 1)) = R(i)
    BY <1>1, NextOf
  <2> HIDE DEF R
  <2> QED
    BY <2>1, <2>2, TotalHeadTail
<1> HIDE DEF q, R, w
<1>4. PICK g : HF!IsChain(g, e, c, q, k) /\ HF!Fold(e, c, q) = g[k]
  BY <1>1, HF!FoldChain
<1>5. g[0] = c /\ \A i \in 1 .. k : g[i] = HandlePayload(e, g[i - 1], toMe[i])
  BY <1>1, <1>4 DEF HF!IsChain
<1> DEFINE T == {i \in 0 .. k :
                   /\ Sound(g[i]) /\ LinkedAt(e, g[i], p, R(i), toPeer)
                   /\ FatesAt(e, g[i], p, R(i) \o w, toPeer \o g[i].write_q)}
<1>6. 0 \in T
  BY <1>1, <1>2, <1>5 DEF w
<1>7. ASSUME NEW i \in 1 .. k, i - 1 \in T PROVE i \in T
  <2> DEFINE a == g[i - 1]
             h == R(i - 1)
             l == R(i)
             m == toMe[i]
             z == h \o w
  <2>1. /\ h \in Seq(Packet) /\ l \in Seq(Packet) /\ m \in Packet
        /\ h # << >> /\ Head(h) = m /\ Tail(h) = l
        /\ \A x : Total(x, h) = Weight(x, m) + Total(x, l)
    BY <1>3
  <2>2. /\ Sound(a) /\ LinkedAt(e, a, p, h, toPeer)
        /\ FatesAt(e, a, p, z, toPeer \o a.write_q)
        /\ g[i] = HandlePayload(e, a, m)
    BY <1>5, <1>7
  <2> HIDE DEF a, h, l, m
  <2>3. z \in Seq(Packet) /\ z # << >> /\ Head(z) = m /\ Tail(z) = l \o w
    BY <1>0, <2>1, HeadOfConcat
  <2> HIDE DEF z
  <2>4. Local(a)
    BY <2>2 DEF Sound
  <2>5. LinkedAt(e, g[i], p, l, toPeer)
    BY <1>0, <2>1, <2>2, <2>4, HandleLinks
  <2>6. Sound(g[i]) /\ FatesAt(e, g[i], p, Tail(z), toPeer \o g[i].write_q)
    BY <2>1, <2>2, <2>3, HandleFates
  <2>7. i \in 0 .. k
    BY <1>1
  <2>8. FatesAt(e, g[i], p, R(i) \o w, toPeer \o g[i].write_q)
    BY <2>3, <2>6 DEF l
  <2>9. LinkedAt(e, g[i], p, R(i), toPeer)
    BY <2>5 DEF l
  <2> QED
    BY Zenon, <2>6, <2>7, <2>8, <2>9
<1> HIDE DEF T
<1>8. k \in T
  <2>1. k \in Nat /\ 0 \in T
    BY <1>1, <1>6
  <2>2. \A i \in 1 .. k : i - 1 \in T => i \in T
    BY <1>7
  <2>3. 0 .. k \subseteq T
    BY ONLY <2>1, <2>2, IntervalInduction
  <2>4. k \in 0 .. k
    BY <2>1
  <2> QED
    BY <2>3, <2>4
<1> QED
  BY <1>4, <1>8 DEF T, q, R, w

-----------------------------------------------------------------------------
(* The invariant is inductive.                                             *)

\* The invariant of the fates, seen from one side.
LEMMA FateInvAt ==
  ASSUME NEW e \in Ends, LinkInv, FateInv
  PROVE  /\ Sound(conn[e]) /\ Sound(conn[Peer(e)])
         /\ net[e] \in Seq(Packet) /\ net[Peer(e)] \in Seq(Packet)
         /\ conn[e].write_q \in Seq(Packet)
         /\ LinkedAt(e, conn[e], conn[Peer(e)], net[e], net[Peer(e)])
         /\ FatesAt(e, conn[e], conn[Peer(e)], net[e] \o conn[Peer(e)].write_q,
                    net[Peer(e)] \o conn[e].write_q)
<1>1. Peer(e) \in Ends
  BY PeerFacts
<1>2. Sound(conn[e]) /\ Sound(conn[Peer(e)])
  BY <1>1, LinkInvAt DEF FateInv, Sound
<1>3. FatesAt(e, conn[e], conn[Peer(e)], net[e] \o conn[Peer(e)].write_q,
              net[Peer(e)] \o conn[e].write_q)
  <2>1. Fates(conn["client"], conn["server"], net["client"] \o conn["server"].write_q,
              net["server"] \o conn["client"].write_q)
    BY PeerFacts DEF FateInv, Toward
  <2>2. CASE e = "client"
    BY <2>1, <2>2, PeerFacts DEF FatesAt
  <2>3. CASE e = "server"
    BY <2>1, <2>3, PeerFacts DEF FatesAt
  <2> QED
    BY <2>2, <2>3, PeerFacts
<1>4. conn[e].write_q \in Seq(Packet)
  BY LinkInvAt, ConnNumbers
<1> QED
  BY <1>2, <1>3, <1>4, LinkInvAt

\* A step after which side e has the connection d, N is on its way to it and
\* M to its peer.
LEMMA FateStep ==
  ASSUME NEW e \in Ends, LinkInv, FateInv, NEW d, Orderly(d), Settled(d),
         NEW N, NEW M, conn' = [conn EXCEPT ![e] = d],
         net' = [net EXCEPT ![e] = N, ![Peer(e)] = M],
         FatesAt(e, d, conn[Peer(e)], N \o conn[Peer(e)].write_q, M \o d.write_q)
  PROVE  FateInv'
<1> DEFINE p == Peer(e)
<1>1. /\ p \in Ends /\ p # e /\ Peer(p) = e
      /\ \A f \in Ends : f = e \/ f = p
  BY PeerFacts
<1>2. conn \in [Ends -> ConnType] /\ net \in [Ends -> Seq(Packet)]
  BY DEF LinkInv
<1> HIDE DEF p
<1>3. /\ conn'[e] = d /\ conn'[p] = conn[p]
      /\ net'[e] = N /\ net'[p] = M
  BY <1>1, <1>2 DEF p
<1>4. \A f \in Ends : Orderly(conn'[f]) /\ Settled(conn'[f])
  BY <1>1, <1>3 DEF FateInv
<1>5. FatesAt(e, conn'[e], conn'[p], net'[e] \o conn'[p].write_q,
              net'[p] \o conn'[e].write_q)
  BY <1>3 DEF p
<1>6. Fates(conn'["client"], conn'["server"],
            net'["client"] \o conn'["server"].write_q,
            net'["server"] \o conn'["client"].write_q)
  <2>1. CASE e = "client"
    BY <1>5, <2>1, PeerFacts DEF FatesAt, p
  <2>2. CASE e = "server"
    BY <1>5, <2>2, PeerFacts DEF FatesAt, p
  <2> QED
    BY <2>1, <2>2, PeerFacts
<1> QED
  BY <1>4, <1>6, PeerFacts DEF FateInv, Toward

\* A call of side e's application.
LEMMA FateCall ==
  ASSUME NEW e \in Ends, LinkInv, FateInv, NEW d, Orderly(d), Settled(d),
         conn' = [conn EXCEPT ![e] = d], net' = net,
         FatesAt(e, d, conn[Peer(e)], net[e] \o conn[Peer(e)].write_q,
                 net[Peer(e)] \o d.write_q)
  PROVE  FateInv'
<1>1. net \in [Ends -> Seq(Packet)] /\ Peer(e) \in Ends
  BY PeerFacts DEF LinkInv
<1>2. net' = [net EXCEPT ![e] = net[e], ![Peer(e)] = net[Peer(e)]]
  BY <1>1
<1> QED
  BY <1>2, FateStep

\* A calm call.
LEMMA CalmCall ==
  ASSUME NEW e \in Ends, LinkInv, FateInv, NEW d, Calm(conn[e], d), Settled(d),
         conn' = [conn EXCEPT ![e] = d], net' = net
  PROVE  FateInv'
<1> DEFINE c == conn[e]
           p == conn[Peer(e)]
           q == net[e] \o p.write_q
           N == net[Peer(e)]
<1>1. N \in Seq(Packet) /\ FatesAt(e, c, p, q, N \o c.write_q)
  BY FateInvAt
<1>2. Calm(c, d)
  OBVIOUS
<1>3. /\ conn' = [conn EXCEPT ![e] = d] /\ net' = net
      /\ q = net[e] \o conn[Peer(e)].write_q /\ N = net[Peer(e)]
      /\ p = conn[Peer(e)]
  OBVIOUS
<1> HIDE DEF c, p, q, N
<1>4. Wire(c, d, N \o c.write_q, N \o d.write_q) /\ Orderly(d)
  BY <1>1, <1>2 DEF Calm
<1>5. FatesAt(e, d, p, q, N \o d.write_q)
  BY <1>1, <1>2, <1>4, FatesCalm
<1> QED
  BY <1>3, <1>4, <1>5, FateCall

\* Writing moves a packet from the queue to the network.
LEMMA WriteFates ==
  ASSUME NEW e \in Ends, LinkInv, FateInv, Write(e)
  PROVE  FateInv'
<1> DEFINE c == conn[e]
           p == conn[Peer(e)]
           m == Head(c.write_q)
           v == Tail(c.write_q)
           d == [c EXCEPT !.write_q = v]
           N == net[Peer(e)]
           M == Append(N, m)
           q == net[e] \o p.write_q
<1>1. /\ Sound(c) /\ c.write_q \in Seq(Packet) /\ N \in Seq(Packet)
      /\ FatesAt(e, c, p, q, N \o c.write_q)
  BY FateInvAt
<1>2. c.write_q # << >> /\ c \in ConnType
  BY <1>1, ConnNumbers DEF Write, Sound
<1>3. m \in Packet /\ v \in Seq(Packet) /\ c.write_q = <<m>> \o v
  BY <1>1, <1>2
<1>4. conn \in [Ends -> ConnType] /\ net \in [Ends -> Seq(Packet)]
      /\ Peer(e) \in Ends /\ Peer(e) # e
  BY PeerFacts DEF LinkInv
<1>5. /\ conn' = [conn EXCEPT ![e] = d]
      /\ net' = [net EXCEPT ![e] = net[e], ![Peer(e)] = M]
  BY <1>4 DEF Write
<1>6. q = net[e] \o conn[Peer(e)].write_q /\ p = conn[Peer(e)]
  OBVIOUS
<1> HIDE DEF m, v, N, c, p, q
<1>7. M \o v = N \o c.write_q
  <2>1. M \o v = N \o (<<m>> \o v)
    BY ONLY <1>1, <1>3
  <2> QED
    BY <1>3, <2>1
<1>8. d.write_q = v /\ SameFlags(c, d) /\ d.kex_blocks_app = c.kex_blocks_app
  BY <1>2, <1>3 DEF ConnType, SameFlags
<1> HIDE DEF d
<1>9. Orderly(d) /\ Settled(d)
  BY <1>1, <1>8, OrderlySame DEF Sound, Settled, SameFlags
<1>10. FatesAt(e, d, p, q, M \o d.write_q)
  <2> DEFINE r == N \o c.write_q
  <2>1. FatesAt(e, c, p, q, r) /\ M \o d.write_q = r
    BY <1>1, <1>7, <1>8
  <2> HIDE DEF r, M
  <2>2. FatesAt(e, d, p, q, r)
    BY <1>8, <2>1 DEF FatesAt, Fates, Told, Announced, SameFlags
  <2> QED
    BY <2>1, <2>2
<1> QED
  BY <1>5, <1>6, <1>9, <1>10, FateStep

\* process_in: the packets of a read, then perhaps a rekey, then the flush.
LEMMA ReadFates ==
  ASSUME NEW e \in Ends, LinkInv, FateInv, NEW k \in 0 .. Len(net[e]),
         NEW rekey \in BOOLEAN, ProcessIn(e, k, rekey)
  PROVE  FateInv'
<1> DEFINE c == conn[e]
           p == conn[Peer(e)]
           toMe == net[e]
           N == net[Peer(e)]
           left == SubSeq(toMe, k + 1, Len(toMe))
           f == HF!Fold(e, c, SubSeq(toMe, 1, k))
           r == IF rekey THEN StartKex(f) ELSE f
           d == IF r.error THEN r ELSE FlushPending(r)
           q == left \o p.write_q
<1>1. /\ Sound(c) /\ Sound(p) /\ toMe \in Seq(Packet) /\ N \in Seq(Packet)
      /\ LinkedAt(e, c, p, toMe, N)
      /\ FatesAt(e, c, p, toMe \o p.write_q, N \o c.write_q)
  BY FateInvAt
<1>2. conn' = [conn EXCEPT ![e] = d] /\ net' = [net EXCEPT ![e] = left]
  BY ProcessInFold DEF ProcessIn, Take
<1>3. Sound(f) /\ FatesAt(e, f, p, q, N \o f.write_q)
  <2> HIDE DEF c, p, N
  <2> QED
    BY <1>1, BatchFates
<1>4. net' = [net EXCEPT ![e] = left, ![Peer(e)] = N]
  <2>1. net \in [Ends -> Seq(Packet)] /\ Peer(e) \in Ends /\ Peer(e) # e
    BY PeerFacts DEF LinkInv
  <2> HIDE DEF left
  <2> QED
    BY <1>2, <2>1
<1>5. q = left \o conn[Peer(e)].write_q /\ p = conn[Peer(e)]
  OBVIOUS
<1> HIDE DEF f, q, p, N, left
<1>6. Local(f) /\ Orderly(f) /\ Settled(f)
  BY <1>3 DEF Sound
<1>7. Calm(f, r) /\ Settled(r)
  BY <1>6, StartKexCalm, SilentSelf DEF Silent
<1> HIDE DEF r
<1>8. Local(r) /\ Orderly(r)
  BY <1>7 DEF Calm
<1>9. Silent(r, d)
  BY <1>8, FlushPendingSilent, SilentSelf
<1> HIDE DEF d
<1>10. Calm(r, d) /\ Settled(d)
  BY <1>7, <1>9 DEF Silent, SameFlags, Settled
<1>11. Calm(f, d)
  BY <1>7, <1>10, CalmThen
<1>12. Wire(f, d, N \o f.write_q, N \o d.write_q) /\ Orderly(d)
  BY <1>1, <1>11 DEF Calm
<1>13. FatesAt(e, d, p, q, N \o d.write_q)
  BY <1>3, <1>11, <1>12, FatesCalm
<1> QED
  BY <1>2, <1>4, <1>5, <1>10, <1>12, <1>13, FateStep

\* A packet other than CLOSE behind all that is on its way.
LEMMA Behind ==
  ASSUME NEW N \in Seq(Packet), NEW v \in Seq(Packet), NEW m \in Packet
  PROVE  /\ \A t : Carries(N \o Append(v, m), t) <=> Carries(N \o v, t) \/ m.t = t
         /\ Late(N \o v) /\ m.t # "CLOSE" => Late(N \o Append(v, m))
<1>1. N \o v \in Seq(Packet) /\ N \o Append(v, m) = Append(N \o v, m)
  OBVIOUS
<1> QED
  BY <1>1, CarriesAppend

\* open_direct_tcpip: neither side has a channel yet.
LEMMA OpenCallFates ==
  ASSUME LinkInv, FateInv, AppOpen
  PROVE  FateInv'
<1> DEFINE c == conn["client"]
           p == conn["server"]
           q == net["client"] \o p.write_q
           N == net["server"]
           m == [t |-> "OPEN", from |-> 0]
           b == NewChannel(c, None, 0)
           d == Queue(b, m)
<1>1. /\ "client" \in Ends /\ Peer("client") = "server"
      /\ conn' = [conn EXCEPT !["client"] = d] /\ net' = net
      /\ c.slot = "none" /\ ~c.error
  BY PeerFacts DEF AppOpen, Step, Ends
<1>2. /\ Sound(c) /\ Sound(p) /\ N \in Seq(Packet)
      /\ LinkedAt("client", c, p, net["client"], N)
      /\ FatesAt("client", c, p, q, N \o c.write_q)
  BY <1>1, FateInvAt
<1>3. p.slot = "none"
  <2> HIDE DEF c, p, N
  <2> QED
    BY <1>1, <1>2 DEF LinkedAt, Linked, OpenedOnce
<1>4. /\ p = conn[Peer("client")] /\ N = net[Peer("client")]
      /\ q = net["client"] \o p.write_q
  BY <1>1
<1> HIDE DEF c, p, q, N
<1>5. c \in ConnType /\ c.write_q \in Seq(Packet) /\ Orderly(c) /\ Orderly(p)
  BY <1>2, ConnNumbers DEF Sound
<1>6. m \in Packet /\ m.t = "OPEN" /\ m.t # "DATA"
  BY DEF Packet
<1>7. Window \in Nat /\ None \in Remote
  BY ChannelAssumptions DEF Remote
<1>8. /\ b \in ConnType /\ b.write_q = c.write_q /\ b.slot = "live"
      /\ b.open_confirmed = c.open_confirmed /\ b.sent_eof = c.sent_eof
      /\ b.sent_close = c.sent_close /\ b.got_close = c.got_close
      /\ b.wire_close = c.wire_close /\ b.error = c.error
  BY <1>5, <1>7 DEF ConnType, NewChannel
<1> HIDE DEF b, m
<1>9. SameFlags(b, d) /\ d.write_q = Append(c.write_q, m)
  BY <1>6, <1>8, QueueFlags
<1> HIDE DEF d
<1>10. /\ ~c.open_confirmed /\ ~c.sent_eof /\ ~c.sent_close
       /\ ~c.got_close /\ ~c.wire_close
  BY <1>1, <1>5 DEF Orderly
<1>11. ~p.open_confirmed /\ ~p.wire_close
  BY <1>3, <1>5 DEF Orderly
<1>12. Orderly(d) /\ Settled(d)
  BY <1>1, <1>8, <1>9, <1>10 DEF Orderly, Settled, SameFlags
<1>13. FatesAt("client", d, p, q, N \o d.write_q)
  <2> DEFINE r == N \o c.write_q
             s == N \o d.write_q
  <2>1. \A t : Carries(s, t) <=> Carries(r, t) \/ m.t = t
    BY <1>2, <1>5, <1>6, <1>9, Behind
  <2>2. Fates(c, p, q, r)
    BY <1>2 DEF FatesAt
  <2> HIDE DEF r, s
  <2>3. Fates(d, p, q, s)
    BY <1>1, <1>3, <1>6, <1>8, <1>9, <1>10, <1>11, <2>1, <2>2
       DEF Fates, Told, SameFlags
  <2> QED
    BY <2>3 DEF FatesAt, s
<1> QED
  BY <1>1, <1>4, <1>12, <1>13, FateCall

\* confirm_open: the client will know before anything else is said.
LEMMA ConfirmCallFates ==
  ASSUME LinkInv, FateInv, AppConfirm
  PROVE  FateInv'
<1> DEFINE c == conn["server"]
           p == conn["client"]
           q == net["server"] \o p.write_q
           N == net["client"]
           m == [t |-> "CONFIRM", to |-> c.remote_id, from |-> 0]
           b == [c EXCEPT !.open_confirmed = TRUE]
           d == ConfirmOpen(c, 0)
<1>1. /\ "server" \in Ends /\ Peer("server") = "client"
      /\ conn' = [conn EXCEPT !["server"] = d] /\ net' = net
      /\ c.slot = "live" /\ ~c.error /\ ~c.open_confirmed
  BY PeerFacts DEF AppConfirm, Connecting, Step, Ends
<1>2. /\ Sound(c) /\ N \in Seq(Packet)
      /\ FatesAt("server", c, p, q, N \o c.write_q)
  BY <1>1, FateInvAt
<1>3. /\ p = conn[Peer("server")] /\ N = net[Peer("server")]
      /\ q = net["server"] \o p.write_q
  BY <1>1
<1> HIDE DEF c, p, q, N
<1>4. c \in ConnType /\ c.write_q \in Seq(Packet) /\ Orderly(c)
  BY <1>2, ConnNumbers DEF Sound
<1>5. c.remote_id # None
  <2> DEFINE r == N \o c.write_q
  <2>1. Fates(p, c, r, q)
    BY <1>2 DEF FatesAt
  <2> HIDE DEF r
  <2> QED
    BY <1>1, <2>1 DEF Fates
<1>6. d = Queue(b, m)
  BY <1>1, <1>5 DEF ConfirmOpen
<1>7. m \in Packet /\ m.t = "CONFIRM" /\ m.t # "DATA"
  <2>1. c.remote_id \in Remote
    BY <1>4 DEF ConnType
  <2> QED
    BY <2>1 DEF Packet
<1>8. /\ b \in ConnType /\ b.write_q = c.write_q /\ b.slot = c.slot
      /\ b.open_confirmed /\ b.remote_id = c.remote_id
      /\ b.sent_eof = c.sent_eof
      /\ b.sent_close = c.sent_close /\ b.got_close = c.got_close
      /\ b.wire_close = c.wire_close /\ b.error = c.error
  BY <1>4 DEF ConnType
<1> HIDE DEF b, m, d
<1>9. SameFlags(b, d) /\ d.write_q = Append(c.write_q, m)
  BY <1>6, <1>7, <1>8, QueueFlags
<1>10. ~c.sent_eof /\ ~c.sent_close /\ ~c.got_close /\ ~c.wire_close
  BY <1>1, <1>4 DEF Orderly
<1>11. Orderly(d) /\ Settled(d)
  BY <1>1, <1>5, <1>8, <1>9, <1>10 DEF Orderly, Settled, SameFlags
<1>12. FatesAt("server", d, p, q, N \o d.write_q)
  <2> DEFINE r == N \o c.write_q
             s == N \o d.write_q
  <2>1. /\ \A t : Carries(s, t) <=> Carries(r, t) \/ m.t = t
        /\ Late(r) => Late(s)
    BY <1>2, <1>4, <1>7, <1>9, Behind
  <2>2. Fates(p, c, r, q)
    BY <1>2 DEF FatesAt
  <2> HIDE DEF r, s
  <2>3. Announced(c, r) => Announced(d, s)
    BY <1>7, <2>1 DEF Announced
  <2>4. Fates(p, d, s, q)
    BY <1>1, <1>7, <1>8, <1>9, <1>10, <2>1, <2>2, <2>3 DEF Fates, Told, SameFlags
  <2> QED
    BY <2>4 DEF FatesAt, s
<1> QED
  BY <1>1, <1>3, <1>11, <1>12, FateCall

\* fail_open: the slot is free and the client will be told.
LEMMA RefuseCallFates ==
  ASSUME LinkInv, FateInv, AppRefuse
  PROVE  FateInv'
<1> DEFINE c == conn["server"]
           p == conn["client"]
           q == net["server"] \o p.write_q
           N == net["client"]
           m == Msg(c, "FAILURE")
           b == [c EXCEPT !.slot = "freed"]
           d == FailOpen(c)
<1>1. /\ "server" \in Ends /\ Peer("server") = "client"
      /\ conn' = [conn EXCEPT !["server"] = d] /\ net' = net
      /\ c.slot = "live" /\ ~c.error /\ ~c.open_confirmed
  BY PeerFacts DEF AppRefuse, Connecting, Step, Ends
<1>2. /\ Sound(c) /\ N \in Seq(Packet)
      /\ FatesAt("server", c, p, q, N \o c.write_q)
  BY <1>1, FateInvAt
<1>3. /\ p = conn[Peer("server")] /\ N = net[Peer("server")]
      /\ q = net["server"] \o p.write_q
  BY <1>1
<1> HIDE DEF c, p, q, N
<1>4. c \in ConnType /\ c.write_q \in Seq(Packet) /\ Orderly(c)
  BY <1>2, ConnNumbers DEF Sound
<1>5. c.remote_id # None
  <2> DEFINE r == N \o c.write_q
  <2>1. Fates(p, c, r, q)
    BY <1>2 DEF FatesAt
  <2> HIDE DEF r
  <2> QED
    BY <1>1, <2>1 DEF Fates
<1>6. d = Queue(b, m)
  BY <1>1, <1>5 DEF FailOpen
<1>7. m \in Packet /\ m.t = "FAILURE" /\ m.t # "DATA"
  <2>1. c.remote_id \in Remote
    BY <1>4 DEF ConnType
  <2> QED
    BY <2>1 DEF Packet, Msg
<1>8. /\ b \in ConnType /\ b.write_q = c.write_q /\ b.slot = "freed"
      /\ b.open_confirmed = c.open_confirmed /\ b.remote_id = c.remote_id
      /\ b.sent_eof = c.sent_eof
      /\ b.sent_close = c.sent_close /\ b.got_close = c.got_close
      /\ b.wire_close = c.wire_close /\ b.error = c.error
  BY <1>4 DEF ConnType
<1> HIDE DEF b, m, d
<1>9. SameFlags(b, d) /\ d.write_q = Append(c.write_q, m)
  BY <1>6, <1>7, <1>8, QueueFlags
<1>10. ~c.sent_eof /\ ~c.sent_close /\ ~c.got_close /\ ~c.wire_close
  BY <1>1, <1>4 DEF Orderly
<1>11. Orderly(d) /\ Settled(d)
  BY <1>1, <1>8, <1>9, <1>10 DEF Orderly, Settled, SameFlags
<1>12. FatesAt("server", d, p, q, N \o d.write_q)
  <2> DEFINE r == N \o c.write_q
             s == N \o d.write_q
  <2>1. /\ \A t : Carries(s, t) <=> Carries(r, t) \/ m.t = t
        /\ Late(r) => Late(s)
    BY <1>2, <1>4, <1>7, <1>9, Behind
  <2>2. Fates(p, c, r, q)
    BY <1>2 DEF FatesAt
  <2> HIDE DEF r, s
  <2>3. Announced(c, r) => Announced(d, s)
    BY <1>8, <1>9, <2>1 DEF Announced, SameFlags
  <2>4. Fates(p, d, s, q)
    BY <1>1, <1>5, <1>7, <1>8, <1>9, <1>10, <2>1, <2>2, <2>3
       DEF Fates, Told, SameFlags
  <2> QED
    BY <2>4 DEF FatesAt, s
<1> QED
  BY <1>1, <1>3, <1>11, <1>12, FateCall

\* The invariant of the fates holds of two fresh connections.
LEMMA InitFates == Init => FateInv
<1> SUFFICES ASSUME Init PROVE FateInv
  OBVIOUS
<1>1. \A e \in Ends : conn[e] = NoChannel /\ net[e] = << >>
  BY DEF Init
<1>2. /\ NoChannel.slot = "none" /\ ~NoChannel.open_confirmed
      /\ ~NoChannel.sent_eof /\ ~NoChannel.sent_close /\ ~NoChannel.got_close
      /\ ~NoChannel.wire_close /\ ~NoChannel.error /\ NoChannel.write_q = << >>
  BY DEF NoChannel
<1>3. Toward("client") = << >> /\ Toward("server") = << >>
  BY <1>1, <1>2, PeerFacts DEF Toward, Ends
<1>4. Late(<< >>) /\ \A t : ~Carries(<< >>, t)
  BY DEF Late, Carries
<1>5. \A e \in Ends : Orderly(conn[e]) /\ Settled(conn[e])
  BY <1>1, <1>2 DEF Orderly, Settled
<1>6. Fates(conn["client"], conn["server"], Toward("client"), Toward("server"))
  BY <1>1, <1>2, <1>3, <1>4 DEF Fates, Told, Announced, Ends
<1> QED
  BY <1>5, <1>6 DEF FateInv

\* Every action keeps the invariant of the fates.
LEMMA NextFates == IInv /\ FateInv /\ [Next]_vars => FateInv'
<1> SUFFICES ASSUME IInv, FateInv, [Next]_vars PROVE FateInv'
  OBVIOUS
<1>1. LinkInv /\ AppInv
  BY DEF IInv
<1>2. ASSUME NEW e \in Ends PROVE Local(conn[e]) /\ Orderly(conn[e]) /\ Settled(conn[e])
  BY <1>1, FateInvAt DEF Sound
<1>3. CASE UNCHANGED vars
  BY <1>3 DEF FateInv, Toward, vars
<1>4. CASE AppOpen
  BY <1>1, <1>4, OpenCallFates
<1>5. CASE AppConfirm
  BY <1>1, <1>5, ConfirmCallFates
<1>6. CASE AppRefuse
  BY <1>1, <1>6, RefuseCallFates
<1>7. ASSUME NEW e \in Ends, Write(e) PROVE FateInv'
  BY <1>1, <1>7, WriteFates
<1>8. ASSUME NEW e \in Ends, Read(e) \/ ReadPartial(e) PROVE FateInv'
  <2>1. net[e] \in Seq(Packet) /\ Len(net[e]) \in Nat
    BY <1>1, LinkInvAt
  <2>2. PICK k \in 0 .. Len(net[e]), rekey \in BOOLEAN : ProcessIn(e, k, rekey)
    BY <1>8, <2>1 DEF Read, ReadPartial
  <2> QED
    BY <1>1, <2>2, ReadFates
<1>9. ASSUME NEW e \in Ends, NEW d, Silent(conn[e], d), Step(e, d), net' = net
      PROVE  FateInv'
  <2>1. Calm(conn[e], d) /\ Settled(d)
    BY <1>2, <1>9 DEF Silent, SameFlags, Settled
  <2>2. conn' = [conn EXCEPT ![e] = d]
    BY <1>9 DEF Step
  <2> QED
    BY <1>1, <1>9, <2>1, <2>2, CalmCall
<1>10. ASSUME NEW e \in Ends, AppSend(e) PROVE FateInv'
  <2>1. PICK n \in Sizes :
          /\ InUse(e) /\ n <= OutboundAllowance(conn[e])
          /\ Step(e, EnqueueOrSend(conn[e], [i \in 1 .. n |-> sent[e] + i]))
          /\ net' = net
    BY <1>10 DEF AppSend
  <2>2. n \in Nat /\ n > 0 /\ sent[e] \in Nat
    <3>1. n \in Nat \ {0}
      BY LinkAssumptions
    <3>2. sent[e] \in Nat
      BY <1>1 DEF AppInv
    <3> QED
      BY <3>1, <3>2
  <2> DEFINE x == [i \in 1 .. n |-> sent[e] + i]
  <2>3. x \in [1 .. n -> Nat]
    BY <2>2
  <2>4. Step(e, EnqueueOrSend(conn[e], x))
    BY <2>1
  <2> HIDE DEF x
  <2>5. x \in Seq(Nat) /\ Len(x) = n
    BY <2>2, <2>3, FunctionIsSeq
  <2>6. conn[e].slot = "live" /\ Len(x) > 0 /\ Len(x) <= OutboundAllowance(conn[e])
    BY <2>1, <2>2, <2>5 DEF InUse
  <2>7. Silent(conn[e], EnqueueOrSend(conn[e], x))
    BY <1>2, <2>5, <2>6, EnqueueOrSendSilent
  <2> QED
    BY <1>9, <2>1, <2>4, <2>7
<1>11. ASSUME NEW e \in Ends, AppConsume(e) PROVE FateInv'
  <2>1. PICK n \in Sizes :
          /\ conn[e].in_q # << >> /\ n <= Len(Head(conn[e].in_q))
          /\ Step(e, ConsumeInbound(conn[e], n)) /\ net' = net
    BY <1>11 DEF AppConsume
  <2>2. n \in Nat
    BY LinkAssumptions
  <2>3. Silent(conn[e], ConsumeInbound(conn[e], n))
    BY <1>2, <2>1, <2>2, ConsumeInboundSilent
  <2> QED
    BY <1>9, <2>1, <2>3
<1>12. ASSUME NEW e \in Ends, AppEof(e) PROVE FateInv'
  <2>1. /\ conn' = [conn EXCEPT ![e] = SendEof(conn[e])] /\ net' = net
        /\ conn[e].slot = "live" /\ conn[e].open_confirmed
    BY <1>12 DEF AppEof, InUse, Step
  <2>2. Calm(conn[e], SendEof(conn[e])) /\ Settled(SendEof(conn[e]))
    BY <1>2, <2>1, SendEofCalm
  <2> QED
    BY <1>1, <2>1, <2>2, CalmCall
<1>13. ASSUME NEW e \in Ends, AppFinish(e) PROVE FateInv'
  <2>1. /\ conn' = [conn EXCEPT ![e] = SendClose(conn[e])] /\ net' = net
        /\ conn[e].slot = "live" /\ conn[e].sent_eof
    BY <1>13 DEF AppFinish, InUse, Step
  <2>2. conn[e].open_confirmed
    BY <1>2, <2>1 DEF Orderly
  <2>3. Calm(conn[e], SendClose(conn[e])) /\ Settled(SendClose(conn[e]))
    BY <1>2, <2>1, <2>2, SendCloseCalm
  <2> QED
    BY <1>1, <2>1, <2>3, CalmCall
<1>14. ASSUME NEW e \in Ends, AppAbort(e) PROVE FateInv'
  <2> DEFINE b == SendEof(conn[e])
             d == SendClose(b)
  <2>1. /\ conn' = [conn EXCEPT ![e] = d] /\ net' = net
        /\ conn[e].slot = "live" /\ conn[e].open_confirmed
    BY <1>14 DEF AppAbort, InUse, Step
  <2>2. Calm(conn[e], b) /\ Settled(b) /\ b.slot = "live"
    BY <1>2, <2>1, SendEofCalm
  <2> HIDE DEF b
  <2>3. Local(b) /\ Orderly(b) /\ b.open_confirmed
    BY <2>1, <2>2 DEF Calm
  <2>4. Calm(b, d) /\ Settled(d)
    BY <2>2, <2>3, SendCloseCalm
  <2> HIDE DEF d
  <2>5. Calm(conn[e], d)
    BY <2>2, <2>4, CalmThen
  <2> QED
    BY <1>1, <2>1, <2>4, <2>5, CalmCall
<1> QED
  BY <1>3, <1>4, <1>5, <1>6, <1>7, <1>8, <1>10, <1>11, <1>12, <1>13, <1>14
     DEF Next

-----------------------------------------------------------------------------
\* The inductive invariant of how channels end: what frees a slot on one side
\* is on its way to the other, and the peer's CLOSE is always answered
\* (on_channel_close, emit_close_if_ready, fail_open, on_open_fail).
THEOREM FateInvariant == Spec => []FateInv
  BY LinkInvariant, InitFates, NextFates, PTL DEF Spec

\* No slot of a channel table is stranded: whenever one side has freed the
\* channel and the other has not, a CLOSE or OPEN_FAILURE is on its way to it,
\* or it has the CLOSE and waits for its key exchange to be over.  This holds
\* of every interleaving of closes, refusals, errors and key exchanges.
THEOREM NoSlotIsStranded == Spec => []NoStrandedSlot
<1>1. FateInv => NoStrandedSlot
  <2> SUFFICES ASSUME FateInv, NEW e \in Ends, conn[e].slot = "freed",
                      conn[Peer(e)].slot = "live"
               PROVE  \/ Carries(Toward(Peer(e)), "CLOSE")
                      \/ Carries(Toward(Peer(e)), "FAILURE")
                      \/ conn[Peer(e)].got_close /\ conn[Peer(e)].kex_blocks_app
    <3>1. \A q : Carries(q, "CLOSE") \/ Carries(q, "FAILURE")
                   => \E i \in 1 .. Len(q) : q[i].t \in {"CLOSE", "FAILURE"}
      BY DEF Carries
    <3> QED
      BY <3>1 DEF NoStrandedSlot
  <2>1. \A f \in Ends : Settled(conn[f])
    BY DEF FateInv
  <2>2. Fates(conn["client"], conn["server"], Toward("client"), Toward("server"))
    BY DEF FateInv
  <2>3. CASE e = "client"
    BY <2>1, <2>2, <2>3, PeerFacts DEF Fates, Told, Settled
  <2>4. CASE e = "server"
    BY <2>1, <2>2, <2>4, PeerFacts DEF Fates, Told, Settled
  <2> QED
    BY <2>3, <2>4, PeerFacts
<1> QED
  BY <1>1, FateInvariant, PTL

\* With one channel, a connection that has answered Err to its peer has no
\* live channel: a packet is refused only because it comes after its channel
\* was freed (on_window_adjust, on_channel_data, on_open_confirm), never because
\* of an exceeded window (push_in) or the hard limit of the write queue
\* (queue_msg).
THEOREM ErrorsOnlyWhenFreed ==
  Spec => [](\A e \in Ends : conn[e].error => conn[e].slot # "live")
<1>1. FateInv => \A e \in Ends : conn[e].error => conn[e].slot # "live"
  BY DEF FateInv, Orderly
<1> QED
  BY <1>1, FateInvariant, PTL

=============================================================================
