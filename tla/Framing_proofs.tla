-------------------------- MODULE Framing_proofs ---------------------------
(***************************************************************************)
(* The byte stream is put together as it was cut, for every script, every  *)
(* limit and every way the sockets cut the bytes: proofs of the safety     *)
(* invariants of module Framing.                                           *)
(*                                                                         *)
(* The inductive invariant says that the bytes the receiver has not        *)
(* handled, followed by those on their way and those not yet written, run  *)
(* through the units without a gap from the first unit that is due to the  *)
(* last one sealed, and that the receiver's cipher is the one that unit    *)
(* was sealed with.                                                        *)
(***************************************************************************)
EXTENDS Framing, SeqLemmas

-----------------------------------------------------------------------------
(* The sizes of packets, for every payload and every cipher: what         *)
(* queue_msg builds is aligned, and try_one_packet finds in it the payload *)
(* that was put there.                                                     *)

\* Blocks are of 8 or of 16 bytes (block_size).
LEMMA BlockSizes == \A kind \in CipherKinds : BlockSize(kind) \in {8, 16}
  BY DEF CipherKinds, BlockSize

\* The bytes that padding_len aligns besides the payload and the padding.
Aligned(kind) == IF IsAead(kind) THEN 1 ELSE 5

\* padding_len with the block size of the cipher, which is never below 8.
LEMMA PadIsPadding ==
  ASSUME NEW n \in Nat, NEW kind \in CipherKinds
  PROVE  LET b == BlockSize(kind)
             p == b - ((Aligned(kind) + n) % b)
         IN Pad(n, kind) = IF p < 4 THEN p + b ELSE p
<1> DEFINE b == BlockSize(kind)
           need == Aligned(kind) + n
<1>1. b \in {8, 16}
  BY BlockSizes
<1>2. (IF b < 8 THEN 8 ELSE b) = b
  BY <1>1
<1>3. need = IF IsAead(kind) THEN 1 + n ELSE 4 + 1 + n
  BY DEF Aligned
<1> QED
  BY <1>2, <1>3 DEF Pad, PaddingLen

\* There are at least four bytes of padding, as RFC 4253 demands, at most one
\* block more, and their number fits the byte it is sent in (padding_len).
THEOREM PaddingInRange ==
  ASSUME NEW n \in Nat, NEW kind \in CipherKinds
  PROVE  Pad(n, kind) \in 4 .. BlockSize(kind) + 3 /\ Pad(n, kind) < 256
<1> DEFINE need == Aligned(kind) + n
<1>1. need \in Nat
  BY DEF Aligned
<1>2. CASE BlockSize(kind) = 8
  <2>1. need % 8 \in 0 .. 7
    BY <1>1
  <2> QED
    BY <1>2, <2>1, PadIsPadding
<1>3. CASE BlockSize(kind) = 16
  <2>1. need % 16 \in 0 .. 15
    BY <1>1
  <2> QED
    BY <1>3, <2>1, PadIsPadding
<1> QED
  BY <1>2, <1>3, BlockSizes

\* What padding_len aligns is a whole number of blocks: the packet with its
\* length field in the clear, without it under an AEAD cipher.
THEOREM PacketAligned ==
  ASSUME NEW n \in Nat, NEW kind \in CipherKinds
  PROVE  (Aligned(kind) + n + Pad(n, kind)) % BlockSize(kind) = 0
<1> DEFINE need == Aligned(kind) + n
<1>1. need \in Nat
  BY DEF Aligned
<1>2. CASE BlockSize(kind) = 8
  <2> HIDE DEF need
  <2>1. Pad(n, kind) \in {8 - (need % 8), 16 - (need % 8)}
    BY <1>2, <1>1, PadIsPadding DEF need
  <2>2. (need + (8 - (need % 8))) % 8 = 0 /\ (need + (16 - (need % 8))) % 8 = 0
    BY <1>1
  <2> QED
    BY <1>2, <2>1, <2>2 DEF need
<1>3. CASE BlockSize(kind) = 16
  <2> HIDE DEF need
  <2>1. Pad(n, kind) \in {16 - (need % 16), 32 - (need % 16)}
    BY <1>3, <1>1, PadIsPadding DEF need
  <2>2. /\ (need + (16 - (need % 16))) % 16 = 0
        /\ (need + (32 - (need % 16))) % 16 = 0
    BY <1>1
  <2> QED
    BY <1>3, <2>1, <2>2 DEF need
<1> QED
  BY <1>2, <1>3, BlockSizes

\* A packet queue_msg builds for a payload that leaves room for the padding
\* passes the checks of try_one_packet, and the payload it finds is the one
\* that was sent.
THEOREM PacketAccepted ==
  ASSUME NEW n \in Nat \ {0}, NEW kind \in CipherKinds,
         n + 20 <= MaxPacket
  PROVE  /\ LengthOk(PacketLength(n, kind))
         /\ PaddingOk(PacketLength(n, kind), Pad(n, kind))
         /\ PayloadLen(PacketLength(n, kind), Pad(n, kind)) = n
<1>1. Pad(n, kind) \in 4 .. 19
  <2>1. Pad(n, kind) \in 4 .. BlockSize(kind) + 3
    BY PaddingInRange
  <2>2. BlockSize(kind) \in {8, 16}
    BY BlockSizes
  <2> QED
    BY <2>1, <2>2
<1>2. PacketLength(n, kind) = 1 + n + Pad(n, kind)
  BY DEF PacketLength
<1> QED
  BY <1>1, <1>2, PacketAssumptions DEF LengthOk, PaddingOk, PayloadLen

-----------------------------------------------------------------------------
(* The bytes of the stream.                                                *)

Byte == Nat \X Nat

-----------------------------------------------------------------------------
(* The fold of CipherAt, step by step.                                     *)

\* The cipher after message m when it was k before it.
SwitchCipher(x, k, m) == IF m.newkeys = None THEN k ELSE m.newkeys

CF == INSTANCE FoldLemmas WITH Op <- SwitchCipher

\* CipherAt for the messages of a given script.
CipherOf(sc, u) == CF!Fold(0, "clear", SubSeq(sc.msgs, 1, u - 1))

-----------------------------------------------------------------------------
(* The inductive invariant.                                                *)

\* The bytes of unit u: of the line, or of a packet.
Size(sc, sl, u) ==
  IF u = 0 THEN sc.ident.len ELSE Total(sl[u].length, sl[u].cipher)

\* The byte that follows byte b in the stream.
Succ(sc, sl, b) ==
  IF b[2] < Size(sc, sl, b[1]) THEN <<b[1], b[2] + 1>> ELSE <<b[1] + 1, 1>>

\* P runs from the first byte of unit a to the last byte of the last unit.
Run(sc, sl, P, a) ==
  /\ P = << >> => a = Len(sl) + 1
  /\ P # << >> => /\ a <= Len(sl)
                  /\ P[1] = <<a, 1>>
                  /\ P[Len(P)] = <<Len(sl), Size(sc, sl, Len(sl))>>
  /\ \A i \in 1 .. Len(P) : P[i][1] \in 0 .. Len(sl)
  /\ \A i \in 1 .. Len(P) - 1 : P[i + 1] = Succ(sc, sl, P[i])

\* The packets sealed are those of the first messages.
SealedOf(sc, sl) ==
  /\ sl \in Seq([length : Nat, pad : Nat, cipher : CipherKinds])
  /\ Len(sl) <= Len(sc.msgs)
  /\ \A u \in 1 .. Len(sl) :
       sl[u] = [length |-> PacketLength(sc.msgs[u].len, CipherOf(sc, u)),
                pad    |-> Pad(sc.msgs[u].len, CipherOf(sc, u)),
                cipher |-> CipherOf(sc, u)]

GoodLine(sc) == sc.ident.ok /\ sc.ident.len <= IdentMax

FitsIn(sc, u) == LengthOk(PacketLength(sc.msgs[u].len, CipherOf(sc, u)))

SndType ==
  [cipher : CipherKinds, ident_out : Seq(Byte), current_out : Seq(Byte),
   current_is_ident : BOOLEAN, write_q : Seq(Seq(Byte)), write_bytes : Nat]

RcvType ==
  [cipher : CipherKinds, read_buf : Seq(Byte), ident_acc : Seq(Byte),
   ident_in_done : BOOLEAN, got : Seq([msg : Nat, len : Nat]),
   error : BOOLEAN]

\* What the sender has queued.
Queued(s) == s.current_out \o (s.ident_out \o FlattenSeq(s.write_q))

\* The bytes that wait are counted.
Counted(s) ==
  s.write_bytes = Len(FlattenSeq(s.write_q))
                  + (IF s.current_is_ident THEN 0 ELSE Len(s.current_out))

\* What has been received, and what follows from it.
GotOf(sc, sl, r) ==
  /\ Len(r.got) <= Len(sl)
  /\ \A u \in 1 .. Len(r.got) :
       /\ r.got[u] = [msg |-> u, len |-> sc.msgs[u].len]
       /\ FitsIn(sc, u)
  /\ r.ident_in_done => GoodLine(sc)
  /\ r.error => ~GoodLine(sc) \/ ~FitsIn(sc, Len(r.got) + 1)

\* The receiver r is in step with the stream, of which it still gets S.
InStream(sc, sl, r, S) ==
  IF r.ident_in_done
    THEN /\ r.ident_acc = << >>
         /\ r.cipher = CipherOf(sc, Len(r.got) + 1)
         /\ Run(sc, sl, r.read_buf \o S, Len(r.got) + 1)
    ELSE /\ r.got = << >>
         /\ r.cipher = "clear"
         /\ Run(sc, sl, (r.ident_acc \o r.read_buf) \o S, 0)

RcvOk(sc, sl, r, S) ==
  /\ r \in RcvType
  /\ GotOf(sc, sl, r)
  /\ ~r.error => InStream(sc, sl, r, S)

\* try_one_packet has nothing to do: too few bytes for a length, or for the
\* packet it announces.
NoWholePacket(r) ==
  \/ Len(r.read_buf) < 4
  \/ /\ LengthOk(LengthField(r))
     /\ Len(r.read_buf) < Total(LengthField(r), r.cipher)

\* process_in has nothing to do.
Quiet(sc, r) ==
  IF r.ident_in_done
    THEN NoWholePacket(r)
    ELSE /\ r.read_buf = << >>
         /\ Len(r.ident_acc) <= IdentMax

IInv ==
  /\ script \in Scripts
  /\ SealedOf(script, sealed)
  /\ snd \in SndType
  /\ wire \in Seq(Byte)
  /\ snd.cipher = CipherOf(script, Len(sealed) + 1)
  /\ Counted(snd)
  /\ RcvOk(script, sealed, rcv, wire \o Queued(snd))
  /\ ~rcv.error => Quiet(script, rcv)

-----------------------------------------------------------------------------
(* Lemmas: scripts and ciphers.                                            *)

\* The parts of a script have the types they are assumed to have.
LEMMA ScriptTypes ==
  ASSUME NEW sc \in Scripts
  PROVE  /\ sc.ident.len \in Nat \ {0} /\ sc.ident.ok \in BOOLEAN
         /\ sc.msgs \in Seq([len : Nat \ {0},
                             newkeys : CipherKinds \union {None}])
  BY FramingAssumptions

\* So have its messages.
LEMMA MsgType ==
  ASSUME NEW sc \in Scripts, NEW u \in 1 .. Len(sc.msgs)
  PROVE  /\ sc.msgs[u].len \in Nat \ {0}
         /\ sc.msgs[u].newkeys \in CipherKinds \union {None}
<1> DEFINE M == [len : Nat \ {0}, newkeys : CipherKinds \union {None}]
<1>1. sc.msgs \in Seq(M)
  BY ScriptTypes
<1> HIDE DEF M
<1>2. sc.msgs[u] \in M
  BY <1>1
<1> QED
  BY <1>2 DEF M

\* CipherAt is the fold that the lemmas are about.
LEMMA CipherAtFold == \A u : CipherAt(u) = CipherOf(script, u)
  BY DEF CipherAt, CipherOf, CF!Fold, CF!IsFold, CF!Largest, SwitchCipher,
         FoldLeft, MapThenFoldSet, Max

\* Everything starts in the clear.
LEMMA CipherFirst ==
  ASSUME NEW sc \in Scripts
  PROVE  CipherOf(sc, 1) = "clear"
<1>1. SubSeq(sc.msgs, 1, 1 - 1) = << >>
  BY ScriptTypes
<1> QED
  BY <1>1, CF!FoldEmpty DEF CipherOf

\* A message changes the cipher of the next one if it is NEWKEYS.
LEMMA CipherNext ==
  ASSUME NEW sc \in Scripts, NEW u \in 1 .. Len(sc.msgs)
  PROVE  CipherOf(sc, u + 1) = IF sc.msgs[u].newkeys = None
                                 THEN CipherOf(sc, u) ELSE sc.msgs[u].newkeys
<1> DEFINE M == [len : Nat \ {0}, newkeys : CipherKinds \union {None}]
           q == SubSeq(sc.msgs, 1, u - 1)
<1>1. sc.msgs \in Seq(M)
  BY ScriptTypes
<1> HIDE DEF M
<1>2. q \in Seq(M) /\ sc.msgs[u] \in M
  BY <1>1
<1>3. SubSeq(sc.msgs, 1, (u + 1) - 1) = Append(q, sc.msgs[u])
  BY <1>1
<1> HIDE DEF q
<1>4. CF!Fold(0, "clear", Append(q, sc.msgs[u]))
        = SwitchCipher(0, CF!Fold(0, "clear", q), sc.msgs[u])
  BY <1>2, CF!FoldAppend
<1>5. CipherOf(sc, u + 1) = CF!Fold(0, "clear", Append(q, sc.msgs[u]))
  BY <1>3 DEF CipherOf
<1>6. CipherOf(sc, u) = CF!Fold(0, "clear", q)
  BY DEF CipherOf, q
<1> QED
  BY <1>4, <1>5, <1>6 DEF SwitchCipher

\* It is always one of the ciphers.
LEMMA CipherType ==
  ASSUME NEW sc \in Scripts, NEW u \in 1 .. Len(sc.msgs) + 1
  PROVE  CipherOf(sc, u) \in CipherKinds
<1> DEFINE n == Len(sc.msgs)
           T == {k \in 0 .. n : CipherOf(sc, k + 1) \in CipherKinds}
<1>0. n \in Nat
  BY ScriptTypes
<1>1. 0 \in T
  BY <1>0, CipherFirst DEF CipherKinds
<1>2. ASSUME NEW k \in 1 .. n, k - 1 \in T PROVE k \in T
  <2>1. CipherOf(sc, k + 1) = IF sc.msgs[k].newkeys = None
                                THEN CipherOf(sc, k) ELSE sc.msgs[k].newkeys
    BY CipherNext
  <2>2. CipherOf(sc, k) \in CipherKinds
    <3>1. CipherOf(sc, (k - 1) + 1) \in CipherKinds /\ (k - 1) + 1 = k
      BY <1>2
    <3> QED
      BY <3>1
  <2>3. sc.msgs[k].newkeys \in CipherKinds \union {None}
    BY MsgType
  <2> QED
    BY <2>1, <2>2, <2>3
<1> HIDE DEF T, n
<1>3. 0 .. n \subseteq T
  BY <1>0, <1>1, <1>2, IntervalInduction
<1>4. u - 1 \in 0 .. n /\ (u - 1) + 1 = u
  BY <1>0 DEF n
<1>5. CipherOf(sc, (u - 1) + 1) \in CipherKinds
  BY <1>3, <1>4 DEF T
<1> QED
  BY <1>4, <1>5

\* The sizes of a packet: at least the length field and the smallest
\* padding, and the payload is found again.
LEMMA PacketSizes ==
  ASSUME NEW n \in Nat \ {0}, NEW k \in CipherKinds
  PROVE  /\ PacketLength(n, k) \in Nat /\ Pad(n, k) \in Nat
         /\ PaddingOk(PacketLength(n, k), Pad(n, k))
         /\ PayloadLen(PacketLength(n, k), Pad(n, k)) = n
         /\ Total(PacketLength(n, k), k) \in Nat
         /\ Total(PacketLength(n, k), k) > 4
<1>1. Pad(n, k) \in Nat /\ Pad(n, k) >= 4
  <2>1. Pad(n, k) \in 4 .. BlockSize(k) + 3 /\ BlockSize(k) \in {8, 16}
    BY PaddingInRange, BlockSizes
  <2> QED
    BY <2>1
<1> QED
  BY <1>1 DEF PacketLength, PaddingOk, PayloadLen, Total, TagLen

-----------------------------------------------------------------------------
(* Lemmas: bytes that run through the units.                               *)

\* Every unit has a byte.
LEMMA SizeType ==
  ASSUME NEW sc \in Scripts, NEW sl, SealedOf(sc, sl), NEW u \in 0 .. Len(sl)
  PROVE  Size(sc, sl, u) \in Nat \ {0}
<1>1. CASE u = 0
  BY <1>1, ScriptTypes DEF Size
<1>2. CASE u # 0
  <2> DEFINE K == [length : Nat, pad : Nat, cipher : CipherKinds]
  <2>0. sl \in Seq(K) /\ u \in 1 .. Len(sl)
    BY <1>2 DEF SealedOf
  <2> HIDE DEF K
  <2>1. sl[u] \in K
    BY <2>0
  <2> USE DEF K
  <2> QED
    BY <1>2, <2>1 DEF Size, Total, TagLen
<1> QED
  BY <1>1, <1>2

\* The bytes of unit a come first, and all of them are there.
LEMMA RunUnit ==
  ASSUME NEW sc \in Scripts, NEW sl, SealedOf(sc, sl), NEW a \in Nat,
         NEW P \in Seq(Byte), P # << >>, Run(sc, sl, P, a)
  PROVE  /\ a \in 0 .. Len(sl) /\ Size(sc, sl, a) \in Nat \ {0}
         /\ Len(P) >= Size(sc, sl, a)
         /\ \A i \in 1 .. Size(sc, sl, a) : P[i] = <<a, i>>
<1> DEFINE n == Size(sc, sl, a)
           m == IF Len(P) <= n THEN Len(P) ELSE n
           T == {k \in 0 .. m : k = 0 \/ P[k] = <<a, k>>}
<1>0. Len(sl) \in Nat /\ Len(P) \in Nat \ {0}
  BY DEF SealedOf
<1>1. a \in 0 .. Len(sl)
  BY <1>0 DEF Run
<1>2. n \in Nat \ {0}
  BY <1>1, SizeType
<1> HIDE DEF n
<1>3. m \in Nat \ {0} /\ m <= n /\ m <= Len(P)
  BY <1>0, <1>2
<1> HIDE DEF m
<1>4. 0 \in T
  BY <1>3
<1>5. ASSUME NEW k \in 1 .. m, k - 1 \in T PROVE k \in T
  <2>1. CASE k = 1
    BY <2>1, <1>3 DEF Run
  <2>2. CASE k # 1
    <3>1. k - 1 \in 1 .. Len(P) - 1 /\ (k - 1) + 1 = k /\ k - 1 < n
      BY <2>2, <1>0, <1>2, <1>3
    <3>2. P[k - 1] = <<a, k - 1>>
      BY <1>5, <2>2
    <3>3. P[k] = Succ(sc, sl, P[k - 1])
      BY <3>1 DEF Run
    <3>4. Succ(sc, sl, <<a, k - 1>>) = <<a, (k - 1) + 1>>
      BY <3>1 DEF Succ, n
    <3> QED
      BY <3>1, <3>2, <3>3, <3>4
  <2> QED
    BY <2>1, <2>2
<1> HIDE DEF T
<1>6. 0 .. m \subseteq T
  BY <1>3, <1>4, <1>5, IntervalInduction
<1>7. \A i \in 1 .. m : P[i] = <<a, i>>
  BY <1>3, <1>6 DEF T
<1>8. Len(P) >= n
  <2> SUFFICES ASSUME Len(P) < n PROVE FALSE
    BY <1>0, <1>2
  <2>1. m = Len(P)
    BY <1>0, <1>2 DEF m
  <2>2. P[Len(P)] = <<a, Len(P)>>
    BY <1>3, <1>7, <2>1
  <2>3. P[Len(P)] = <<Len(sl), Size(sc, sl, Len(sl))>>
    BY DEF Run
  <2>4. a = Len(sl) /\ Len(P) = Size(sc, sl, Len(sl))
    BY <2>2, <2>3
  <2> QED
    BY <1>2, <2>4 DEF n
<1>9. m = n
  BY <1>0, <1>2, <1>8 DEF m
<1> QED
  BY <1>1, <1>2, <1>7, <1>8, <1>9 DEF n

\* Without them, the bytes run from the next unit.
LEMMA RunDrop ==
  ASSUME NEW sc \in Scripts, NEW sl, SealedOf(sc, sl), NEW a \in Nat,
         NEW P \in Seq(Byte), P # << >>, Run(sc, sl, P, a)
  PROVE  Run(sc, sl, SubSeq(P, Size(sc, sl, a) + 1, Len(P)), a + 1)
<1> DEFINE n == Size(sc, sl, a)
           Q == SubSeq(P, n + 1, Len(P))
<1>1. /\ a \in 0 .. Len(sl) /\ n \in Nat \ {0} /\ Len(P) >= n
      /\ P[n] = <<a, n>> /\ Len(sl) \in Nat /\ Len(P) \in Nat
  <2>1. /\ a \in 0 .. Len(sl) /\ n \in Nat \ {0} /\ Len(P) >= n
        /\ \A i \in 1 .. n : P[i] = <<a, i>>
    BY RunUnit
  <2>2. Len(sl) \in Nat /\ Len(P) \in Nat
    BY DEF SealedOf
  <2> HIDE DEF n
  <2>3. n \in 1 .. n
    BY <2>1
  <2> QED
    BY <2>1, <2>2, <2>3
<1> HIDE DEF n
<1>2. /\ Q \in Seq(Byte) /\ Len(Q) = Len(P) - n
      /\ \A i \in 1 .. Len(Q) : Q[i] = P[n + i]
  BY <1>1
<1> HIDE DEF Q
<1>3. Succ(sc, sl, P[n]) = <<a + 1, 1>>
  BY <1>1 DEF Succ, n
<1>4. \A i \in 1 .. Len(Q) : n + i \in 1 .. Len(P) /\ Q[i][1] \in 0 .. Len(sl)
  BY SMTT(30), <1>1, <1>2 DEF Run
<1>5. ASSUME NEW i \in 1 .. Len(Q) - 1
      PROVE  Q[i + 1] = Succ(sc, sl, Q[i])
  <2>1. n + i \in 1 .. Len(P) - 1 /\ (n + i) + 1 = n + (i + 1)
        /\ i \in 1 .. Len(Q) /\ i + 1 \in 1 .. Len(Q)
    BY <1>1, <1>2
  <2>2. P[(n + i) + 1] = Succ(sc, sl, P[n + i])
    BY <2>1 DEF Run
  <2> QED
    BY <1>2, <2>1, <2>2
<1>6. CASE Q = << >>
  <2>1. Len(P) = n
    BY <1>1, <1>2, <1>6
  <2>2. P[Len(P)] = <<Len(sl), Size(sc, sl, Len(sl))>>
    BY DEF Run
  <2>3. a = Len(sl)
    BY <1>1, <2>1, <2>2
  <2> QED
    BY <1>4, <1>5, <1>6, <2>3 DEF Run, Q, n
<1>7. CASE Q # << >>
  <2>1. Len(Q) >= 1 /\ n \in 1 .. Len(P) - 1 /\ n + Len(Q) = Len(P)
    BY <1>1, <1>2, <1>7
  <2>2. P[n + 1] = Succ(sc, sl, P[n])
    BY <2>1 DEF Run
  <2>3. Q[1] = <<a + 1, 1>>
    BY <1>2, <1>3, <2>1, <2>2
  <2>4. a + 1 <= Len(sl)
    <3>1. Q[1][1] \in 0 .. Len(sl)
      BY <1>4, <2>1
    <3> QED
      BY <1>1, <2>3, <3>1
  <2>5. Q[Len(Q)] = P[Len(P)]
    BY <1>2, <2>1
  <2>6. P[Len(P)] = <<Len(sl), Size(sc, sl, Len(sl))>>
    BY DEF Run
  <2> QED
    BY <1>4, <1>5, <1>7, <2>3, <2>4, <2>5, <2>6 DEF Run, Q, n
<1> QED
  BY <1>6, <1>7

\* The bytes of a packet that is sealed continue the run.
LEMMA RunAppend ==
  ASSUME NEW sc \in Scripts, NEW sl, SealedOf(sc, sl),
         NEW e \in [length : Nat, pad : Nat, cipher : CipherKinds],
         NEW a \in Nat, NEW P \in Seq(Byte), Run(sc, sl, P, a),
         NEW sl2, sl2 = Append(sl, e),
         NEW n \in Nat \ {0}, n = Total(e.length, e.cipher)
  PROVE  /\ Unit(Len(sl) + 1, n) \in Seq(Byte)
         /\ Run(sc, sl2, P \o Unit(Len(sl) + 1, n), a)
<1> DEFINE K == [length : Nat, pad : Nat, cipher : CipherKinds]
           v == Len(sl) + 1
           U == Unit(v, n)
           Q == P \o U
<1>1. sl \in Seq(K) /\ e \in K
  BY DEF SealedOf
<1> HIDE DEF K
<1>2. /\ Len(sl) \in Nat /\ sl2 \in Seq(K) /\ Len(sl2) = v /\ v \in Nat
      /\ sl2[v] = e /\ \A u \in 1 .. Len(sl) : sl2[u] = sl[u]
  BY <1>1
<1>3. \A u \in 0 .. Len(sl) : Size(sc, sl2, u) = Size(sc, sl, u)
  BY <1>2 DEF Size
<1>4. Size(sc, sl2, v) = n
  BY <1>2 DEF Size
<1> HIDE DEF v
<1>5. U \in Seq(Byte) /\ Len(U) = n /\ \A i \in 1 .. n : U[i] = <<v, i>>
  <2>1. \A i \in 1 .. n : <<v, i>> \in Byte
    BY <1>2 DEF Byte
  <2>2. U = [i \in 1 .. n |-> <<v, i>>]
    BY DEF Unit
  <2> HIDE DEF U
  <2>3. U \in [1 .. n -> Byte] /\ \A i \in 1 .. n : U[i] = <<v, i>>
    BY <2>1, <2>2
  <2> QED
    BY <2>3, FunctionIsSeq
<1> HIDE DEF U
<1>6. /\ Q \in Seq(Byte) /\ Len(Q) = Len(P) + n /\ Len(P) \in Nat
      /\ \A i \in 1 .. Len(P) : Q[i] = P[i]
      /\ \A i \in Len(P) + 1 .. Len(P) + n : Q[i] = <<v, i - Len(P)>>
  <2>1. /\ Q \in Seq(Byte) /\ Len(Q) = Len(P) + n /\ Len(P) \in Nat
        /\ \A i \in 1 .. Len(P) : Q[i] = P[i]
        /\ \A i \in Len(P) + 1 .. Len(P) + n : Q[i] = U[i - Len(P)]
    <3>1. /\ Q \in Seq(Byte) /\ Len(Q) = Len(P) + Len(U) /\ Len(P) \in Nat
          /\ \A i \in 1 .. Len(P) : Q[i] = P[i]
          /\ \A i \in Len(P) + 1 .. Len(P) + Len(U) : Q[i] = U[i - Len(P)]
      BY ZenonT(30), <1>5, ConcatElements
    <3> HIDE DEF Q
    <3> QED
      BY <3>1, <1>5
  <2>2. \A i \in Len(P) + 1 .. Len(P) + n : i - Len(P) \in 1 .. n
    BY <2>1
  <2> QED
    BY <1>5, <2>1, <2>2
<1> HIDE DEF Q
<1>7. Q # << >> /\ Q[Len(Q)] = <<v, n>>
  BY <1>6
<1>8. \A i \in 1 .. Len(Q) : Q[i][1] \in 0 .. v
  <2>1. \A i \in 1 .. Len(P) : P[i][1] \in 0 .. Len(sl)
    BY DEF Run
  <2>2. 0 .. Len(sl) \subseteq 0 .. v /\ v \in 0 .. v
    BY <1>2 DEF v
  <2>3. ASSUME NEW i \in 1 .. Len(Q) PROVE Q[i][1] \in 0 .. v
    <3>1. CASE i <= Len(P)
      <4>1. i \in 1 .. Len(P)
        BY <1>6, <3>1
      <4> QED
        BY <1>6, <2>1, <2>2, <4>1
    <3>2. CASE i > Len(P)
      <4>1. i \in Len(P) + 1 .. Len(P) + n
        BY <1>6, <3>2
      <4> QED
        BY <1>6, <2>2, <4>1
    <3> QED
      BY <1>6, <3>1, <3>2
  <2> QED
    BY <2>3
<1>9. a <= v /\ Q[1] = <<a, 1>>
  <2>1. CASE P = << >>
    BY <2>1, <1>6 DEF Run, v
  <2>2. CASE P # << >>
    <3>1. a <= Len(sl) /\ P[1] = <<a, 1>>
      BY <2>2 DEF Run
    <3>2. 1 \in 1 .. Len(P)
      BY <2>2, <1>6
    <3> QED
      BY <3>1, <3>2, <1>2, <1>6 DEF v
  <2> QED
    BY <2>1, <2>2
<1>10. ASSUME NEW i \in 1 .. Len(Q) - 1
       PROVE  Q[i + 1] = Succ(sc, sl2, Q[i])
  <2>1. CASE i < Len(P)
    <3>1. i \in 1 .. Len(P) - 1 /\ i \in 1 .. Len(P) /\ i + 1 \in 1 .. Len(P)
      BY <1>6, <2>1
    <3>2. P[i + 1] = Succ(sc, sl, P[i]) /\ P[i][1] \in 0 .. Len(sl)
      BY <3>1 DEF Run
    <3>3. Succ(sc, sl, P[i]) = Succ(sc, sl2, P[i])
      BY <1>3, <3>2 DEF Succ
    <3> QED
      BY <1>6, <3>1, <3>2, <3>3
  <2>2. CASE i = Len(P)
    <3>1. P # << >> /\ i \in 1 .. Len(P)
      BY <1>6, <2>2
    <3>2. P[i] = <<Len(sl), Size(sc, sl, Len(sl))>>
      BY <2>2, <3>1 DEF Run
    <3>3. Size(sc, sl2, Len(sl)) = Size(sc, sl, Len(sl))
      BY <1>2, <1>3
    <3>4. Size(sc, sl, Len(sl)) \in Nat
      BY <1>2, SizeType
    <3>5. Succ(sc, sl2, P[i]) = <<v, 1>>
      BY SMTT(30), <3>2, <3>3, <3>4 DEF Succ, v
    <3>6. Q[i + 1] = <<v, 1>>
      BY SMTT(30), <1>6, <2>2
    <3> QED
      BY <1>6, <3>1, <3>5, <3>6
  <2>3. CASE i > Len(P)
    <3>1. /\ i \in Len(P) + 1 .. Len(P) + n /\ i + 1 \in Len(P) + 1 .. Len(P) + n
          /\ (i + 1) - Len(P) = (i - Len(P)) + 1 /\ i - Len(P) < n
      BY <1>6, <2>3
    <3>2. Q[i] = <<v, i - Len(P)>> /\ Q[i + 1] = <<v, (i - Len(P)) + 1>>
      BY <1>6, <3>1
    <3> QED
      BY <1>4, <3>1, <3>2 DEF Succ
  <2> QED
    BY <1>6, <2>1, <2>2, <2>3
<1> QED
  BY <1>2, <1>4, <1>5, <1>7, <1>8, <1>9, <1>10 DEF Run, Q, U, v

-----------------------------------------------------------------------------
(* Lemmas: the receiver.                                                   *)

\* With four bytes in its buffer the receiver is in a packet that was sealed,
\* and reads the length of that packet.
LEMMA LengthRead ==
  ASSUME script \in Scripts, SealedOf(script, sealed),
         NEW r \in RcvType, NEW S \in Seq(Byte),
         r.ident_in_done, InStream(script, sealed, r, S),
         Len(r.read_buf) >= 4
  PROVE  LET a == Len(r.got) + 1
             n == Size(script, sealed, a)
         IN /\ a \in 1 .. Len(sealed) /\ n \in Nat \ {0}
            /\ r.cipher \in CipherKinds
            /\ sealed[a] = [length |-> PacketLength(script.msgs[a].len, r.cipher),
                            pad |-> Pad(script.msgs[a].len, r.cipher),
                            cipher |-> r.cipher]
            /\ r.read_buf[1][1] = a /\ SubSeq(r.read_buf, 1, 4) = Unit(a, 4)
            /\ LengthField(r) = sealed[a].length
            /\ n = Total(LengthField(r), r.cipher)
            /\ Len(r.read_buf) >= n => SubSeq(r.read_buf, 1, n) = Unit(a, n)
            /\ r.read_buf \o S # << >>
<1> DEFINE a == Len(r.got) + 1
           n == Size(script, sealed, a)
           B == r.read_buf
           P == B \o S
           m == script.msgs[a].len
<1>1. /\ r.got \in Seq([msg : Nat, len : Nat]) /\ B \in Seq(Byte)
      /\ r.cipher \in CipherKinds
  BY DEF RcvType
<1>2. Len(r.got) \in Nat /\ a \in Nat /\ a >= 1 /\ Len(B) \in Nat
  BY <1>1
<1>3. /\ P \in Seq(Byte) /\ Len(P) = Len(B) + Len(S) /\ Len(S) \in Nat
      /\ \A i \in 1 .. Len(B) : P[i] = B[i]
  BY <1>1, ConcatElements
<1>4. Run(script, sealed, P, a) /\ r.cipher = CipherOf(script, a)
  BY DEF InStream
<1> HIDE DEF B, P
<1>5. P # << >> /\ Len(B) >= 4
  BY <1>2, <1>3 DEF B
<1> HIDE DEF a
<1>6. /\ a \in 0 .. Len(sealed) /\ n \in Nat \ {0} /\ Len(P) >= n
      /\ \A i \in 1 .. n : P[i] = <<a, i>>
  BY <1>2, <1>3, <1>4, <1>5, RunUnit
<1>7. a \in 1 .. Len(sealed) /\ Len(sealed) \in Nat
  BY <1>2, <1>6 DEF SealedOf
<1>8. sealed[a] = [length |-> PacketLength(m, r.cipher),
                   pad |-> Pad(m, r.cipher), cipher |-> r.cipher]
  BY <1>4, <1>7 DEF SealedOf
<1>9. a \in 1 .. Len(script.msgs)
  BY <1>7, ScriptTypes DEF SealedOf
<1>10. m \in Nat \ {0}
  BY <1>9, MsgType
<1> HIDE DEF m
<1>11. n = Total(PacketLength(m, r.cipher), r.cipher) /\ n > 4
  <2>1. n = Total(sealed[a].length, sealed[a].cipher)
    BY <1>2 DEF Size
  <2>2. Total(PacketLength(m, r.cipher), r.cipher) > 4
    BY <1>1, <1>10, PacketSizes
  <2>3. /\ sealed[a].length = PacketLength(m, r.cipher)
        /\ sealed[a].cipher = r.cipher
    BY <1>8
  <2> QED
    BY <2>1, <2>2, <2>3
<1> HIDE DEF n
<1>12. B[1] = <<a, 1>> /\ B[1][1] = a
  <2>1. 1 \in 1 .. Len(B) /\ 1 \in 1 .. n
    BY <1>2, <1>5, <1>6
  <2> QED
    BY <1>3, <1>6, <2>1
<1>13. ASSUME NEW k \in Nat, k <= Len(B), k <= n
       PROVE  SubSeq(B, 1, k) = Unit(a, k)
  <2>1. \A i \in 1 .. k : B[i] = <<a, i>>
    BY SMTT(30), <1>2, <1>3, <1>6, <1>13
  <2>2. SubSeq(B, 1, k) = [i \in 1 .. k |-> B[i]]
    BY <1>1, <1>13 DEF B
  <2> QED
    BY <2>1, <2>2 DEF Unit
<1>14. SubSeq(B, 1, 4) = Unit(a, 4)
  <2>1. 4 \in Nat /\ 4 <= Len(B) /\ 4 <= n
    BY <1>2, <1>5, <1>6, <1>11
  <2> QED
    BY <1>13, <2>1
<1>15. a \in DOMAIN sealed
  BY <1>7 DEF SealedOf
<1>16. LengthField(r) = sealed[a].length
  BY <1>8, <1>12, <1>14, <1>15 DEF LengthField, B
<1>17. Len(B) >= n => SubSeq(B, 1, n) = Unit(a, n)
  BY <1>2, <1>6, <1>13
<1> QED
  BY <1>1, <1>5, <1>6, <1>7, <1>8, <1>11, <1>12, <1>14, <1>16, <1>17
     DEF B, P, a, n, m

\* A receiver that is after the line, in step or refused.
Framed(r, S) == RcvOk(script, sealed, r, S) /\ r.ident_in_done

\* A turn of try_one_packet refuses a packet that does not fit, finds nothing
\* to do, or takes the one message that is due.
LEMMA PacketTurn ==
  ASSUME script \in Scripts, SealedOf(script, sealed),
         NEW r, NEW S \in Seq(Byte), Framed(r, S), ~r.error
  PROVE  LET t == TryOnePacket(r)
         IN /\ Framed(t, S)
            /\ \/ t.error
               \/ t = r /\ NoWholePacket(r)
               \/ Len(t.got) = Len(r.got) + 1
<1> DEFINE t == TryOnePacket(r)
           a == Len(r.got) + 1
           n == Size(script, sealed, a)
           m == script.msgs[a].len
           B == r.read_buf
<1>1. /\ r \in RcvType /\ GotOf(script, sealed, r) /\ r.ident_in_done
      /\ InStream(script, sealed, r, S)
  BY DEF Framed, RcvOk
<1>2. /\ r.got \in Seq([msg : Nat, len : Nat]) /\ B \in Seq(Byte)
      /\ r.cipher \in CipherKinds /\ Len(r.got) \in Nat /\ Len(B) \in Nat
      /\ a \in Nat
  BY <1>1 DEF RcvType
<1>3. CASE Len(B) < 4
  <2>1. t = r /\ NoWholePacket(r)
    BY <1>3 DEF TryOnePacket, NoWholePacket
  <2> HIDE DEF t
  <2> QED
    BY <2>1 DEF t
<1>4. CASE Len(B) >= 4
  <2>1. /\ a \in 1 .. Len(sealed) /\ n \in Nat \ {0}
        /\ sealed[a] = [length |-> PacketLength(m, r.cipher),
                        pad |-> Pad(m, r.cipher), cipher |-> r.cipher]
        /\ B[1][1] = a
        /\ LengthField(r) = sealed[a].length
        /\ n = Total(LengthField(r), r.cipher)
        /\ Len(B) >= n => SubSeq(B, 1, n) = Unit(a, n)
        /\ B \o S # << >>
    BY <1>1, <1>4, LengthRead
  <2>2. a \in 1 .. Len(script.msgs) /\ m \in Nat \ {0} /\ Len(sealed) \in Nat
    <3> HIDE DEF a
    <3>1. a \in 1 .. Len(script.msgs) /\ Len(sealed) \in Nat
      BY SMTT(30), <2>1, ScriptTypes DEF SealedOf
    <3> QED
      BY <3>1, MsgType
  <2>3. /\ LengthField(r) = PacketLength(m, r.cipher)
        /\ sealed[a].pad = Pad(m, r.cipher)
    BY <2>1
  <2>4. /\ PaddingOk(LengthField(r), sealed[a].pad)
        /\ PayloadLen(LengthField(r), sealed[a].pad) = m
    BY <1>2, <2>2, <2>3, PacketSizes
  <2>5. r.cipher = CipherOf(script, a) /\ Run(script, sealed, B \o S, a)
        /\ r.ident_acc = << >>
    BY <1>1 DEF InStream
  <2>6. FitsIn(script, a) <=> LengthOk(LengthField(r))
    BY <2>3, <2>5 DEF FitsIn
  <2> HIDE DEF a, n, m, B
  <2>7. CASE ~LengthOk(LengthField(r))
    <3>1. t = Fail(r)
      BY <1>2, <1>4, <2>7 DEF TryOnePacket, B
    <3>2. t \in RcvType /\ t.error /\ t.got = r.got /\ t.ident_in_done
      BY <1>1, <3>1 DEF Fail, RcvType
    <3>3. ~FitsIn(script, Len(t.got) + 1)
      BY <2>6, <2>7, <3>2 DEF a
    <3>4. GotOf(script, sealed, t)
      BY <1>1, <3>2, <3>3 DEF GotOf
    <3> HIDE DEF t
    <3> QED
      BY <3>2, <3>4 DEF Framed, RcvOk, t
  <2>8. CASE LengthOk(LengthField(r)) /\ Len(B) < n
    <3>1. t = r /\ NoWholePacket(r)
      BY <1>2, <1>4, <2>1, <2>8 DEF TryOnePacket, NoWholePacket, B
    <3> HIDE DEF t
    <3> QED
      BY <3>1 DEF t
  <2>9. CASE LengthOk(LengthField(r)) /\ Len(B) >= n
    <3> DEFINE rest == [r EXCEPT !.read_buf = SubSeq(@, n + 1, Len(@))]
               h == HandlePayload(rest, a, m)
    <3>1. t = h
      <4>1. /\ ~(r.error \/ Len(r.read_buf) < 4)
            /\ LengthOk(LengthField(r))
            /\ ~(Len(r.read_buf) < Total(LengthField(r), r.cipher))
            /\ SubSeq(r.read_buf, 1, Total(LengthField(r), r.cipher))
                 = Unit(r.read_buf[1][1], Total(LengthField(r), r.cipher))
            /\ PaddingOk(LengthField(r), sealed[r.read_buf[1][1]].pad)
        BY <1>2, <1>4, <2>1, <2>4, <2>9 DEF B
      <4>2. t = HandlePayload(
                  [r EXCEPT !.read_buf =
                     SubSeq(@, Total(LengthField(r), r.cipher) + 1, Len(@))],
                  r.read_buf[1][1],
                  PayloadLen(LengthField(r), sealed[r.read_buf[1][1]].pad))
        BY <4>1 DEF TryOnePacket
      <4> HIDE DEF t
      <4> QED
        BY <2>1, <2>4, <4>2 DEF B
    <3>2. /\ SubSeq(B, n + 1, Len(B)) \in Seq(Byte)
          /\ SubSeq(B \o S, n + 1, Len(B \o S)) = SubSeq(B, n + 1, Len(B)) \o S
      <4>1. n \in 0 .. Len(B)
        BY <1>2, <2>1, <2>9
      <4> QED
        BY <1>2, <4>1, ConcatCut
    <3>3. Run(script, sealed, SubSeq(B, n + 1, Len(B)) \o S, a + 1)
      <4>1. B \o S \in Seq(Byte)
        BY <1>2
      <4>2. Run(script, sealed, SubSeq(B \o S, n + 1, Len(B \o S)), a + 1)
        BY <1>2, <2>1, <2>5, <4>1, RunDrop DEF n
      <4> QED
        BY <3>2, <4>2
    <3>4. CipherOf(script, a + 1) = IF script.msgs[a].newkeys = None
                                      THEN r.cipher ELSE script.msgs[a].newkeys
      BY <2>2, <2>5, CipherNext
    <3>5. CipherOf(script, a + 1) \in CipherKinds
      <4>1. a + 1 \in 1 .. Len(script.msgs) + 1
        BY <2>2
      <4> QED
        BY <4>1, CipherType
    <3>6. /\ h.got = Append(r.got, [msg |-> a, len |-> m])
          /\ h.cipher = CipherOf(script, a + 1)
          /\ h.read_buf = SubSeq(B, n + 1, Len(B))
          /\ h.error = FALSE /\ h.ident_in_done = TRUE
          /\ h.ident_acc = << >>
          /\ DOMAIN h = DOMAIN r
      BY <1>1, <2>5, <3>4 DEF HandlePayload, RcvType, B
    <3>7. h \in RcvType
      <4>1. h.got \in Seq([msg : Nat, len : Nat])
        <5> DEFINE G == [msg : Nat, len : Nat]
        <5>1. [msg |-> a, len |-> m] \in G /\ r.got \in Seq(G)
          BY <1>2, <2>2
        <5> HIDE DEF G
        <5>2. Append(r.got, [msg |-> a, len |-> m]) \in Seq(G)
          BY <5>1
        <5> QED
          BY <3>6, <5>2 DEF G
      <4> QED
        BY <1>1, <3>2, <3>4, <3>5, <3>6, <4>1 DEF RcvType, HandlePayload
    <3> HIDE DEF h, rest
    <3>8. /\ Len(h.got) = a
          /\ h.got[a] = [msg |-> a, len |-> m]
          /\ \A u \in 1 .. Len(r.got) : h.got[u] = r.got[u]
      BY <1>2, <2>2, <3>6 DEF a
    <3>9. GotOf(script, sealed, h)
      <4>1. ASSUME NEW u \in 1 .. Len(h.got)
            PROVE  /\ h.got[u] = [msg |-> u, len |-> script.msgs[u].len]
                   /\ FitsIn(script, u)
        <5>1. CASE u = a
          BY <2>6, <2>9, <3>8, <5>1 DEF m
        <5>2. CASE u # a
          <6>1. u \in 1 .. Len(r.got)
            BY <1>2, <3>8, <5>2 DEF a
          <6> QED
            BY <1>1, <3>8, <6>1 DEF GotOf
        <5> QED
          BY <5>1, <5>2
      <4>2. GoodLine(script)
        BY <1>1 DEF GotOf
      <4>3. Len(h.got) <= Len(sealed)
        BY <2>1, <2>2, <3>8
      <4> QED
        BY <3>6, <4>1, <4>2, <4>3 DEF GotOf
    <3>10. InStream(script, sealed, h, S)
      BY <3>3, <3>6, <3>8 DEF InStream
    <3>11. Len(h.got) = Len(r.got) + 1
      BY <3>8 DEF a
    <3> HIDE DEF t
    <3> QED
      BY <3>1, <3>6, <3>7, <3>9, <3>10, <3>11 DEF Framed, RcvOk, t
  <2> QED
    BY <1>2, <2>1, <2>7, <2>8, <2>9 DEF B
<1> QED
  BY <1>2, <1>3, <1>4

\* A receiver with nothing to do, or refused, is left alone.
LEMMA TurnIdle ==
  ASSUME NEW r, r.error \/ NoWholePacket(r)
  PROVE  TryOnePacket(r) = r
  BY DEF TryOnePacket, NoWholePacket

\* The fold of TryPackets, step by step.
Turn(x, r, m) == TryOnePacket(r)

TF == INSTANCE FoldLemmas WITH Op <- Turn

\* try_packets takes one turn of its loop after the other.
LEMMA TryPacketsFold == \A r : TryPackets(r) = TF!Fold(0, r, script.msgs)
  BY DEF TryPackets, TF!Fold, TF!IsFold, TF!Largest, Turn, FoldLeft,
         MapThenFoldSet, Max

\* As many turns as there are messages are enough: after k of them the
\* receiver is refused, has nothing to do, or has k messages.
LEMMA PacketLoop ==
  ASSUME script \in Scripts, SealedOf(script, sealed),
         NEW r, NEW S \in Seq(Byte), Framed(r, S), ~r.error
  PROVE  LET t == TryPackets(r)
         IN Framed(t, S) /\ (t.error \/ NoWholePacket(t))
<1> DEFINE n == Len(script.msgs)
<1>1. n \in Nat /\ DOMAIN script.msgs = 1 .. n
  BY ScriptTypes
<1> HIDE DEF n
<1>2. PICK g : TF!IsChain(g, 0, r, script.msgs, n)
               /\ TF!Fold(0, r, script.msgs) = g[n]
  BY <1>1, TF!FoldChain
<1>3. TryPackets(r) = g[n]
  BY <1>2, TryPacketsFold
<1>4. g[0] = r /\ \A k \in 1 .. n : g[k] = TryOnePacket(g[k - 1])
  BY <1>2 DEF TF!IsChain, Turn
<1> DEFINE Done(t, k) == t.error \/ NoWholePacket(t) \/ Len(t.got) >= k
           T == {k \in 0 .. n : Framed(g[k], S) /\ Done(g[k], k)}
<1>5. ASSUME NEW t, Framed(t, S) PROVE Len(t.got) \in Nat
  <2>1. t.got \in Seq([msg : Nat, len : Nat])
    BY <1>5 DEF Framed, RcvOk, RcvType
  <2> QED
    BY <2>1
<1>6. 0 \in T
  BY <1>1, <1>4, <1>5
<1>7. ASSUME NEW k \in 1 .. n, k - 1 \in T PROVE k \in T
  <2> DEFINE t == g[k - 1]
  <2>1. Framed(t, S) /\ Done(t, k - 1) /\ g[k] = TryOnePacket(t)
    BY <1>4, <1>7
  <2> HIDE DEF t
  <2>2. CASE t.error \/ NoWholePacket(t)
    <3>1. g[k] = t
      BY <2>1, <2>2, TurnIdle
    <3> QED
      BY <2>1, <2>2, <3>1
  <2>3. CASE ~t.error /\ ~NoWholePacket(t)
    <3>1. /\ Framed(g[k], S)
          /\ g[k].error \/ Len(g[k].got) = Len(t.got) + 1
      BY <2>1, <2>3, PacketTurn
    <3>2. Len(t.got) \in Nat /\ Len(t.got) >= k - 1
      BY <1>5, <2>1, <2>3
    <3> QED
      BY <1>1, <3>1, <3>2
  <2> QED
    BY <2>2, <2>3
<1> HIDE DEF T
<1>8. 0 .. n \subseteq T
  BY <1>1, <1>6, <1>7, IntervalInduction
<1>9. Framed(g[n], S) /\ Done(g[n], n)
  BY <1>1, <1>8 DEF T
<1>10. ASSUME ~g[n].error, Len(g[n].got) >= n PROVE NoWholePacket(g[n])
  <2> DEFINE t == g[n]
  <2>1. /\ t \in RcvType /\ Len(t.got) \in Nat
        /\ Run(script, sealed, t.read_buf \o S, Len(t.got) + 1)
    BY <1>5, <1>9, <1>10 DEF Framed, RcvOk, InStream
  <2>2. t.read_buf \in Seq(Byte)
    BY <2>1 DEF RcvType
  <2>3. Len(sealed) \in Nat /\ Len(sealed) <= n
    BY DEF SealedOf, n
  <2> HIDE DEF t
  <2>4. t.read_buf \o S = << >>
    <3>1. ~(Len(t.got) + 1 <= Len(sealed))
      BY <1>1, <1>10, <2>1, <2>3 DEF t
    <3> QED
      BY <2>1, <3>1 DEF Run
  <2>5. Len(t.read_buf) = 0
    BY <2>2, <2>4
  <2> QED
    BY <2>5 DEF NoWholePacket, t
<1> QED
  BY <1>3, <1>9, <1>10

\* The newline is found at the end of the line, once it has been received.
LEMMA NewlineFound ==
  ASSUME script \in Scripts, NEW acc \in Seq(Byte), NEW n,
         n = script.ident.len,
         \A i \in 1 .. Len(acc) : i <= n => acc[i] = <<0, i>>
  PROVE  NewlineAt(acc) = IF Len(acc) < n THEN 0 ELSE n
<1> DEFINE I == {i \in 1 .. Len(acc) : IsNewline(acc[i])}
<1>1. n \in Nat \ {0} /\ Len(acc) \in Nat
  BY ScriptTypes
<1>2. NewlineAt(acc) = IF I # {} THEN Min(I) ELSE 0
  BY DEF NewlineAt, SelectInSeq
<1>3. \A i \in 1 .. Len(acc) : i <= n => (i \in I <=> i = n)
  BY <1>1 DEF IsNewline
<1>4. CASE Len(acc) < n
  <2>1. I = {}
    BY <1>1, <1>3, <1>4
  <2> QED
    BY <1>2, <1>4, <2>1
<1>5. CASE Len(acc) >= n
  <2>1. n \in I /\ I \subseteq Nat
    BY <1>1, <1>3, <1>5
  <2>2. \A i \in I : n <= i
    BY <1>1, <1>3, <2>1
  <2> HIDE DEF I
  <2>3. Min(I) = n
    <3>1. \A x \in I : (\A y \in I : x <= y) => x = n
      BY <1>1, <2>1, <2>2
    <3> QED
      BY <2>1, <2>2, <3>1 DEF Min
  <2> QED
    BY <1>1, <1>2, <1>5, <2>1, <2>3
<1> QED
  BY <1>1, <1>4, <1>5

\* try_ident collects the line, refuses a bad one, and passes on what follows
\* a good one.
LEMMA IdentTurn ==
  ASSUME script \in Scripts, SealedOf(script, sealed),
         NEW r, NEW S \in Seq(Byte), RcvOk(script, sealed, r, S),
         ~r.error, ~r.ident_in_done
  PROVE  LET t == TryIdent(r)
         IN /\ RcvOk(script, sealed, t, S)
            /\ t.error \/ t.ident_in_done \/ Quiet(script, t)
<1> DEFINE t == TryIdent(r)
           acc == r.ident_acc \o r.read_buf
           P == acc \o S
           n == script.ident.len
           w == [r EXCEPT !.ident_acc = acc, !.read_buf = << >>]
           cut == SubSeq(acc, n + 1, Len(acc))
<1>1. /\ r \in RcvType /\ GotOf(script, sealed, r)
      /\ r.got = << >> /\ r.cipher = "clear" /\ Run(script, sealed, P, 0)
  BY DEF RcvOk, InStream
<1>2. r.ident_acc \in Seq(Byte) /\ r.read_buf \in Seq(Byte)
  BY <1>1 DEF RcvType
<1>3. acc \in Seq(Byte) /\ Len(acc) \in Nat
  <2>1. acc \in Seq(Byte)
    BY <1>2, ConcatElements
  <2> HIDE DEF acc
  <2> QED
    BY <2>1
<1> HIDE DEF acc
<1>4. /\ P \in Seq(Byte) /\ Len(P) = Len(acc) + Len(S)
      /\ \A i \in 1 .. Len(acc) : P[i] = acc[i]
  BY <1>3, ConcatElements
<1>5. n \in Nat \ {0} /\ n = Size(script, sealed, 0)
  BY ScriptTypes DEF Size
<1>6. P # << >>
  <2>1. Len(sealed) \in Nat
    BY DEF SealedOf
  <2> HIDE DEF P
  <2> QED
    BY <1>1, <2>1 DEF Run
<1> HIDE DEF P, n
<1>7. Len(P) >= n /\ \A i \in 1 .. n : P[i] = <<0, i>>
  <2>1. 0 \in Nat
    OBVIOUS
  <2> QED
    BY <1>1, <1>4, <1>5, <1>6, <2>1, RunUnit
<1>8. NewlineAt(acc) = IF Len(acc) < n THEN 0 ELSE n
  <2>1. \A i \in 1 .. Len(acc) : i <= n => acc[i] = <<0, i>>
    BY <1>3, <1>4, <1>5, <1>7
  <2> QED
    BY <1>3, <2>1, NewlineFound DEF n
<1>9. /\ w \in RcvType /\ w.got = << >> /\ w.cipher = "clear"
      /\ w.ident_acc = acc /\ w.read_buf = << >>
      /\ ~w.error /\ ~w.ident_in_done
  <2>1. << >> \in Seq(Byte)
    OBVIOUS
  <2>2. w \in RcvType
    BY <1>1, <1>3, <2>1 DEF RcvType
  <2> QED
    BY <1>1, <2>2 DEF RcvType
<1>10. GotOf(script, sealed, w)
  BY <1>1, <1>9 DEF GotOf
<1>11. ASSUME ~GoodLine(script), t = Fail(w)
       PROVE  RcvOk(script, sealed, t, S) /\ t.error
  <2>1. t \in RcvType /\ t.error /\ t.got = w.got /\ ~t.ident_in_done
    BY <1>9, <1>11 DEF Fail, RcvType
  <2> HIDE DEF t
  <2>2. GotOf(script, sealed, t)
    BY <1>10, <1>11, <2>1 DEF GotOf
  <2> QED
    BY <2>1, <2>2 DEF RcvOk
<1>12. CASE Len(acc) < n
  <2>1. t = IF Len(acc) > IdentMax THEN Fail(w) ELSE w
    BY <1>8, <1>12 DEF TryIdent, acc
  <2> HIDE DEF t
  <2>2. CASE Len(acc) > IdentMax
    <3>1. ~GoodLine(script)
      BY <1>3, <1>5, <1>12, <2>2, FramingAssumptions DEF GoodLine, n
    <3> QED
      BY <1>11, <2>1, <2>2, <3>1 DEF t
  <2>3. CASE ~(Len(acc) > IdentMax)
    <3>1. t = w
      BY <2>1, <2>3
    <3>2. w.ident_acc \o w.read_buf = acc
      BY <1>3, <1>9
    <3> HIDE DEF w
    <3>3. InStream(script, sealed, w, S)
      BY <1>1, <1>9, <3>2 DEF InStream, P
    <3>4. Quiet(script, w)
      BY <1>3, <1>9, <2>3, FramingAssumptions DEF Quiet
    <3> QED
      BY <1>9, <1>10, <3>1, <3>3, <3>4 DEF RcvOk, t
  <2> QED
    BY <2>2, <2>3
<1>13. CASE Len(acc) >= n
  <2>1. NewlineAt(acc) = n /\ n # 0
    BY <1>3, <1>5, <1>8, <1>13
  <2> DEFINE d == [w EXCEPT !.ident_in_done = TRUE, !.ident_acc = << >>,
                            !.read_buf = cut]
  <2>2. t = IF n > IdentMax \/ ~script.ident.ok THEN Fail(w) ELSE d
    BY <2>1 DEF TryIdent, acc
  <2> HIDE DEF t
  <2>3. CASE n > IdentMax \/ ~script.ident.ok
    <3>1. ~GoodLine(script)
      BY <1>5, <2>3, FramingAssumptions DEF GoodLine, n
    <3> QED
      BY <1>11, <2>2, <2>3, <3>1 DEF t
  <2>4. CASE ~(n > IdentMax \/ ~script.ident.ok)
    <3>1. t = d
      BY <2>2, <2>4
    <3>2. /\ cut \in Seq(Byte)
          /\ SubSeq(P, n + 1, Len(P)) = cut \o S
      <4>1. n \in 0 .. Len(acc)
        BY <1>3, <1>5, <1>13
      <4> QED
        BY <1>3, <4>1, ConcatCut DEF P
    <3> HIDE DEF cut
    <3>3. Run(script, sealed, cut \o S, 1)
      <4>1. 0 \in Nat /\ 0 + 1 = 1
        OBVIOUS
      <4>2. Run(script, sealed, SubSeq(P, n + 1, Len(P)), 0 + 1)
        BY <1>1, <1>4, <1>5, <1>6, <4>1, RunDrop
      <4> QED
        BY <3>2, <4>1, <4>2
    <3>4. /\ d \in RcvType /\ d.got = << >> /\ d.cipher = "clear"
          /\ d.ident_acc = << >> /\ d.read_buf = cut
          /\ ~d.error /\ d.ident_in_done
      BY <1>9, <3>2 DEF RcvType
    <3> HIDE DEF d, w
    <3>5. Len(d.got) + 1 = 1
      BY <3>4
    <3>6. GoodLine(script)
      BY <1>5, <2>4, FramingAssumptions DEF GoodLine, n
    <3>7. GotOf(script, sealed, d)
      BY <1>9, <1>10, <3>4, <3>6 DEF GotOf
    <3>8. InStream(script, sealed, d, S)
      BY <3>3, <3>4, <3>5, CipherFirst DEF InStream
    <3> QED
      BY <3>1, <3>4, <3>7, <3>8 DEF RcvOk, t
  <2> QED
    BY <2>3, <2>4
<1> QED
  BY <1>3, <1>5, <1>12, <1>13

\* process_in keeps the receiver in step and leaves it nothing to do.
LEMMA ProcessInOk ==
  ASSUME script \in Scripts, SealedOf(script, sealed),
         NEW r, NEW S \in Seq(Byte), RcvOk(script, sealed, r, S), ~r.error
  PROVE  LET t == ProcessIn(r)
         IN RcvOk(script, sealed, t, S) /\ (~t.error => Quiet(script, t))
<1> DEFINE i == IF r.ident_in_done THEN r ELSE TryIdent(r)
           t == ProcessIn(r)
<1>1. t = IF i.error \/ ~i.ident_in_done THEN i ELSE TryPackets(i)
  BY DEF ProcessIn
<1>2. /\ RcvOk(script, sealed, i, S)
      /\ i.error \/ i.ident_in_done \/ Quiet(script, i)
  <2>1. CASE r.ident_in_done
    BY <2>1
  <2>2. CASE ~r.ident_in_done
    BY <2>2, IdentTurn
  <2> QED
    BY <2>1, <2>2
<1> HIDE DEF i, t
<1>3. CASE i.error \/ ~i.ident_in_done
  BY <1>1, <1>2, <1>3 DEF t
<1>4. CASE ~i.error /\ i.ident_in_done
  <2>1. t = TryPackets(i)
    BY <1>1, <1>4
  <2>2. Framed(t, S) /\ (t.error \/ NoWholePacket(t))
    BY <1>2, <1>4, <2>1, PacketLoop DEF Framed
  <2> QED
    BY <2>2 DEF Framed, Quiet, t
<1> QED
  BY <1>3, <1>4

-----------------------------------------------------------------------------
(* The invariant is inductive.                                             *)

\* The buffers of the sender are sequences of bytes.
LEMMA QueuedType ==
  ASSUME NEW s \in SndType
  PROVE  /\ s.current_out \in Seq(Byte) /\ s.ident_out \in Seq(Byte)
         /\ s.write_q \in Seq(Seq(Byte)) /\ FlattenSeq(s.write_q) \in Seq(Byte)
         /\ s.ident_out \o FlattenSeq(s.write_q) \in Seq(Byte)
         /\ Queued(s) \in Seq(Byte)
<1>1. /\ s.current_out \in Seq(Byte) /\ s.ident_out \in Seq(Byte)
      /\ s.write_q \in Seq(Seq(Byte))
  BY DEF SndType
<1>2. FlattenSeq(s.write_q) \in Seq(Byte)
  BY <1>1, FlattenType
<1>3. s.ident_out \o FlattenSeq(s.write_q) \in Seq(Byte)
  BY <1>1, <1>2, ConcatElements
<1> QED
  BY <1>1, <1>2, <1>3, ConcatElements DEF Queued

\* A receiver that is in step stays so when its bytes are grouped in another
\* way, and only bytes that are still to come are added.
LEMMA RcvOkRegroup ==
  ASSUME NEW sc, NEW sl, NEW r, NEW S \in Seq(Byte), NEW x \in Seq(Byte),
         NEW y \in Seq(Byte), NEW w, w = x \o y, NEW z, z = y \o S,
         RcvOk(sc, sl, r, w \o S)
  PROVE  RcvOk(sc, sl, [r EXCEPT !.read_buf = @ \o x], z)
<1> DEFINE t == [r EXCEPT !.read_buf = @ \o x]
           b == r.read_buf
           c == r.ident_acc
           d == c \o b
<1>1. r \in RcvType /\ GotOf(sc, sl, r)
      /\ (~r.error => InStream(sc, sl, r, w \o S))
  BY DEF RcvOk
<1>2. b \in Seq(Byte) /\ c \in Seq(Byte) /\ d \in Seq(Byte)
      /\ b \o x \in Seq(Byte)
  <2>1. b \in Seq(Byte) /\ c \in Seq(Byte)
    BY <1>1 DEF RcvType
  <2> QED
    BY <2>1, ConcatElements
<1>3. /\ t \in RcvType /\ t.read_buf = b \o x /\ t.got = r.got
      /\ t.ident_acc = c /\ t.cipher = r.cipher
      /\ t.error = r.error /\ t.ident_in_done = r.ident_in_done
  BY <1>1, <1>2 DEF RcvType
<1> HIDE DEF t, b, c
<1>4. x \in Seq(Byte) /\ y \in Seq(Byte) /\ S \in Seq(Byte) /\ z \in Seq(Byte)
  BY ConcatElements
<1>5. w \o S = x \o z
  <2>1. (x \o y) \o S = x \o (y \o S)
    BY ONLY <1>4
  <2> QED
    BY <2>1
<1>6. (b \o x) \o z = b \o (w \o S)
  <2>1. (b \o x) \o z = b \o (x \o z)
    BY ONLY <1>2, <1>4
  <2> QED
    BY <1>5, <2>1
<1>7. (c \o (b \o x)) \o z = d \o (w \o S)
  <2>1. (c \o b) \o x = c \o (b \o x)
    BY ONLY SMTT(30), <1>2, <1>4
  <2> HIDE DEF d
  <2>2. (d \o x) \o z = d \o (w \o S)
    <3>1. (d \o x) \o z = d \o (x \o z)
      BY ONLY SMTT(30), <1>2, <1>4
    <3> QED
      BY <1>5, <3>1
  <2>3. d \o x = c \o (b \o x)
    BY <2>1 DEF d
  <2> QED
    BY <2>2, <2>3
<1>8. ~t.error => InStream(sc, sl, t, z)
  BY <1>1, <1>3, <1>6, <1>7 DEF InStream, b, c
<1>9. GotOf(sc, sl, t)
  BY <1>1, <1>3 DEF GotOf
<1> QED
  BY <1>3, <1>8, <1>9 DEF RcvOk, t

\* Initially the line is all there is.
LEMMA InitIInv == Init => IInv
<1> SUFFICES ASSUME Init PROVE IInv
  OBVIOUS
<1> DEFINE n == script.ident.len
           S == wire \o Queued(snd)
<1>1. script \in Scripts /\ n \in Nat \ {0}
  BY ScriptTypes DEF Init
<1>2. SealedOf(script, sealed) /\ sealed = << >> /\ Len(sealed) = 0
  <2>1. Len(script.msgs) \in Nat
    BY <1>1, ScriptTypes
  <2> QED
    BY <2>1 DEF Init, SealedOf
<1>3. /\ IdentLine \in Seq(Byte) /\ Len(IdentLine) = n
      /\ \A i \in 1 .. n : IdentLine[i] = <<0, i>>
  <2> HIDE DEF n
  <2>1. IdentLine = [i \in 1 .. n |-> <<0, i>>]
    BY DEF IdentLine, Unit, n
  <2>2. IdentLine \in [1 .. n -> Byte]
    BY <2>1 DEF Byte
  <2> QED
    BY <1>1, <2>1, <2>2, FunctionIsSeq
<1>4. snd \in SndType /\ snd.write_q = << >> /\ snd.cipher = "clear"
  BY <1>3 DEF Init, SndType, CipherKinds
<1>5. /\ wire = << >> /\ rcv \in RcvType /\ rcv.got = << >>
      /\ rcv.cipher = "clear" /\ rcv.ident_acc = << >> /\ rcv.read_buf = << >>
      /\ ~rcv.error /\ ~rcv.ident_in_done
  <2>1. << >> \in Seq(Byte) /\ << >> \in Seq([msg : Nat, len : Nat])
    OBVIOUS
  <2> QED
    BY <2>1 DEF Init, RcvType, CipherKinds
<1>6. S = IdentLine
  BY <1>3, <1>5, FlattenEmpty DEF Init, Queued
<1>7. Counted(snd)
  BY FlattenEmpty DEF Init, Counted
<1>8. Run(script, sealed, IdentLine, 0)
  <2> HIDE DEF n
  <2>1. Size(script, sealed, 0) = n
    BY DEF Size, n
  <2>2. IdentLine # << >> /\ IdentLine[1] = <<0, 1>> /\ IdentLine[n] = <<0, n>>
    BY <1>1, <1>3
  <2>3. \A i \in 1 .. n - 1 : IdentLine[i + 1] = Succ(script, sealed, IdentLine[i])
    BY <1>1, <1>3, <2>1 DEF Succ
  <2> QED
    BY <1>1, <1>2, <1>3, <2>1, <2>2, <2>3 DEF Run
<1>9. (rcv.ident_acc \o rcv.read_buf) \o S = IdentLine
  BY <1>3, <1>5, <1>6
<1>10. RcvOk(script, sealed, rcv, S)
  <2>1. GotOf(script, sealed, rcv)
    BY <1>2, <1>5 DEF GotOf
  <2> HIDE DEF S
  <2> QED
    BY <1>5, <1>8, <1>9, <2>1 DEF RcvOk, InStream
<1>11. Quiet(script, rcv)
  BY <1>5, FramingAssumptions DEF Quiet
<1>12. CipherOf(script, Len(sealed) + 1) = "clear"
  BY <1>1, <1>2, CipherFirst
<1> QED
  BY <1>1, <1>2, <1>4, <1>5, <1>7, <1>10, <1>11, <1>12 DEF IInv

\* A read moves bytes from the wire to the receiver.
LEMMA ReadIInv == IInv /\ Read => IInv'
<1> SUFFICES ASSUME IInv, Read PROVE IInv'
  OBVIOUS
<1>1. PICK n \in 1 .. Len(wire) :
        /\ ~rcv.error
        /\ wire' = SubSeq(wire, n + 1, Len(wire))
        /\ rcv' = ProcessIn([rcv EXCEPT !.read_buf = @ \o SubSeq(wire, 1, n)])
        /\ UNCHANGED <<script, sealed, snd>>
  BY DEF Read
<1> DEFINE x == SubSeq(wire, 1, n)
           y == SubSeq(wire, n + 1, Len(wire))
           S == Queued(snd)
           r == [rcv EXCEPT !.read_buf = @ \o x]
<1>2. /\ script \in Scripts /\ SealedOf(script, sealed) /\ snd \in SndType
      /\ wire \in Seq(Byte) /\ RcvOk(script, sealed, rcv, wire \o S)
  BY DEF IInv
<1>3. x \in Seq(Byte) /\ y \in Seq(Byte) /\ wire = x \o y
  BY <1>2, CutInTwo
<1>4. S \in Seq(Byte)
  BY <1>2, QueuedType
<1>5. wire' = y /\ rcv' = ProcessIn(r)
  BY <1>1
<1> HIDE DEF x, y, S
<1> DEFINE z == y \o S
<1> HIDE DEF z
<1>6. RcvOk(script, sealed, r, z)
  <2>1. z = y \o S
    BY DEF z
  <2> QED
    BY <1>2, <1>3, <1>4, <2>1, RcvOkRegroup
<1>7. ~r.error
  BY <1>1, <1>2 DEF RcvOk, RcvType
<1>8. z \in Seq(Byte)
  BY <1>3, <1>4, ConcatElements DEF z
<1> HIDE DEF r
<1>9. RcvOk(script, sealed, rcv', z) /\ (~rcv'.error => Quiet(script, rcv'))
  BY <1>2, <1>5, <1>6, <1>7, <1>8, ProcessInOk
<1>10. Quiet(script, rcv)' <=> Quiet(script, rcv')
  BY <1>1 DEF Quiet, NoWholePacket, LengthField
<1> QED
  BY <1>1, <1>2, <1>3, <1>5, <1>9, <1>10 DEF IInv, S, z

\* A packet that is sealed leaves the receiver in step.
LEMMA RcvOkAppend ==
  ASSUME NEW sc \in Scripts, NEW sl, SealedOf(sc, sl),
         NEW e \in [length : Nat, pad : Nat, cipher : CipherKinds],
         NEW sl2, sl2 = Append(sl, e),
         NEW n \in Nat \ {0}, n = Total(e.length, e.cipher),
         NEW r, NEW S \in Seq(Byte), RcvOk(sc, sl, r, S)
  PROVE  RcvOk(sc, sl2, r, S \o Unit(Len(sl) + 1, n))
<1> DEFINE U == Unit(Len(sl) + 1, n)
           b == r.read_buf
           c == r.ident_acc
           d == c \o b
<1>1. /\ r \in RcvType /\ GotOf(sc, sl, r)
      /\ ~r.error => InStream(sc, sl, r, S)
  BY DEF RcvOk
<1>2. b \in Seq(Byte) /\ d \in Seq(Byte) /\ S \in Seq(Byte)
      /\ b \o S \in Seq(Byte) /\ d \o S \in Seq(Byte) /\ Len(r.got) \in Nat
  <2>1. b \in Seq(Byte) /\ c \in Seq(Byte)
        /\ r.got \in Seq([msg : Nat, len : Nat])
    BY <1>1 DEF RcvType
  <2>2. d \in Seq(Byte)
    BY <2>1, ConcatElements
  <2>3. Len(r.got) \in Nat
    BY <2>1
  <2> HIDE DEF d, b
  <2> QED
    BY <2>1, <2>2, <2>3, ConcatElements
<1> HIDE DEF b, d
<1>3. ASSUME NEW P \in Seq(Byte), NEW a \in Nat, Run(sc, sl, P, a)
      PROVE  U \in Seq(Byte) /\ Run(sc, sl2, P \o U, a)
  BY <1>3, RunAppend
<1>4. Len(sl2) = Len(sl) + 1 /\ Len(sl) \in Nat
  <2> DEFINE K == [length : Nat, pad : Nat, cipher : CipherKinds]
  <2>1. sl \in Seq(K)
    BY DEF SealedOf
  <2> HIDE DEF K
  <2> QED
    BY <2>1
<1>5. GotOf(sc, sl2, r)
  BY <1>1, <1>2, <1>4 DEF GotOf
<1>6. ASSUME ~r.error PROVE InStream(sc, sl2, r, S \o U)
  <2>1. CASE r.ident_in_done
    <3> DEFINE P == b \o S
               a == Len(r.got) + 1
    <3>1. Run(sc, sl, P, a) /\ r.ident_acc = << >> /\ r.cipher = CipherOf(sc, a)
      BY <1>1, <1>6, <2>1 DEF InStream, b
    <3>2. P \in Seq(Byte) /\ a \in Nat
      BY <1>2
    <3> HIDE DEF P, a, U
    <3>3. U \in Seq(Byte) /\ Run(sc, sl2, P \o U, a)
      BY <1>3, <3>1, <3>2
    <3>4. (b \o S) \o U = b \o (S \o U)
      BY ONLY SMTT(30), <1>2, <3>3
    <3> QED
      BY <2>1, <3>1, <3>3, <3>4 DEF InStream, P, a, b
  <2>2. CASE ~r.ident_in_done
    <3> DEFINE P == d \o S
    <3>1. Run(sc, sl, P, 0) /\ r.got = << >> /\ r.cipher = "clear"
      BY <1>1, <1>6, <2>2 DEF InStream, b, d
    <3>2. P \in Seq(Byte) /\ 0 \in Nat
      BY <1>2
    <3> HIDE DEF P, U
    <3>3. U \in Seq(Byte) /\ Run(sc, sl2, P \o U, 0)
      BY <1>3, <3>1, <3>2
    <3>4. (d \o S) \o U = d \o (S \o U)
      BY ONLY SMTT(30), <1>2, <3>3
    <3> QED
      BY <2>2, <3>1, <3>3, <3>4 DEF InStream, P, d, b
  <2> QED
    BY <2>1, <2>2
<1> QED
  BY <1>1, <1>5, <1>6 DEF RcvOk

\* queue_msg adds the bytes of the packet at the end.
LEMMA QueueMsgIInv == IInv /\ QueueMsg => IInv'
<1> SUFFICES ASSUME IInv, QueueMsg PROVE IInv'
  OBVIOUS
<1> DEFINE v == Len(sealed) + 1
           m == script.msgs[v]
           length == PacketLength(m.len, snd.cipher)
           total == Total(length, snd.cipher)
           U == Unit(v, total)
           e == [length |-> length, pad |-> Pad(m.len, snd.cipher),
                 cipher |-> snd.cipher]
           F == FlattenSeq(snd.write_q)
           S == wire \o Queued(snd)
           K == [length : Nat, pad : Nat, cipher : CipherKinds]
<1>1. /\ script \in Scripts /\ SealedOf(script, sealed) /\ snd \in SndType
      /\ wire \in Seq(Byte) /\ RcvOk(script, sealed, rcv, S)
      /\ snd.cipher = CipherOf(script, v) /\ Counted(snd)
      /\ ~rcv.error => Quiet(script, rcv)
  BY DEF IInv
<1>2. /\ Len(sealed) < Len(script.msgs)
      /\ sealed' = Append(sealed, e)
      /\ snd' = [snd EXCEPT
           !.write_q = Append(@, U),
           !.write_bytes = @ + total,
           !.cipher = IF m.newkeys = None THEN @ ELSE m.newkeys]
      /\ UNCHANGED <<script, wire, rcv>>
  BY DEF QueueMsg
<1>3. sealed \in Seq(K) /\ Len(sealed) \in Nat
  BY <1>1 DEF SealedOf
<1>4. v \in 1 .. Len(script.msgs) /\ Len(script.msgs) \in Nat
  BY <1>1, <1>2, <1>3, ScriptTypes
<1>5. m.len \in Nat \ {0} /\ m.newkeys \in CipherKinds \union {None}
  <2> HIDE DEF v
  <2> QED
    BY <1>1, <1>4, MsgType
<1>6. snd.cipher \in CipherKinds /\ snd.write_bytes \in Nat
  BY <1>1 DEF SndType
<1>7. length \in Nat /\ Pad(m.len, snd.cipher) \in Nat /\ total \in Nat \ {0}
  <2> HIDE DEF m
  <2> QED
    BY <1>5, <1>6, PacketSizes
<1>8. e \in K
  BY <1>6, <1>7
<1>9. e.length = length /\ e.cipher = snd.cipher
  OBVIOUS
<1>10. CipherOf(script, v + 1) = IF m.newkeys = None THEN snd.cipher ELSE m.newkeys
  <2> HIDE DEF v
  <2> QED
    BY <1>1, <1>4, CipherNext
<1>11. CipherOf(script, v + 1) \in CipherKinds
  BY <1>5, <1>6, <1>10
<1>12. e = [length |-> PacketLength(m.len, CipherOf(script, v)),
            pad |-> Pad(m.len, CipherOf(script, v)),
            cipher |-> CipherOf(script, v)]
  BY <1>1
<1> HIDE DEF e, length, total, K
<1>13. /\ sealed' \in Seq(K) /\ Len(sealed') = v /\ sealed'[v] = e
       /\ \A u \in 1 .. Len(sealed) : sealed'[u] = sealed[u]
  BY <1>2, <1>3, <1>8
<1>14. SealedOf(script, sealed')
  <2>1. ASSUME NEW u \in 1 .. Len(sealed')
        PROVE  sealed'[u] =
                 [length |-> PacketLength(script.msgs[u].len, CipherOf(script, u)),
                  pad    |-> Pad(script.msgs[u].len, CipherOf(script, u)),
                  cipher |-> CipherOf(script, u)]
    <3>1. CASE u = v
      BY <1>12, <1>13, <3>1
    <3>2. CASE u # v
      <4>1. u \in 1 .. Len(sealed)
        BY <1>3, <1>13, <3>2
      <4> QED
        BY <1>1, <1>13, <4>1 DEF SealedOf
    <3> QED
      BY <3>1, <3>2
  <2>2. Len(sealed') <= Len(script.msgs)
    BY <1>4, <1>13
  <2> QED
    BY <1>13, <2>1, <2>2 DEF SealedOf, K
<1>15. /\ Queued(snd) \in Seq(Byte) /\ snd.current_out \in Seq(Byte)
       /\ snd.ident_out \in Seq(Byte) /\ snd.write_q \in Seq(Seq(Byte))
       /\ F \in Seq(Byte) /\ snd.ident_out \o F \in Seq(Byte)
  BY <1>1, QueuedType
<1>16. S \in Seq(Byte)
  BY <1>1, <1>15, ConcatElements
<1>17. U \in Seq(Byte) /\ Len(U) = total
  <2> HIDE DEF v
  <2>1. U \in [1 .. total -> Byte]
    BY <1>4 DEF Unit, Byte
  <2> QED
    BY <1>7, <2>1, FunctionIsSeq
<1> HIDE DEF U
<1>18. snd' \in SndType
  <2>1. Append(snd.write_q, U) \in Seq(Seq(Byte))
    BY <1>15, <1>17
  <2> DEFINE k == IF m.newkeys = None THEN snd.cipher ELSE m.newkeys
             q == Append(snd.write_q, U)
  <2>2. k \in CipherKinds
    BY <1>10, <1>11
  <2>3. snd.write_bytes + total \in Nat
    BY <1>6, <1>7
  <2>4. snd' = [snd EXCEPT !.write_q = q, !.write_bytes = @ + total, !.cipher = k]
    BY <1>2
  <2> HIDE DEF k, q
  <2> QED
    BY <1>1, <2>1, <2>2, <2>3, <2>4 DEF SndType, q
<1>19. /\ snd'.write_q = Append(snd.write_q, U)
       /\ snd'.write_bytes = snd.write_bytes + total
       /\ snd'.cipher = CipherOf(script, v + 1)
       /\ snd'.current_out = snd.current_out /\ snd'.ident_out = snd.ident_out
       /\ snd'.current_is_ident = snd.current_is_ident
  BY <1>1, <1>2, <1>10 DEF SndType
<1>20. FlattenSeq(snd'.write_q) = F \o U
  BY <1>15, <1>17, <1>19, FlattenAppend
<1> HIDE DEF F
<1>21. wire' \o Queued(snd') = S \o U
  <2> DEFINE a == snd.current_out
             b == snd.ident_out
  <2>1. a \in Seq(Byte) /\ b \in Seq(Byte) /\ F \in Seq(Byte) /\ U \in Seq(Byte)
        /\ wire \in Seq(Byte)
    BY <1>1, <1>15, <1>17
  <2>2. wire' = wire /\ Queued(snd') = a \o (b \o (F \o U))
    BY <1>2, <1>19, <1>20 DEF Queued
  <2>3. S = wire \o (a \o (b \o F))
    BY DEF Queued, F
  <2> HIDE DEF a, b, S
  <2>4. wire \o (a \o (b \o (F \o U))) = (wire \o (a \o (b \o F))) \o U
    <3>1. b \o F \in Seq(Byte) /\ b \o (F \o U) = (b \o F) \o U
      BY ONLY <2>1
    <3> DEFINE g == b \o F
    <3>2. g \in Seq(Byte)
      BY <3>1
    <3> HIDE DEF g
    <3>3. a \o g \in Seq(Byte) /\ a \o (g \o U) = (a \o g) \o U
      BY ONLY <2>1, <3>2
    <3> DEFINE h == a \o g
    <3>4. h \in Seq(Byte)
      BY <3>3
    <3> HIDE DEF h
    <3>5. wire \o (h \o U) = (wire \o h) \o U
      BY ONLY SMTT(30), <2>1, <3>4
    <3> QED
      BY <3>1, <3>3, <3>5 DEF g, h
  <2> QED
    BY <2>2, <2>3, <2>4
<1>22. Counted(snd')
  <2> DEFINE k == IF snd.current_is_ident THEN 0 ELSE Len(snd.current_out)
  <2>1. Len(F \o U) = Len(F) + Len(U) /\ Len(F) \in Nat
    BY <1>15, <1>17, ConcatElements
  <2>2. k \in Nat
    BY <1>15
  <2>3. snd.write_bytes = Len(F) + k
    BY <1>1 DEF Counted, F
  <2>4. k = IF snd'.current_is_ident THEN 0 ELSE Len(snd'.current_out)
    BY <1>19
  <2> HIDE DEF k
  <2>5. snd'.write_bytes = Len(FlattenSeq(snd'.write_q)) + k
    <3>1. Len(FlattenSeq(snd'.write_q)) = Len(F) + total
      BY <1>17, <1>20, <2>1
    <3> QED
      BY <1>7, <1>19, <2>1, <2>2, <2>3, <3>1
  <2> QED
    BY <2>4, <2>5 DEF Counted
<1>23. RcvOk(script, sealed', rcv, S \o U)
  <2> HIDE DEF S
  <2>1. total = Total(e.length, e.cipher) /\ U = Unit(Len(sealed) + 1, total)
    BY <1>9 DEF total, U
  <2>2. e \in [length : Nat, pad : Nat, cipher : CipherKinds]
    BY <1>8 DEF K
  <2> QED
    BY <1>1, <1>2, <1>7, <1>16, <2>1, <2>2, RcvOkAppend
<1>24. ASSUME ~rcv.error PROVE Quiet(script, rcv)'
  <2>1. CASE ~rcv.ident_in_done \/ Len(rcv.read_buf) < 4
    BY <1>1, <1>2, <1>24, <2>1 DEF Quiet, NoWholePacket
  <2>2. CASE rcv.ident_in_done /\ ~(Len(rcv.read_buf) < 4)
    <3> DEFINE a == Len(rcv.got) + 1
    <3>1. rcv \in RcvType /\ InStream(script, sealed, rcv, S)
      BY <1>1, <1>24 DEF RcvOk
    <3>2. Len(rcv.read_buf) >= 4
      BY <2>2, <3>1 DEF RcvType
    <3> HIDE DEF S
    <3>3. /\ a \in 1 .. Len(sealed)
          /\ sealed[a] = [length |-> PacketLength(script.msgs[a].len, rcv.cipher),
                          pad |-> Pad(script.msgs[a].len, rcv.cipher),
                          cipher |-> rcv.cipher]
          /\ rcv.read_buf[1][1] = a /\ SubSeq(rcv.read_buf, 1, 4) = Unit(a, 4)
          /\ LengthField(rcv) = sealed[a].length
      BY <1>1, <1>16, <2>2, <3>1, <3>2, LengthRead
    <3> HIDE DEF a
    <3>4. a \in DOMAIN sealed' /\ sealed'[a] = sealed[a]
          /\ sealed[a].cipher = rcv.cipher
      BY <1>3, <1>13, <3>3
    <3>5. LengthField(rcv)' = LengthField(rcv)
      BY <1>2, <3>3, <3>4 DEF LengthField
    <3>6. Quiet(script, rcv)
      BY <1>1, <1>24
    <3> QED
      BY <1>2, <2>2, <3>5, <3>6 DEF Quiet, NoWholePacket
  <2> QED
    BY <2>1, <2>2
<1>25. /\ script' = script /\ wire' = wire /\ rcv' = rcv
       /\ Len(sealed') + 1 = v + 1
  BY <1>2, <1>13
<1>26. RcvOk(script, sealed, rcv, wire \o Queued(snd))'
  BY <1>21, <1>23, <1>25
<1> QED
  BY <1>1, <1>14, <1>18, <1>19, <1>22, <1>24, <1>25, <1>26 DEF IInv

\* pull_current_out takes what comes next, and the count stays right.
LEMMA PullOk ==
  ASSUME NEW s \in SndType, Counted(s)
  PROVE  LET t == PullCurrentOut(s)
         IN /\ t \in SndType /\ Counted(t) /\ t.cipher = s.cipher
            /\ Queued(t) = Queued(s)
<1> DEFINE t == PullCurrentOut(s)
           a == s.current_out
           b == s.ident_out
           q == s.write_q
           F == FlattenSeq(q)
<1>1. /\ a \in Seq(Byte) /\ b \in Seq(Byte) /\ q \in Seq(Seq(Byte))
      /\ F \in Seq(Byte) /\ b \o F \in Seq(Byte)
  BY QueuedType
<1>2. CASE a # << >>
  BY <1>2 DEF PullCurrentOut
<1>3. CASE a = << >> /\ b # << >>
  <2> DEFINE w == [s EXCEPT !.current_out = s.ident_out, !.ident_out = << >>,
                            !.current_is_ident = TRUE]
  <2>1. t = w
    BY <1>3 DEF PullCurrentOut
  <2>2. << >> \in Seq(Byte)
    OBVIOUS
  <2>3. /\ w \in SndType /\ w.current_out = b /\ w.ident_out = << >>
        /\ w.current_is_ident = TRUE /\ w.write_q = q
        /\ w.write_bytes = s.write_bytes /\ w.cipher = s.cipher
    BY <1>1, <2>2 DEF SndType
  <2> HIDE DEF w, t
  <2>4. Queued(w) = Queued(s)
    <3>1. << >> \o F = F /\ << >> \o (b \o F) = b \o F
      BY <1>1, ConcatEmptySeq
    <3> QED
      BY <1>3, <2>3, <3>1 DEF Queued
  <2>5. Counted(w)
    <3>1. Len(a) = 0
      BY <1>3
    <3>2. s.write_bytes = Len(F) + 0
      BY <3>1 DEF Counted
    <3> QED
      BY <2>3, <3>2 DEF Counted
  <2> QED
    BY <2>1, <2>3, <2>4, <2>5 DEF t
<1>4. CASE a = << >> /\ b = << >> /\ q # << >>
  <2> DEFINE w == [s EXCEPT !.current_out = Head(s.write_q),
                            !.write_q = Tail(@), !.current_is_ident = FALSE]
             G == FlattenSeq(Tail(q))
  <2>1. t = w
    BY <1>4 DEF PullCurrentOut
  <2>2. F = Head(q) \o G /\ Head(q) \in Seq(Byte) /\ Tail(q) \in Seq(Seq(Byte))
    BY <1>1, <1>4, FlattenHeadTail
  <2>3. G \in Seq(Byte)
    BY <2>2, FlattenType
  <2>4. /\ w \in SndType /\ w.current_out = Head(q) /\ w.write_q = Tail(q)
        /\ w.current_is_ident = FALSE /\ w.ident_out = << >>
        /\ w.write_bytes = s.write_bytes /\ w.cipher = s.cipher
    BY <1>4, <2>2 DEF SndType
  <2> HIDE DEF w, t
  <2>5. Queued(w) = Queued(s)
    <3>1. << >> \o G = G /\ << >> \o F = F /\ << >> \o (<< >> \o F) = F
      BY <1>1, <2>3, ConcatEmptySeq
    <3> QED
      BY <1>4, <2>2, <2>4, <3>1 DEF Queued
  <2>6. Counted(w)
    <3> DEFINE h == Head(q)
    <3> HIDE DEF G, h
    <3>1. Len(h \o G) = Len(h) + Len(G) /\ Len(h) \in Nat /\ Len(G) \in Nat
      BY <2>2, <2>3, ConcatElements DEF h
    <3>2. s.write_bytes = Len(F)
      <4>1. Len(a) = 0 /\ Len(F) \in Nat
        BY <1>1, <1>4
      <4> HIDE DEF F
      <4>2. s.write_bytes = Len(F) + 0
        BY <4>1 DEF Counted, F
      <4> QED
        BY <4>1, <4>2
    <3>3. s.write_bytes = Len(G) + Len(h)
      BY <2>2, <3>1, <3>2 DEF h
    <3> QED
      BY <2>4, <3>3 DEF Counted, G, h
  <2> QED
    BY <2>1, <2>4, <2>5, <2>6 DEF t
<1>5. CASE a = << >> /\ b = << >> /\ q = << >>
  <2> DEFINE w == [s EXCEPT !.current_is_ident = FALSE]
  <2>1. t = w
    BY <1>5 DEF PullCurrentOut
  <2>2. /\ w \in SndType /\ w.current_out = a /\ w.write_q = q
        /\ w.current_is_ident = FALSE /\ w.ident_out = b
        /\ w.write_bytes = s.write_bytes /\ w.cipher = s.cipher
    BY DEF SndType
  <2> HIDE DEF w, t
  <2>3. Counted(w)
    <3>1. Len(a) = 0
      BY <1>5
    <3>2. s.write_bytes = Len(F) + 0
      BY <3>1 DEF Counted
    <3> QED
      BY <2>2, <3>1, <3>2 DEF Counted
  <2> QED
    BY <2>1, <2>2, <2>3 DEF Queued, t
<1> QED
  BY <1>2, <1>3, <1>4, <1>5

\* consume_out takes n bytes from the front, and the count stays right.
LEMMA ConsumeOk ==
  ASSUME NEW s \in SndType, Counted(s), NEW n \in 1 .. Len(s.current_out)
  PROVE  LET t == ConsumeOut(s, n)
             x == SubSeq(s.current_out, 1, n)
         IN /\ t \in SndType /\ Counted(t) /\ t.cipher = s.cipher
            /\ x \in Seq(Byte) /\ Queued(s) = x \o Queued(t)
<1> DEFINE t == ConsumeOut(s, n)
           a == s.current_out
           x == SubSeq(a, 1, n)
           y == SubSeq(a, n + 1, Len(a))
           F == FlattenSeq(s.write_q)
           g == s.ident_out \o F
           wb == IF s.current_is_ident THEN s.write_bytes
                 ELSE IF s.write_bytes < n THEN 0 ELSE s.write_bytes - n
           ci == s.current_is_ident /\ n < Len(a)
<1>1. a \in Seq(Byte) /\ F \in Seq(Byte) /\ g \in Seq(Byte)
  BY QueuedType
<1>2. s.write_bytes \in Nat /\ s.current_is_ident \in BOOLEAN
  BY DEF SndType
<1>3. Len(a) \in Nat /\ Len(F) \in Nat /\ n \in 0 .. Len(a)
  BY <1>1
<1>4. /\ x \in Seq(Byte) /\ y \in Seq(Byte) /\ Len(y) = Len(a) - n
      /\ a = x \o y
  BY <1>1, <1>3, CutInTwo
<1>5. wb \in Nat /\ ci \in BOOLEAN
  BY <1>2, <1>3
<1>6. t = [s EXCEPT !.current_out = y, !.current_is_ident = ci,
                    !.write_bytes = wb]
  BY DEF ConsumeOut
<1>7. s.write_bytes = Len(F) + (IF s.current_is_ident THEN 0 ELSE Len(a))
  BY DEF Counted
<1>8. wb = Len(F) + (IF ci THEN 0 ELSE Len(y))
  <2> HIDE DEF a, F, y
  <2> QED
    BY <1>2, <1>3, <1>4, <1>7
<1> HIDE DEF wb, ci, y, t
<1>9. /\ t \in SndType /\ t.current_out = y /\ t.current_is_ident = ci
      /\ t.write_bytes = wb /\ t.write_q = s.write_q
      /\ t.ident_out = s.ident_out /\ t.cipher = s.cipher
  BY <1>4, <1>5, <1>6 DEF SndType
<1>10. Counted(t)
  BY <1>8, <1>9 DEF Counted
<1>11. Queued(s) = x \o Queued(t)
  <2>1. Queued(s) = a \o g /\ Queued(t) = y \o g
    BY <1>9 DEF Queued
  <2> HIDE DEF x, a, g
  <2>2. (x \o y) \o g = x \o (y \o g)
    BY ONLY <1>1, <1>4
  <2> QED
    BY <1>4, <2>1, <2>2
<1> QED
  BY <1>4, <1>9, <1>10, <1>11 DEF t

\* A write moves bytes from the sender to the wire.
LEMMA WriteIInv == IInv /\ Write => IInv'
<1> SUFFICES ASSUME IInv, Write PROVE IInv'
  OBVIOUS
<1> DEFINE s == PullCurrentOut(snd)
<1>1. PICK n \in 1 .. Len(s.current_out) :
        /\ wire' = wire \o SubSeq(s.current_out, 1, n)
        /\ snd' = ConsumeOut(s, n)
        /\ UNCHANGED <<script, sealed, rcv>>
  BY DEF Write
<1>2. /\ snd \in SndType /\ Counted(snd) /\ wire \in Seq(Byte)
      /\ script \in Scripts /\ SealedOf(script, sealed)
      /\ snd.cipher = CipherOf(script, Len(sealed) + 1)
      /\ RcvOk(script, sealed, rcv, wire \o Queued(snd))
      /\ ~rcv.error => Quiet(script, rcv)
  BY DEF IInv
<1>3. /\ s \in SndType /\ Counted(s) /\ s.cipher = snd.cipher
      /\ Queued(s) = Queued(snd)
  BY <1>2, PullOk
<1> HIDE DEF s
<1> DEFINE x == SubSeq(s.current_out, 1, n)
<1>4. /\ snd' \in SndType /\ Counted(snd') /\ snd'.cipher = s.cipher
      /\ x \in Seq(Byte) /\ Queued(s) = x \o Queued(snd')
  BY <1>1, <1>3, ConsumeOk
<1>5. Queued(snd') \in Seq(Byte)
  BY <1>4, QueuedType
<1>6. wire' = wire \o x
  BY <1>1
<1> HIDE DEF x
<1>7. wire' \in Seq(Byte)
  BY <1>2, <1>4, <1>6, ConcatElements
<1>8. wire' \o Queued(snd') = wire \o Queued(snd)
  <2> DEFINE z == Queued(snd')
  <2>1. z \in Seq(Byte) /\ wire \in Seq(Byte) /\ x \in Seq(Byte)
    BY <1>2, <1>4, <1>5
  <2> HIDE DEF z
  <2>2. (wire \o x) \o z = wire \o (x \o z)
    BY ONLY <2>1
  <2> QED
    BY <1>3, <1>4, <1>6, <2>2 DEF z
<1>9. RcvOk(script, sealed, rcv, wire \o Queued(snd))'
  BY <1>1, <1>2, <1>8
<1>10. (~rcv.error => Quiet(script, rcv))'
  BY <1>1, <1>2 DEF Quiet, NoWholePacket, LengthField
<1> QED
  BY <1>1, <1>2, <1>3, <1>4, <1>7, <1>9, <1>10 DEF IInv

\* The inductive invariant holds of every step.
LEMMA NextIInv == IInv /\ [Next]_vars => IInv'
<1> SUFFICES ASSUME IInv, [Next]_vars PROVE IInv'
  OBVIOUS
<1>1. CASE QueueMsg
  BY <1>1, QueueMsgIInv
<1>2. CASE Write
  BY <1>2, WriteIInv
<1>3. CASE Read
  BY <1>3, ReadIInv
<1>4. CASE UNCHANGED vars
  BY <1>4 DEF vars, IInv, Quiet, NoWholePacket, LengthField
<1> QED
  BY <1>1, <1>2, <1>3, <1>4 DEF Next

\* The inductive invariant, for every script and every limit.
THEOREM StreamInvariant == Spec => []IInv
<1>1. Init => IInv
  BY InitIInv
<1>2. IInv /\ [Next]_vars => IInv'
  BY NextIInv
<1> QED
  BY <1>1, <1>2, PTL DEF Spec

-----------------------------------------------------------------------------
(* What follows from it.                                                   *)

\* An in-step receiver reads a length that is refused or that of a packet no
\* larger than MaxPacket.
LEMMA IInvTypes == IInv => TypeOK
<1> SUFFICES ASSUME IInv PROVE TypeOK
  OBVIOUS
<1>1. snd.cipher \in CipherKinds /\ snd.write_bytes \in Nat
  BY DEF IInv, SndType
<1>2. /\ rcv.cipher \in CipherKinds /\ rcv.read_buf \in Seq(Byte)
      /\ rcv.ident_acc \in Seq(Byte)
  BY DEF IInv, RcvOk, RcvType
<1>3. Len(rcv.got) <= Len(sealed)
  BY DEF IInv, RcvOk, GotOf
<1>4. ASSUME ~rcv.error
      PROVE  /\ Len(rcv.read_buf) < Total(MaxPacket, "chacha")
             /\ Len(rcv.ident_acc) <= IdentMax
  <2>1. Quiet(script, rcv) /\ InStream(script, sealed, rcv, wire \o Queued(snd))
    BY <1>4 DEF IInv, RcvOk
  <2>2. Len(rcv.read_buf) \in Nat
    BY <1>2
  <2>3. Total(MaxPacket, "chacha") = MaxPacket + 20 /\ MaxPacket \in Nat
    BY PacketAssumptions DEF Total, TagLen
  <2>4. CASE rcv.ident_in_done
    <3>1. Len(rcv.ident_acc) = 0
      BY <2>1, <2>4 DEF InStream
    <3>2. CASE Len(rcv.read_buf) < 4
      BY <2>2, <2>3, <3>1, <3>2, FramingAssumptions
    <3>3. CASE ~(Len(rcv.read_buf) < 4)
      <4>1. LengthOk(LengthField(rcv))
            /\ Len(rcv.read_buf) < Total(LengthField(rcv), rcv.cipher)
        BY <2>1, <2>4, <3>3 DEF Quiet, NoWholePacket
      <4>2. LengthField(rcv) \in Nat
        <5> DEFINE K == [length : Nat, pad : Nat, cipher : CipherKinds]
        <5>1. sealed \in Seq(K)
          BY DEF IInv, SealedOf
        <5> HIDE DEF K
        <5>2. \A u \in DOMAIN sealed : sealed[u] \in K
          BY <5>1
        <5>3. \A u \in DOMAIN sealed : sealed[u].length \in Nat
          BY <5>2 DEF K
        <5> QED
          BY <5>3 DEF LengthField
      <4> QED
        BY <2>2, <2>3, <3>1, <4>1, <4>2, FramingAssumptions
           DEF LengthOk, Total, TagLen
    <3> QED
      BY <3>2, <3>3
  <2>5. CASE ~rcv.ident_in_done
    <3>1. Len(rcv.read_buf) = 0 /\ Len(rcv.ident_acc) <= IdentMax
      BY <2>1, <2>5 DEF Quiet
    <3> QED
      BY <2>3, <3>1
  <2> QED
    BY <2>4, <2>5
<1> QED
  BY <1>1, <1>2, <1>3, <1>4 DEF TypeOK

\* Types, and the bounds on what the receiver buffers: read_buf never holds
\* more than the largest packet, nor ident_acc more than the longest line.
THEOREM BuffersBounded == Spec => []TypeOK
  BY StreamInvariant, IInvTypes, PTL

\* The write_bytes that is compared with the soft and the hard limit of the
\* write queue is exactly what waits to be written.
THEOREM WriteQueueCounted == Spec => []WriteBytesExact
<1>1. IInv => WriteBytesExact
  BY DEF IInv, Counted, WriteBytesExact
<1> QED
  BY <1>1, StreamInvariant, PTL

\* However the sockets cut the stream, the messages come out as they went in.
THEOREM MessagesIntact == Spec => []FramesIntact
<1>1. IInv => FramesIntact
  <2> SUFFICES ASSUME IInv PROVE FramesIntact
    OBVIOUS
  <2> DEFINE G == [msg : Nat, len : Nat]
             g == rcv.got
  <2>1. g \in Seq(G) /\ \A u \in 1 .. Len(g) :
                          g[u] = [msg |-> u, len |-> script.msgs[u].len]
    BY DEF IInv, RcvOk, RcvType, GotOf
  <2> HIDE DEF G, g
  <2>2. g = [u \in 1 .. Len(g) |-> g[u]]
    BY <2>1
  <2>3. g = [u \in 1 .. Len(g) |-> [msg |-> u, len |-> script.msgs[u].len]]
    BY <2>1, <2>2
  <2> QED
    BY <2>3 DEF FramesIntact, g
<1> QED
  BY <1>1, StreamInvariant, PTL

\* What is accepted and what is refused depends on the bytes alone.
THEOREM VerdictCorrect == Spec => []VerdictOfBytes
<1>1. IInv => VerdictOfBytes
  <2> SUFFICES ASSUME IInv PROVE VerdictOfBytes
    OBVIOUS
  <2>1. \A u : Fits(u) <=> FitsIn(script, u)
    BY CipherAtFold DEF Fits, FitsIn
  <2>2. GoodIdent <=> GoodLine(script)
    BY DEF GoodIdent, GoodLine
  <2>3. GotOf(script, sealed, rcv)
    BY DEF IInv, RcvOk
  <2> QED
    BY <2>1, <2>2, <2>3 DEF GotOf, VerdictOfBytes
<1> QED
  BY <1>1, StreamInvariant, PTL

\* process_in never leaves a whole packet in the buffer.
THEOREM NothingLeft == Spec => []NoPacketLeft
<1>1. IInv => NoPacketLeft
  <2> SUFFICES ASSUME IInv, ~rcv.error, rcv.ident_in_done, Len(rcv.read_buf) >= 4
               PROVE  Len(rcv.read_buf) < Total(LengthField(rcv), rcv.cipher)
    BY DEF NoPacketLeft
  <2>1. NoWholePacket(rcv)
    BY DEF IInv, Quiet
  <2>2. Len(rcv.read_buf) \in Nat
    BY DEF IInv, RcvOk, RcvType
  <2> QED
    BY <2>1, <2>2 DEF NoWholePacket
<1> QED
  BY <1>1, StreamInvariant, PTL
=============================================================================
