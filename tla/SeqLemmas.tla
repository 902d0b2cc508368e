----------------------------- MODULE SeqLemmas -----------------------------
(***************************************************************************)
(* Induction over the naturals in a form the provers can use, and what the *)
(* proofs of this project keep needing about intervals and sequences.      *)
(*                                                                         *)
(* The induction theorems of the library take the predicate as a parameter *)
(* that is an operator.  Here it is a set: the naturals that satisfy it.   *)
(***************************************************************************)
EXTENDS Integers, Sequences, SequencesExt, SequenceTheorems,
        WellFoundedInduction, TLAPS

\* A set of naturals that is not empty has a least element.
LEMMA LeastNatural ==
  ASSUME NEW T, T \subseteq Nat, T # {}
  PROVE  \E x \in T : \A y \in T : x <= y
<1> DEFINE R == OpToRel(<, Nat)
<1>1. IsWellFoundedOn(R, Nat)
  BY NatLessThanWellFounded
<1>2. \A x, y \in Nat : y < x => <<y, x>> \in R
  BY DEF OpToRel
<1> HIDE DEF R
<1>3. PICK x \in T : \A y \in T : ~ (<<y, x>> \in R)
  BY <1>1, WFMin
<1>4. \A y \in T : ~ (y < x)
  BY <1>2, <1>3
<1> QED
  BY <1>3, <1>4

\* Induction: a set with 0 that has n + 1 whenever it has n has every natural.
LEMMA SetInduction ==
  ASSUME NEW T, 0 \in T, \A n \in Nat : n \in T => n + 1 \in T
  PROVE  Nat \subseteq T
<1> SUFFICES ASSUME Nat \ T # {} PROVE FALSE
  OBVIOUS
<1>1. PICK x \in Nat \ T : \A y \in Nat \ T : x <= y
  BY LeastNatural
<1>2. x - 1 \in Nat
  BY <1>1
<1>3. x - 1 \in T
  BY <1>1, <1>2
<1> QED
  BY <1>1, <1>2, <1>3

\* The same up to n.
LEMMA IntervalInduction ==
  ASSUME NEW n \in Nat, NEW T, 0 \in T,
         \A k \in 1 .. n : k - 1 \in T => k \in T
  PROVE  0 .. n \subseteq T
<1> DEFINE U == {k \in Nat : k <= n => k \in T}
<1>1. 0 \in U
  OBVIOUS
<1>2. ASSUME NEW k \in Nat, k \in U PROVE k + 1 \in U
  <2>1. k + 1 <= n => k + 1 \in 1 .. n /\ (k + 1) - 1 = k
    OBVIOUS
  <2> QED
    BY <1>2, <2>1
<1> HIDE DEF U
<1>3. Nat \subseteq U
  BY <1>1, <1>2, SetInduction
<1> QED
  BY <1>3 DEF U

\* Max of an interval, and what is left of the interval without it.
LEMMA IntervalMax ==
  ASSUME NEW k \in Nat, k > 0
  PROVE  /\ Max(1 .. k) = k
         /\ (1 .. k) \ {k} = 1 .. (k - 1)
         /\ 1 .. k # {}
<1>1. \A x \in 1 .. k : (\A y \in 1 .. k : x >= y) => x = k
  OBVIOUS
<1>2. k \in 1 .. k /\ \A y \in 1 .. k : k >= y
  OBVIOUS
<1>3. Max(1 .. k) = k
  BY <1>1, <1>2 DEF Max
<1> QED
  BY <1>3

-----------------------------------------------------------------------------
(* FlattenSeq.                                                             *)

\* The equation of the function FlattenSeq is defined with.
IsFlatten(f, q, n) ==
  f = [i \in 1 .. n |-> IF i = 1 THEN q[i] ELSE f[i - 1] \o q[i]]

\* For every length there is a function that satisfies that equation.
LEMMA FlattenExists ==
  ASSUME NEW q, NEW n \in Nat
  PROVE  \E f : IsFlatten(f, q, n)
<1> DEFINE T == {m \in Nat : \E f : IsFlatten(f, q, m)}
<1>1. 0 \in T
  <2>1. IsFlatten([i \in 1 .. 0 |-> q[i]], q, 0)
    BY DEF IsFlatten
  <2> QED
    BY <2>1
<1>2. ASSUME NEW m \in Nat, m \in T PROVE m + 1 \in T
  <2>1. PICK f : IsFlatten(f, q, m)
    BY <1>2
  <2> DEFINE g == [i \in 1 .. m + 1 |->
                     IF i = m + 1
                       THEN IF i = 1 THEN q[i] ELSE f[i - 1] \o q[i]
                       ELSE f[i]]
  <2>2. ASSUME NEW i \in 1 .. m + 1
        PROVE  g[i] = IF i = 1 THEN q[i] ELSE g[i - 1] \o q[i]
    <3>1. CASE i = m + 1
      <4>1. i # 1 => i - 1 \in 1 .. m + 1 /\ i - 1 # m + 1
        BY <3>1
      <4>2. i # 1 => g[i - 1] = f[i - 1]
        BY <4>1
      <4> QED
        BY <3>1, <4>2
    <3>2. CASE i # m + 1
      <4>1. i \in 1 .. m
        BY <3>2
      <4>2. f[i] = IF i = 1 THEN q[i] ELSE f[i - 1] \o q[i]
        BY <2>1, <4>1 DEF IsFlatten
      <4>3. i # 1 => i - 1 \in 1 .. m + 1 /\ i - 1 # m + 1
        BY <4>1
      <4>4. i # 1 => g[i - 1] = f[i - 1]
        BY <4>3
      <4>5. g[i] = f[i]
        BY <3>2
      <4> HIDE DEF g
      <4> QED
        BY <4>2, <4>4, <4>5
    <3> QED
      BY <3>1, <3>2
  <2>3. g = [i \in 1 .. m + 1 |-> g[i]]
    OBVIOUS
  <2> HIDE DEF g
  <2>4. IsFlatten(g, q, m + 1)
    BY <2>2, <2>3 DEF IsFlatten
  <2> QED
    BY <2>4
<1> HIDE DEF T
<1>3. n \in T
  BY <1>1, <1>2, SetInduction
<1> QED
  BY <1>3 DEF T

\* What FlattenSeq is, by the length of its argument.
LEMMA FlattenValue ==
  ASSUME NEW S, NEW q \in Seq(S)
  PROVE  /\ q = << >> => FlattenSeq(q) = << >>
         /\ q # << >> => \E f : IsFlatten(f, q, Len(q))
                               /\ FlattenSeq(q) = f[Len(q)]
<1>1. CASE q = << >>
  BY <1>1 DEF FlattenSeq
<1>2. CASE q # << >>
  <2> DEFINE f == CHOOSE f : IsFlatten(f, q, Len(q))
  <2>1. Len(q) \in Nat /\ Len(q) # 0
    BY <1>2
  <2>2. IsFlatten(f, q, Len(q))
    BY <2>1, FlattenExists
  <2>3. FlattenSeq(q) = f[Len(q)]
    BY <2>1 DEF FlattenSeq, IsFlatten
  <2> QED
    BY <1>2, <2>2, <2>3
<1> QED
  BY <1>1, <1>2

\* A flattened prefix does not depend on what follows it.
LEMMA FlattenPrefix ==
  ASSUME NEW q, NEW r, NEW f, NEW g, NEW n \in Nat, NEW m \in Nat, n <= m,
         IsFlatten(f, q, n), IsFlatten(g, r, m),
         \A i \in 1 .. n : q[i] = r[i]
  PROVE  \A i \in 1 .. n : f[i] = g[i]
<1> DEFINE T == {k \in 0 .. n : k = 0 \/ f[k] = g[k]}
<1>1. 0 \in T
  OBVIOUS
<1>2. ASSUME NEW k \in 1 .. n, k - 1 \in T PROVE k \in T
  <2>1. f[k] = IF k = 1 THEN q[k] ELSE f[k - 1] \o q[k]
    BY DEF IsFlatten
  <2>2. k \in 1 .. m
    OBVIOUS
  <2>3. g[k] = IF k = 1 THEN r[k] ELSE g[k - 1] \o r[k]
    BY <2>2 DEF IsFlatten
  <2> QED
    BY <1>2, <2>1, <2>3
<1> HIDE DEF T
<1>3. 0 .. n \subseteq T
  BY <1>1, <1>2, IntervalInduction
<1> QED
  BY <1>3 DEF T

\* Flattening a sequence with one more element.
LEMMA FlattenAppend ==
  ASSUME NEW S, NEW q \in Seq(Seq(S)), NEW x \in Seq(S)
  PROVE  FlattenSeq(Append(q, x)) = FlattenSeq(q) \o x
<1> DEFINE r == Append(q, x)
<1>1. /\ r \in Seq(Seq(S)) /\ r # << >> /\ Len(r) = Len(q) + 1
      /\ r[Len(q) + 1] = x /\ \A i \in 1 .. Len(q) : r[i] = q[i]
      /\ Len(q) \in Nat
  BY AppendProperties
<1> HIDE DEF r
<1>2. PICK g : IsFlatten(g, r, Len(r)) /\ FlattenSeq(r) = g[Len(r)]
  BY <1>1, FlattenValue
<1>3. g[Len(q) + 1] = IF q = << >> THEN x ELSE g[Len(q)] \o x
  <2>1. Len(q) + 1 \in 1 .. Len(r) /\ (Len(q) + 1) - 1 = Len(q)
    BY <1>1
  <2>2. g[Len(q) + 1] = IF Len(q) + 1 = 1 THEN r[Len(q) + 1]
                        ELSE g[(Len(q) + 1) - 1] \o r[Len(q) + 1]
    BY <1>2, <2>1 DEF IsFlatten
  <2>3. Len(q) + 1 = 1 <=> q = << >>
    OBVIOUS
  <2> QED
    BY <1>1, <2>1, <2>2, <2>3
<1>4. CASE q = << >>
  <2>1. FlattenSeq(q) = << >>
    BY <1>4, FlattenValue
  <2>2. FlattenSeq(r) = x
    BY <1>1, <1>2, <1>3, <1>4
  <2> QED
    BY <2>1, <2>2 DEF r
<1>5. CASE q # << >>
  <2>1. PICK f : IsFlatten(f, q, Len(q)) /\ FlattenSeq(q) = f[Len(q)]
    BY <1>5, FlattenValue
  <2>2. Len(q) \in 1 .. Len(q) /\ Len(q) <= Len(r) /\ Len(r) \in Nat
    BY <1>1, <1>5
  <2>3. \A i \in 1 .. Len(q) : q[i] = r[i]
    BY <1>1
  <2>4. \A i \in 1 .. Len(q) : f[i] = g[i]
    <3> DEFINE n == Len(q)
               m == Len(r)
    <3>1. n \in Nat /\ m \in Nat /\ n <= m
      BY <1>1, <2>2
    <3>2. IsFlatten(f, q, n) /\ IsFlatten(g, r, m)
          /\ \A i \in 1 .. n : q[i] = r[i]
      BY <1>2, <2>1, <2>3
    <3> HIDE DEF n, m
    <3>3. \A i \in 1 .. n : f[i] = g[i]
      BY <3>1, <3>2, FlattenPrefix
    <3> QED
      BY <3>3 DEF n
  <2>5. g[Len(q)] = FlattenSeq(q)
    BY <2>1, <2>2, <2>4
  <2>6. FlattenSeq(r) = FlattenSeq(q) \o x
    BY <1>1, <1>2, <1>3, <1>5, <2>5
  <2> QED
    BY <2>6 DEF r
<1> QED
  BY <1>4, <1>5

\* Nothing flattens to nothing.
LEMMA FlattenEmpty == FlattenSeq(<< >>) = << >>
  BY DEF FlattenSeq

\* A sequence of sequences over S flattens to a sequence over S.
LEMMA FlattenType ==
  ASSUME NEW S, NEW q \in Seq(Seq(S))
  PROVE  FlattenSeq(q) \in Seq(S)
<1> DEFINE T == {n \in Nat : \A r \in Seq(Seq(S)) :
                               Len(r) = n => FlattenSeq(r) \in Seq(S)}
<1>1. 0 \in T
  <2>1. \A r \in Seq(Seq(S)) : Len(r) = 0 => r = << >>
    OBVIOUS
  <2> QED
    BY <2>1, FlattenEmpty
<1>2. ASSUME NEW n \in Nat, n \in T PROVE n + 1 \in T
  <2> SUFFICES ASSUME NEW r \in Seq(Seq(S)), Len(r) = n + 1
               PROVE  FlattenSeq(r) \in Seq(S)
    OBVIOUS
  <2>0. r # << >>
    OBVIOUS
  <2>1. PICK h \in Seq(Seq(S)), x \in Seq(S) : r = Append(h, x)
    BY <2>0, SequenceEmptyOrAppend
  <2>2. Len(h) = n
    BY <2>1
  <2>3. FlattenSeq(h) \in Seq(S)
    BY <1>2, <2>1, <2>2
  <2>4. FlattenSeq(r) = FlattenSeq(h) \o x
    BY <2>1, FlattenAppend
  <2> QED
    BY <2>1, <2>3, <2>4
<1> HIDE DEF T
<1>3. Nat \subseteq T
  BY <1>1, <1>2, SetInduction
<1> QED
  BY <1>3 DEF T

\* Flattening distributes over concatenation.
LEMMA FlattenConcat ==
  ASSUME NEW S, NEW p \in Seq(Seq(S)), NEW q \in Seq(Seq(S))
  PROVE  FlattenSeq(p \o q) = FlattenSeq(p) \o FlattenSeq(q)
<1> DEFINE T == {n \in Nat : \A r \in Seq(Seq(S)) : Len(r) = n =>
                   FlattenSeq(p \o r) = FlattenSeq(p) \o FlattenSeq(r)}
<1>1. 0 \in T
  <2>1. ASSUME NEW r \in Seq(Seq(S)), Len(r) = 0
        PROVE  FlattenSeq(p \o r) = FlattenSeq(p) \o FlattenSeq(r)
    <3>1. r = << >> /\ p \o r = p
      BY <2>1
    <3>2. FlattenSeq(r) = << >>
      BY <3>1, FlattenEmpty
    <3>3. FlattenSeq(p) \in Seq(S)
      BY FlattenType
    <3> QED
      BY <3>1, <3>2, <3>3
  <2> QED
    BY <2>1
<1>2. ASSUME NEW n \in Nat, n \in T PROVE n + 1 \in T
  <2> SUFFICES ASSUME NEW r \in Seq(Seq(S)), Len(r) = n + 1
               PROVE  FlattenSeq(p \o r) = FlattenSeq(p) \o FlattenSeq(r)
    OBVIOUS
  <2>0. r # << >>
    OBVIOUS
  <2>1. PICK h \in Seq(Seq(S)), x \in Seq(S) : r = Append(h, x)
    BY <2>0, SequenceEmptyOrAppend
  <2>2. Len(h) = n
    BY <2>1
  <2>3. FlattenSeq(p \o h) = FlattenSeq(p) \o FlattenSeq(h)
    BY <1>2, <2>1, <2>2
  <2>4. p \o r = Append(p \o h, x)
    BY <2>1
  <2>5. FlattenSeq(p \o r) = FlattenSeq(p \o h) \o x
    <3>1. p \o h \in Seq(Seq(S))
      BY <2>1
    <3> QED
      BY <2>1, <2>4, <3>1, FlattenAppend
  <2>6. FlattenSeq(r) = FlattenSeq(h) \o x
    BY <2>1, FlattenAppend
  <2>7. FlattenSeq(p) \in Seq(S) /\ FlattenSeq(h) \in Seq(S)
    BY <2>1, FlattenType
  <2>8. (FlattenSeq(p) \o FlattenSeq(h)) \o x
          = FlattenSeq(p) \o (FlattenSeq(h) \o x)
    <3> DEFINE a == FlattenSeq(p)
               b == FlattenSeq(h)
    <3> HIDE DEF a, b, T
    <3>1. a \in Seq(S) /\ b \in Seq(S)
      BY <2>7 DEF a, b
    <3>2. (a \o b) \o x = a \o (b \o x)
      BY ONLY <3>1, x \in Seq(S)
    <3> QED
      BY <3>2 DEF a, b
  <2> QED
    BY <2>3, <2>5, <2>6, <2>8
<1> HIDE DEF T
<1>3. Nat \subseteq T
  BY <1>1, <1>2, SetInduction
<1> QED
  BY <1>3 DEF T

\* A single sequence flattens to itself.
LEMMA FlattenSingle ==
  ASSUME NEW S, NEW x \in Seq(S)
  PROVE  FlattenSeq(<<x>>) = x
<1>1. << >> \in Seq(Seq(S)) /\ Append(<< >>, x) = <<x>>
  OBVIOUS
<1>2. FlattenSeq(<<x>>) = FlattenSeq(<< >>) \o x
  BY <1>1, FlattenAppend
<1> QED
  BY <1>2, FlattenEmpty

\* The first element of a sequence comes first.
LEMMA FlattenHeadTail ==
  ASSUME NEW S, NEW q \in Seq(Seq(S)), q # << >>
  PROVE  /\ FlattenSeq(q) = Head(q) \o FlattenSeq(Tail(q))
         /\ Head(q) \in Seq(S) /\ Tail(q) \in Seq(Seq(S))
<1>1. Head(q) \in Seq(S) /\ Tail(q) \in Seq(Seq(S)) /\ q = <<Head(q)>> \o Tail(q)
  OBVIOUS
<1>2. FlattenSeq(<<Head(q)>> \o Tail(q))
        = FlattenSeq(<<Head(q)>>) \o FlattenSeq(Tail(q))
  <2>1. <<Head(q)>> \in Seq(Seq(S))
    BY <1>1
  <2> QED
    BY <1>1, <2>1, FlattenConcat
<1>3. FlattenSeq(<<Head(q)>>) = Head(q)
  BY <1>1, FlattenSingle
<1> QED
  BY <1>1, <1>2, <1>3
-----------------------------------------------------------------------------
(* Sequences by their elements.                                            *)

\* A function on 1 .. n is a sequence of length n.
LEMMA FunctionIsSeq ==
  ASSUME NEW S, NEW n \in Nat, NEW f \in [1 .. n -> S]
  PROVE  f \in Seq(S) /\ Len(f) = n
<1>1. f \in Seq(S)
  BY SeqDef
<1>2. Len(f) \in Nat /\ DOMAIN f = 1 .. Len(f) /\ DOMAIN f = 1 .. n
  BY <1>1, LenProperties
<1> QED
  BY <1>1, <1>2

\* The elements of p \o q are those of p and then those of q.
LEMMA ConcatElements ==
  ASSUME NEW S, NEW p \in Seq(S), NEW q \in Seq(S)
  PROVE  /\ p \o q \in Seq(S) /\ Len(p \o q) = Len(p) + Len(q)
         /\ Len(p) \in Nat /\ Len(q) \in Nat
         /\ \A i \in 1 .. Len(p) : (p \o q)[i] = p[i]
         /\ \A i \in Len(p) + 1 .. Len(p) + Len(q) : (p \o q)[i] = q[i - Len(p)]
  OBVIOUS

\* What is cut from the front of p \o q is cut from p if p is long enough.
LEMMA ConcatCut ==
  ASSUME NEW S, NEW p \in Seq(S), NEW q \in Seq(S), NEW n \in 0 .. Len(p)
  PROVE  /\ SubSeq(p, n + 1, Len(p)) \in Seq(S)
         /\ SubSeq(p \o q, n + 1, Len(p \o q)) = SubSeq(p, n + 1, Len(p)) \o q
<1> DEFINE r == SubSeq(p, n + 1, Len(p))
           a == p \o q
           b == SubSeq(a, n + 1, Len(a))
           c == r \o q
<1>1. /\ a \in Seq(S) /\ Len(a) = Len(p) + Len(q)
      /\ Len(p) \in Nat /\ Len(q) \in Nat
      /\ \A i \in 1 .. Len(p) : a[i] = p[i]
      /\ \A i \in Len(p) + 1 .. Len(p) + Len(q) : a[i] = q[i - Len(p)]
  BY ConcatElements
<1> HIDE DEF a
<1>2. /\ r \in Seq(S) /\ Len(r) = Len(p) - n
      /\ \A i \in 1 .. Len(r) : r[i] = p[n + i]
  BY <1>1
<1>3. /\ b \in Seq(S) /\ Len(b) = Len(a) - n
      /\ \A i \in 1 .. Len(b) : b[i] = a[n + i]
  BY <1>1
<1> HIDE DEF r, b
<1>4. /\ c \in Seq(S) /\ Len(c) = Len(r) + Len(q)
      /\ \A i \in 1 .. Len(r) : c[i] = r[i]
      /\ \A i \in Len(r) + 1 .. Len(r) + Len(q) : c[i] = q[i - Len(r)]
  BY <1>2, ConcatElements
<1> HIDE DEF c
<1>5. Len(b) = Len(c)
  BY <1>1, <1>2, <1>3, <1>4
<1>6. ASSUME NEW i \in 1 .. Len(b) PROVE b[i] = c[i]
  <2>1. CASE i <= Len(p) - n
    <3>1. i \in 1 .. Len(r) /\ n + i \in 1 .. Len(p)
      BY <1>1, <1>2, <1>3, <2>1
    <3> QED
      BY <1>1, <1>2, <1>3, <1>4, <3>1
  <2>2. CASE i > Len(p) - n
    <3>1. /\ i \in Len(r) + 1 .. Len(r) + Len(q)
          /\ n + i \in Len(p) + 1 .. Len(p) + Len(q)
          /\ (n + i) - Len(p) = i - Len(r)
      BY <1>1, <1>2, <1>3, <2>2
    <3> QED
      BY <1>1, <1>3, <1>4, <3>1
  <2> QED
    BY <1>1, <2>1, <2>2
<1>7. b = c
  BY <1>3, <1>4, <1>5, <1>6, SeqEqual
<1> QED
  BY <1>2, <1>7 DEF r, b, c, a

\* A sequence is its first n elements and then the others.
LEMMA CutInTwo ==
  ASSUME NEW S, NEW w \in Seq(S), NEW n \in 0 .. Len(w)
  PROVE  /\ SubSeq(w, 1, n) \in Seq(S) /\ SubSeq(w, n + 1, Len(w)) \in Seq(S)
         /\ Len(SubSeq(w, n + 1, Len(w))) = Len(w) - n
         /\ w = SubSeq(w, 1, n) \o SubSeq(w, n + 1, Len(w))
<1>1. /\ SubSeq(w, 1, n) \in Seq(S) /\ SubSeq(w, n + 1, Len(w)) \in Seq(S)
      /\ Len(SubSeq(w, n + 1, Len(w))) = Len(w) - n
  OBVIOUS
<1>2. 1 \in 1 .. Len(w) + 1 /\ n \in 1 - 1 .. Len(w) /\ Len(w) \in n .. Len(w)
  OBVIOUS
<1>3. SubSeq(w, 1, n) \o SubSeq(w, n + 1, Len(w)) = SubSeq(w, 1, Len(w))
  BY <1>2, ConcatAdjacentSubSeq
<1>4. SubSeq(w, 1, Len(w)) = w
  BY SubSeqFull
<1> QED
  BY <1>1, <1>3, <1>4
=============================================================================
