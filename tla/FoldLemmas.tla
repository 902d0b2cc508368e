----------------------------- MODULE FoldLemmas -----------------------------
(***************************************************************************)
(* What FoldLeft computes: a chain of values, each made from the one       *)
(* before it.  Op(x, a, b) is the operator that is folded over a sequence, *)
(* with a parameter x; a proof instantiates this module with its own.      *)
(***************************************************************************)
EXTENDS Integers, Sequences, TLAPS

LOCAL INSTANCE SeqLemmas

CONSTANT Op(_, _, _)

Largest(s) == CHOOSE y \in s : \A z \in s : y >= z

\* The equation of the function FoldLeft is defined with.
IsFold(f, x, c, q, D) ==
  f = [s \in SUBSET D |->
         IF s = {} THEN c ELSE Op(x, f[s \ {Largest(s)}], q[Largest(s)])]

Fold(x, c, q) == (CHOOSE f : IsFold(f, x, c, q, DOMAIN q))[DOMAIN q]

\* The largest number of a part of 1 .. m + 1 that has m + 1.
LEMMA LargestOf ==
  ASSUME NEW m \in Nat, NEW s \in SUBSET (1 .. m + 1), m + 1 \in s
  PROVE  Largest(s) = m + 1
<1>1. \A y \in s : (\A z \in s : y >= z) => y = m + 1
  OBVIOUS
<1>2. \A z \in s : m + 1 >= z
  OBVIOUS
<1> QED
  BY <1>1, <1>2 DEF Largest

\* The equation has a solution, whatever Op is.
LEMMA FoldExists ==
  ASSUME NEW x, NEW c, NEW q, NEW n \in Nat
  PROVE  \E f : IsFold(f, x, c, q, 1 .. n)
<1> DEFINE T == {m \in Nat : \E f : IsFold(f, x, c, q, 1 .. m)}
<1>1. 0 \in T
  <2> DEFINE f == [s \in SUBSET (1 .. 0) |-> c]
  <2>1. \A s \in SUBSET (1 .. 0) : s = {}
    OBVIOUS
  <2>2. IsFold(f, x, c, q, 1 .. 0)
    BY <2>1 DEF IsFold
  <2> QED
    BY <2>2
<1>2. ASSUME NEW m \in Nat, m \in T PROVE m + 1 \in T
  <2>1. PICK f : IsFold(f, x, c, q, 1 .. m)
    BY <1>2
  <2> DEFINE g == [s \in SUBSET (1 .. m + 1) |->
                     IF m + 1 \in s THEN Op(x, f[s \ {m + 1}], q[m + 1])
                                    ELSE f[s]]
  <2>2. ASSUME NEW s \in SUBSET (1 .. m + 1)
        PROVE  g[s] = IF s = {} THEN c
                      ELSE Op(x, g[s \ {Largest(s)}], q[Largest(s)])
    <3>1. CASE m + 1 \in s
      <4>1. s \ {m + 1} \in SUBSET (1 .. m)
        OBVIOUS
      <4>2. s \ {m + 1} \in SUBSET (1 .. m + 1)
        OBVIOUS
      <4>3. g[s \ {m + 1}] = f[s \ {m + 1}]
        BY <4>2
      <4>4. g[s] = Op(x, f[s \ {m + 1}], q[m + 1])
        BY <3>1
      <4> HIDE DEF g
      <4> QED
        BY <3>1, <4>3, <4>4, LargestOf
    <3>2. CASE m + 1 \notin s
      <4>1. s \in SUBSET (1 .. m)
        BY <3>2
      <4>2. g[s] = f[s]
        BY <3>2
      <4>3. s \ {Largest(s)} \in SUBSET (1 .. m + 1)
            /\ m + 1 \notin s \ {Largest(s)}
        BY <3>2
      <4>4. g[s \ {Largest(s)}] = f[s \ {Largest(s)}]
        BY <4>3
      <4>5. f[s] = IF s = {} THEN c
                   ELSE Op(x, f[s \ {Largest(s)}], q[Largest(s)])
        BY <2>1, <4>1 DEF IsFold
      <4> HIDE DEF g
      <4> QED
        BY <4>2, <4>4, <4>5
    <3> QED
      BY <3>1, <3>2
  <2>3. g = [s \in SUBSET (1 .. m + 1) |-> g[s]]
    OBVIOUS
  <2> HIDE DEF g
  <2>4. IsFold(g, x, c, q, 1 .. m + 1)
    BY <2>2, <2>3 DEF IsFold
  <2> QED
    BY <2>4
<1> HIDE DEF T
<1>3. n \in T
  BY <1>1, <1>2, SetInduction
<1> QED
  BY <1>3 DEF T

\* A chain of n + 1 values that starts with c and takes one element of q a
\* step.
IsChain(g, x, c, q, n) ==
  /\ DOMAIN g = 0 .. n
  /\ g[0] = c
  /\ \A k \in 1 .. n : g[k] = Op(x, g[k - 1], q[k])

\* A fold over q is the last value of a chain.
LEMMA FoldChain ==
  ASSUME NEW x, NEW c, NEW q, NEW n \in Nat, DOMAIN q = 1 .. n
  PROVE  \E g : IsChain(g, x, c, q, n) /\ Fold(x, c, q) = g[n]
<1> DEFINE f == CHOOSE f : IsFold(f, x, c, q, 1 .. n)
           g == [k \in 0 .. n |-> f[1 .. k]]
<1>1. IsFold(f, x, c, q, 1 .. n)
  BY FoldExists
<1>2. Fold(x, c, q) = f[1 .. n]
  BY DEF Fold
<1> HIDE DEF f
<1>3. f[{}] = c
  BY <1>1 DEF IsFold
<1>4. g[0] = c
  <2>1. 1 .. 0 = {}
    OBVIOUS
  <2> QED
    BY <1>3, <2>1
<1>5. ASSUME NEW k \in 1 .. n PROVE g[k] = Op(x, g[k - 1], q[k])
  <2>1. 1 .. k \in SUBSET (1 .. n) /\ 1 .. k # {}
    <3>1. k \in 1 .. k
      OBVIOUS
    <3>2. \A i \in 1 .. k : i \in 1 .. n
      OBVIOUS
    <3> QED
      BY <3>1, <3>2
  <2>2. Largest(1 .. k) = k
    <3>1. k - 1 \in Nat /\ (k - 1) + 1 = k
      OBVIOUS
    <3>2. 1 .. k \in SUBSET (1 .. (k - 1) + 1) /\ (k - 1) + 1 \in 1 .. k
      BY <3>1
    <3>3. Largest(1 .. k) = (k - 1) + 1
      BY <3>1, <3>2, LargestOf
    <3> QED
      BY <3>1, <3>3
  <2>3. (1 .. k) \ {k} = 1 .. (k - 1)
    OBVIOUS
  <2>4. f[1 .. k] = Op(x, f[(1 .. k) \ {Largest(1 .. k)}], q[Largest(1 .. k)])
    BY <1>1, <2>1 DEF IsFold
  <2>5. g[k] = f[1 .. k] /\ g[k - 1] = f[1 .. (k - 1)]
    OBVIOUS
  <2> HIDE DEF g
  <2> QED
    BY <2>2, <2>3, <2>4, <2>5
<1>6. g[n] = f[1 .. n] /\ DOMAIN g = 0 .. n
  OBVIOUS
<1> HIDE DEF g
<1> QED
  BY <1>2, <1>4, <1>5, <1>6 DEF IsChain

\* Chains over sequences that agree up to n agree up to n.
LEMMA ChainPrefix ==
  ASSUME NEW x, NEW c, NEW p, NEW q, NEW g, NEW h,
         NEW n \in Nat, NEW m \in Nat, n <= m,
         IsChain(g, x, c, p, n), IsChain(h, x, c, q, m),
         \A i \in 1 .. n : p[i] = q[i]
  PROVE  g[n] = h[n]
<1> DEFINE T == {k \in 0 .. n : g[k] = h[k]}
<1>1. 0 \in T
  BY DEF IsChain
<1>2. ASSUME NEW k \in 1 .. n, k - 1 \in T PROVE k \in T
  <2>1. k \in 1 .. m
    OBVIOUS
  <2>2. g[k] = Op(x, g[k - 1], p[k]) /\ h[k] = Op(x, h[k - 1], q[k])
    BY <2>1 DEF IsChain
  <2> QED
    BY <1>2, <2>2
<1> HIDE DEF T
<1>3. 0 .. n \subseteq T
  BY <1>1, <1>2, IntervalInduction
<1> QED
  BY <1>3 DEF T

\* The fold of the empty sequence, and of a sequence with one more element.
LEMMA FoldEmpty ==
  ASSUME NEW x, NEW c
  PROVE  Fold(x, c, << >>) = c
<1>1. DOMAIN << >> = 1 .. 0
  OBVIOUS
<1>2. PICK g : IsChain(g, x, c, << >>, 0) /\ Fold(x, c, << >>) = g[0]
  BY <1>1, FoldChain
<1> QED
  BY <1>2 DEF IsChain

\* The last element is folded in last.
LEMMA FoldAppend ==
  ASSUME NEW x, NEW c, NEW S, NEW q \in Seq(S), NEW b \in S
  PROVE  Fold(x, c, Append(q, b)) = Op(x, Fold(x, c, q), b)
<1> DEFINE r == Append(q, b)
           n == Len(q)
<1>1. /\ n \in Nat /\ DOMAIN q = 1 .. n /\ DOMAIN r = 1 .. n + 1
      /\ r[n + 1] = b /\ \A i \in 1 .. n : q[i] = r[i]
  OBVIOUS
<1> HIDE DEF r, n
<1>2. PICK g : IsChain(g, x, c, q, n) /\ Fold(x, c, q) = g[n]
  BY <1>1, FoldChain
<1>3. PICK h : IsChain(h, x, c, r, n + 1) /\ Fold(x, c, r) = h[n + 1]
  BY <1>1, FoldChain
<1>4. g[n] = h[n]
  <2> DEFINE m == n + 1
  <2>1. m \in Nat /\ n <= m
    BY <1>1
  <2>2. IsChain(h, x, c, r, m)
    BY <1>3
  <2> HIDE DEF m
  <2> QED
    BY <1>1, <1>2, <2>1, <2>2, ChainPrefix
<1>5. h[n + 1] = Op(x, h[n], r[n + 1])
  <2>1. n + 1 \in 1 .. n + 1 /\ (n + 1) - 1 = n
    BY <1>1
  <2>2. h[n + 1] = Op(x, h[(n + 1) - 1], r[n + 1])
    BY <1>3, <2>1 DEF IsChain
  <2> QED
    BY <2>1, <2>2
<1>6. Fold(x, c, r) = Op(x, Fold(x, c, q), b)
  BY <1>1, <1>2, <1>3, <1>4, <1>5
<1> QED
  BY <1>6 DEF r
=============================================================================
