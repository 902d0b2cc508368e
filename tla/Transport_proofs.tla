------------------------- MODULE Transport_proofs -------------------------
(***************************************************************************)
(* Nothing but the key exchange is sent in the clear, and nobody is        *)
(* authenticated without the right password, for every set of clients and  *)
(* every value of the limits.  Both hold whatever happens to keys and      *)
(* numbers, hence also in sessions that end with an error.                 *)
(*                                                                         *)
(* The invariant is stated for one side with connection c, its peer with   *)
(* connection p, the stream A of packets c has still to read and the       *)
(* stream B of those p has.                                                *)
(***************************************************************************)
EXTENDS Transport, SeqLemmas

-----------------------------------------------------------------------------
(* The invariant.                                                          *)

\* What is in a sequence, and that it is one.
Elems(s) == {s[i] : i \in 1 .. Len(s)}

IsSeq(s) == s \in Seq(Elems(s))

Fields ==
  {"ident_in_done", "send_seq", "recv_seq", "send_cipher", "recv_cipher",
   "packets_io", "strict_kex", "peer_ext_info", "session_id", "kex",
   "pending_keys", "sent_kexinit", "sent_newkeys", "recv_newkeys", "write_q",
   "auth_fails", "authed", "closed", "kex_blocks_app", "first_kex_done",
   "error", "kexes", "attempts", "refused", "used", "reused"}

Shape(c) == /\ DOMAIN c = Fields
            /\ DOMAIN c.send_cipher = {"key", "kind", "iv"}
            /\ IsSeq(c.write_q)

\* The sender has left the clear.
Keyed(c) == c.send_cipher.key # None

InClear == KexMsgs \union {"IDENT"}

\* The messages of the authentication dialogue.
ToServerTalk == {"SERVICE_REQUEST", "USERAUTH_REQUEST"}
ToClientTalk == {"SERVICE_ACCEPT", "USERAUTH_FAILURE", "USERAUTH_SUCCESS"}

Talk(x) == x.m.t \in ToServerTalk \union ToClientTalk

\* Those of which one at most is under way: the service request and its
\* answer, the right password and its answer.  Other attempts, which a client
\* may send without waiting, and the refusals are as many as there are.
Turn(x) == /\ Talk(x) /\ x.m.t # "USERAUTH_FAILURE"
           /\ x.m.t = "USERAUTH_REQUEST" => x.m.try = "good"

Others == {"EXT_INFO", "DISCONNECT", "DATA", "CONTROL", "REQUEST", "REPLY"}

Types == InClear \union ToServerTalk \union ToClientTalk \union Others

Has(s) == \E x \in Elems(s) : Turn(x)

Single(s) == \A i, j \in 1 .. Len(s) : Turn(s[i]) /\ Turn(s[j]) => i = j

\* The identification line comes first and once.
StreamInv(c, A) ==
  /\ IsSeq(A)
  /\ \A x \in Elems(A) : x.m.t \in Types
  /\ \A i \in 1 .. Len(A) : A[i].m.t = "IDENT" => i = 1 /\ ~c.ident_in_done

\* A side knows of NEWKEYS, its own or the peer's, only when the sender has
\* left the clear; whatever needs an answer is sent only when both have.
ClearInv(c, p, B) ==
  /\ c.sent_newkeys \/ c.first_kex_done \/ c.authed => Keyed(c)
  /\ c.recv_newkeys \/ c.first_kex_done \/ c.authed => Keyed(p)
  /\ \A x \in Elems(B) :
       /\ x.m.t \in {"NEWKEYS", "EXT_INFO"} => Keyed(c)
       /\ x.m.t \notin InClear \union {"EXT_INFO"} => Keyed(c) /\ Keyed(p)
       /\ x.key = None => x.m.t \in InClear

\* c is the client and s the server.  At most one of the messages that take
\* turns is on its way, in either direction, and it fits the state of both.
AuthInv(c, s, A, B) ==
  /\ c.attempts \in 0 .. Len(client.tries)
  /\ s.auth_fails \in Nat
  /\ s.auth_fails >= MaxAuthFails => s.closed
  /\ Single(A) /\ Single(B) /\ ~(Has(A) /\ Has(B))
  /\ \A x \in Elems(A) :
       /\ x.m.t \notin ToServerTalk
       /\ x.m.t = "SERVICE_ACCEPT" => c.attempts = 0
       /\ x.m.t = "USERAUTH_FAILURE" => c.attempts > 0
       /\ x.m.t = "USERAUTH_SUCCESS" => s.authed
  /\ \A x \in Elems(B) :
       /\ x.m.t \notin ToClientTalk
       /\ x.m.t = "SERVICE_REQUEST" => c.attempts = 0
       /\ x.m.t = "USERAUTH_REQUEST" =>
            \E i \in 1 .. c.attempts : x.m.try = client.tries[i]
  /\ ~c.first_kex_done => /\ ~Has(A) /\ ~Has(B) /\ ~s.authed
                          /\ c.attempts = 0 /\ s.auth_fails = 0
  /\ c.authed => s.authed
  /\ s.authed =>
       /\ c.attempts = Len(client.tries) /\ client.tries[c.attempts] = "good"
       /\ ~Has(B)
       /\ \A x \in Elems(A) : Turn(x) => x.m.t = "USERAUTH_SUCCESS"

Good(e, c, p, A, B) ==
  /\ Shape(c) /\ Shape(p)
  /\ StreamInv(c, A) /\ StreamInv(p, B)
  /\ ClearInv(c, p, B) /\ ClearInv(p, c, A)
  /\ e = "client" => AuthInv(c, p, A, B)
  /\ e = "server" => AuthInv(p, c, B, A)

IInv ==
  /\ client \in Clients
  /\ DOMAIN conn = Ends /\ DOMAIN net = Ends
  /\ \A e \in Ends :
       /\ IsSeq(net[e])
       /\ Good(e, conn[e], conn[Peer(e)], Toward(e), Toward(Peer(e)))

-----------------------------------------------------------------------------
(* Sequences.                                                              *)

\* Every sequence is one of its own elements.
LEMMA SeqOfElems ==
  ASSUME NEW T, NEW s \in Seq(T)
  PROVE  IsSeq(s)
<1> DEFINE n == Len(s)
           E == Elems(s)
<1>1. n \in Nat /\ s \in [1 .. n -> T]
  BY LenProperties
<1>2. \A i \in 1 .. n : s[i] \in E
  BY DEF Elems
<1> HIDE DEF n, E
<1>3. s \in [1 .. n -> E]
  BY <1>1, <1>2
<1>4. s \in Seq(E)
  BY <1>1, <1>3, SeqDef
<1> QED
  BY <1>4 DEF IsSeq, E

\* A sequence, and what is in it, after Append.
LEMMA AppendElems ==
  ASSUME NEW s, IsSeq(s), NEW x
  PROVE  /\ IsSeq(Append(s, x)) /\ Elems(Append(s, x)) = Elems(s) \union {x}
         /\ Len(Append(s, x)) = Len(s) + 1 /\ Len(s) \in Nat
         /\ Append(s, x)[Len(s) + 1] = x
         /\ \A i \in 1 .. Len(s) : Append(s, x)[i] = s[i]
<1> DEFINE T == Elems(s) \union {x}
<1>1. s \in Seq(T) /\ x \in T
  BY SeqDef DEF IsSeq
<1>2. /\ Append(s, x) \in Seq(T) /\ Len(Append(s, x)) = Len(s) + 1
      /\ Len(s) \in Nat /\ Append(s, x)[Len(s) + 1] = x
      /\ \A i \in 1 .. Len(s) : Append(s, x)[i] = s[i]
  BY <1>1
<1>3. Elems(Append(s, x)) = T
  BY <1>2 DEF Elems
<1> QED
  BY <1>2, <1>3 DEF IsSeq

\* After Tail.
LEMMA TailElems ==
  ASSUME NEW s, IsSeq(s), s # << >>
  PROVE  /\ IsSeq(Tail(s)) /\ Head(s) = s[1] /\ Head(s) \in Elems(s)
         /\ Elems(s) = {Head(s)} \union Elems(Tail(s))
         /\ Len(s) \in Nat /\ Len(s) > 0 /\ Len(Tail(s)) = Len(s) - 1
         /\ \A i \in 1 .. Len(s) - 1 : Tail(s)[i] = s[i + 1]
<1>1. /\ s \in Seq(Elems(s)) /\ Len(s) \in Nat /\ Len(s) > 0
      /\ Head(s) = s[1] /\ Len(Tail(s)) = Len(s) - 1
      /\ \A i \in 1 .. Len(s) - 1 : Tail(s)[i] = s[i + 1]
      /\ Tail(s) \in Seq(Elems(s))
  BY DEF IsSeq
<1>2. Head(s) \in Elems(s)
  BY <1>1 DEF Elems
<1>3. Elems(s) = {Head(s)} \union Elems(Tail(s))
  <2>1. ASSUME NEW i \in 1 .. Len(s) PROVE s[i] \in {Head(s)} \union Elems(Tail(s))
    <3>1. CASE i = 1
      BY <1>1, <3>1
    <3>2. CASE i # 1
      <4>1. i - 1 \in 1 .. Len(s) - 1 /\ Tail(s)[i - 1] = s[i]
        BY <1>1, <3>2
      <4> QED
        BY <1>1, <4>1 DEF Elems
    <3> QED
      BY <3>1, <3>2
  <2>2. ASSUME NEW i \in 1 .. Len(Tail(s)) PROVE Tail(s)[i] \in Elems(s)
    <3>1. i + 1 \in 1 .. Len(s) /\ Tail(s)[i] = s[i + 1]
      BY <1>1
    <3> QED
      BY <3>1 DEF Elems
  <2>3. Elems(s) \subseteq {Head(s)} \union Elems(Tail(s))
    BY <2>1 DEF Elems
  <2>4. Elems(Tail(s)) \subseteq Elems(s)
    BY <2>2 DEF Elems
  <2> QED
    BY <1>2, <2>3, <2>4
<1>4. IsSeq(Tail(s))
  BY <1>1, SeqOfElems
<1> QED
  BY <1>1, <1>2, <1>3, <1>4

\* A stream whose last part grows, and one whose first element moves from its
\* last part to its first.
LEMMA ConcatElems ==
  ASSUME NEW n, NEW w, IsSeq(n), IsSeq(w)
  PROVE  /\ IsSeq(n \o w)
         /\ \A x : n \o Append(w, x) = Append(n \o w, x)
         /\ w # << >> => Append(n, Head(w)) \o Tail(w) = n \o w
<1> DEFINE T == Elems(n) \union Elems(w)
<1>1. n \in Seq(T) /\ w \in Seq(T)
  BY SeqDef DEF IsSeq
<1> HIDE DEF T
<1>2. /\ n \o w \in Seq(T) /\ Len(n \o w) = Len(n) + Len(w)
      /\ Len(n) \in Nat /\ Len(w) \in Nat
      /\ \A i \in 1 .. Len(n) : (n \o w)[i] = n[i]
      /\ \A i \in 1 .. Len(w) : (n \o w)[Len(n) + i] = w[i]
  BY <1>1, ConcatElements
<1>3. IsSeq(n \o w)
  BY <1>2, SeqOfElems
<1>4. ASSUME NEW x PROVE n \o Append(w, x) = Append(n \o w, x)
  <2>1. n \in Seq(T \union {x}) /\ w \in Seq(T \union {x}) /\ x \in T \union {x}
    BY <1>1, SeqDef
  <2>2. Append(w, x) = w \o <<x>> /\ Append(n \o w, x) = (n \o w) \o <<x>>
        /\ <<x>> \in Seq(T \union {x}) /\ n \o w \in Seq(T \union {x})
    BY <2>1, AppendIsConcat, ConcatProperties
  <2> QED
    BY <2>1, <2>2, ConcatAssociative
<1>5. ASSUME w # << >> PROVE Append(n, Head(w)) \o Tail(w) = n \o w
  <2>1. w = <<Head(w)>> \o Tail(w) /\ Head(w) \in T /\ Tail(w) \in Seq(T)
        /\ <<Head(w)>> \in Seq(T)
    BY <1>1, <1>5, HeadTailProperties
  <2>2. Append(n, Head(w)) = n \o <<Head(w)>>
    BY <1>1, <2>1, AppendIsConcat
  <2> QED
    BY <1>1, <2>1, <2>2, ConcatAssociative
<1> QED
  BY <1>3, <1>4, <1>5

\* The first element of a stream, and the rest.
LEMMA ConcatFront ==
  ASSUME NEW n, NEW w, IsSeq(n), IsSeq(w), n # << >>
  PROVE  /\ n \o w # << >> /\ Head(n \o w) = Head(n)
         /\ Tail(n \o w) = Tail(n) \o w
<1> DEFINE T == Elems(n) \union Elems(w)
<1>1. n \in Seq(T) /\ w \in Seq(T)
  BY SeqDef DEF IsSeq
<1> HIDE DEF T
<1>2. /\ n \o w \in Seq(T) /\ Len(n \o w) = Len(n) + Len(w)
      /\ Len(n) \in Nat /\ Len(w) \in Nat
      /\ \A i \in 1 .. Len(n) : (n \o w)[i] = n[i]
      /\ \A i \in 1 .. Len(w) : (n \o w)[Len(n) + i] = w[i]
  BY <1>1, ConcatElements
<1>3. Len(n) > 0
  BY <1>1
<1>4. n \o w # << >> /\ Head(n \o w) = Head(n)
  BY <1>1, <1>2, <1>3
<1>5. Tail(n) \in Seq(T) /\ Len(Tail(n)) = Len(n) - 1
      /\ \A i \in 1 .. Len(n) - 1 : Tail(n)[i] = n[i + 1]
  BY <1>1
<1>6. /\ Tail(n \o w) \in Seq(T) /\ Len(Tail(n \o w)) = Len(n) + Len(w) - 1
      /\ \A i \in 1 .. Len(n) + Len(w) - 1 : Tail(n \o w)[i] = (n \o w)[i + 1]
  BY <1>2, <1>3, <1>4
<1>7. /\ Tail(n) \o w \in Seq(T) /\ Len(Tail(n) \o w) = Len(n) - 1 + Len(w)
      /\ \A i \in 1 .. Len(n) - 1 : (Tail(n) \o w)[i] = Tail(n)[i]
      /\ \A i \in 1 .. Len(w) : (Tail(n) \o w)[Len(n) - 1 + i] = w[i]
  BY <1>1, <1>5, ConcatElements
<1> DEFINE g == Tail(n \o w)
           h == Tail(n) \o w
<1>8. ASSUME NEW i \in 1 .. Len(n) + Len(w) - 1 PROVE g[i] = h[i]
  <2>1. g[i] = (n \o w)[i + 1]
    BY <1>6
  <2>2. CASE i <= Len(n) - 1
    <3>1. i \in 1 .. Len(n) - 1 /\ i + 1 \in 1 .. Len(n)
      BY <1>2, <2>2
    <3>2. (n \o w)[i + 1] = n[i + 1] /\ h[i] = Tail(n)[i] /\ Tail(n)[i] = n[i + 1]
      BY <1>2, <1>5, <1>7, <3>1
    <3> QED
      BY <2>1, <3>2
  <2>3. CASE i > Len(n) - 1
    <3> DEFINE j == i - Len(n) + 1
    <3>1. j \in 1 .. Len(w) /\ Len(n) + j = i + 1 /\ Len(n) - 1 + j = i
      BY <1>2, <2>3
    <3> HIDE DEF j
    <3>2. (n \o w)[Len(n) + j] = w[j] /\ h[Len(n) - 1 + j] = w[j]
      BY <1>2, <1>7, <3>1
    <3> QED
      BY <2>1, <3>1, <3>2
  <2> QED
    BY <1>2, <2>2, <2>3
<1>9. Len(g) = Len(n) + Len(w) - 1 /\ Len(h) = Len(n) + Len(w) - 1
  BY <1>2, <1>6, <1>7
<1> HIDE DEF g, h
<1>10. g = h
  BY <1>6, <1>7, <1>8, <1>9, SeqEqual DEF g, h
<1> QED
  BY <1>4, <1>10 DEF g, h

-----------------------------------------------------------------------------
(* What the invariant allows.                                              *)

\* From c to d nobody gets nearer to being authenticated.
Moves(c, d, p) ==
  /\ Shape(d)
  /\ d.ident_in_done = c.ident_in_done /\ d.authed = c.authed
  /\ d.attempts = c.attempts /\ d.auth_fails = c.auth_fails
  /\ c.closed => d.closed
  /\ Keyed(c) => Keyed(d)
  /\ d.sent_newkeys => Keyed(d)
  /\ d.recv_newkeys => Keyed(p)
  /\ d.first_kex_done => Keyed(d) /\ Keyed(p)
  /\ c.first_kex_done => d.first_kex_done

\* c may send x to p, beside the authentication dialogue.
Allowed(c, p, x) ==
  /\ x.m.t \in (KexMsgs \union Others)
  /\ x.m.t \in {"NEWKEYS", "EXT_INFO"} => Keyed(c)
  /\ x.m.t \notin KexMsgs \union {"EXT_INFO"} => Keyed(c) /\ Keyed(p)
  /\ x.key = None => x.m.t \in KexMsgs

\* Such a change of a side keeps the invariant.
LEMMA MoveGood ==
  ASSUME NEW e \in Ends, NEW c, NEW d, NEW p, NEW A, NEW B,
         Good(e, c, p, A, B), Moves(c, d, p)
  PROVE  Good(e, d, p, A, B)
<1>1. Shape(d) /\ Shape(p)
  BY DEF Good, Moves
<1>2. StreamInv(d, A) /\ StreamInv(p, B)
  BY DEF Good, Moves, StreamInv
<1>3. ClearInv(d, p, B)
  BY DEF Good, Moves, ClearInv
<1>4. ClearInv(p, d, A)
  BY DEF Good, Moves, ClearInv
<1>5. e = "client" => AuthInv(d, p, A, B)
  BY DEF Good, Moves, AuthInv
<1>6. e = "server" => AuthInv(p, d, B, A)
  BY DEF Good, Moves, AuthInv
<1> QED
  BY <1>1, <1>2, <1>3, <1>4, <1>5, <1>6 DEF Good

\* The dialogue on a stream with one packet more.
LEMMA AppendTalk ==
  ASSUME NEW s, IsSeq(s), NEW x
  PROVE  /\ Has(Append(s, x)) <=> Has(s) \/ Turn(x)
         /\ Single(s) /\ ~(Has(s) /\ Turn(x)) => Single(Append(s, x))
<1>1. Has(Append(s, x)) <=> Has(s) \/ Turn(x)
  BY AppendElems DEF Has
<1>2. ASSUME Single(s), ~(Has(s) /\ Turn(x)) PROVE Single(Append(s, x))
  <2> DEFINE r == Append(s, x)
  <2>1. /\ Len(r) = Len(s) + 1 /\ Len(s) \in Nat /\ r[Len(s) + 1] = x
        /\ \A i \in 1 .. Len(s) : r[i] = s[i]
    BY AppendElems
  <2> HIDE DEF r
  <2> SUFFICES ASSUME NEW i \in 1 .. Len(r), NEW j \in 1 .. Len(r),
                      Turn(r[i]), Turn(r[j]), i < j
               PROVE  FALSE
    BY <2>1 DEF Single, r
  <2>2. i \in 1 .. Len(s) /\ (j \in 1 .. Len(s) \/ j = Len(s) + 1)
    BY <2>1
  <2>3. Has(s)
    BY <2>1, <2>2 DEF Has, Elems
  <2>4. j \in 1 .. Len(s)
    BY <1>2, <2>1, <2>2, <2>3
  <2> QED
    BY <1>2, <2>1, <2>2, <2>4 DEF Single
<1> QED
  BY <1>1, <1>2

\* Such a packet keeps the invariant.
LEMMA AppendGood ==
  ASSUME NEW e \in Ends, NEW c, NEW p, NEW A, NEW B, NEW x,
         Good(e, c, p, A, B), Allowed(c, p, x)
  PROVE  Good(e, c, p, A, Append(B, x))
<1> DEFINE C == Append(B, x)
<1>1. IsSeq(B)
  BY DEF Good, StreamInv
<1>2. /\ IsSeq(C) /\ Elems(C) = Elems(B) \union {x} /\ Len(C) = Len(B) + 1
      /\ Len(B) \in Nat /\ C[Len(B) + 1] = x
      /\ \A i \in 1 .. Len(B) : C[i] = B[i]
  BY <1>1, AppendElems
<1>3. x.m.t \in Types /\ x.m.t # "IDENT" /\ ~Turn(x)
      /\ x.m.t \notin ToServerTalk /\ x.m.t \notin ToClientTalk
  BY DEF Allowed, Types, KexMsgs, InClear, Others, Turn, Talk, ToServerTalk,
         ToClientTalk
<1>4. (Has(C) <=> Has(B)) /\ (Single(B) => Single(C))
  BY <1>1, <1>3, AppendTalk
<1> HIDE DEF C
<1>5. StreamInv(p, C)
  <2>1. StreamInv(p, B)
    BY DEF Good
  <2>2. \A i \in 1 .. Len(C) : i \in 1 .. Len(B) \/ i = Len(B) + 1
    BY <1>2
  <2> QED
    BY <1>2, <1>3, <2>1, <2>2 DEF StreamInv
<1>6. ClearInv(c, p, C)
  BY <1>2 DEF Good, ClearInv, Allowed, InClear, KexMsgs, Others
<1>7. e = "client" => AuthInv(c, p, A, C)
  BY <1>2, <1>3, <1>4 DEF Good, AuthInv, ToServerTalk, ToClientTalk
<1>8. e = "server" => AuthInv(p, c, C, A)
  BY <1>2, <1>3, <1>4 DEF Good, AuthInv, ToServerTalk, ToClientTalk
<1> QED
  BY <1>5, <1>6, <1>7, <1>8 DEF Good, C

\* queue_msg: one packet more, under the current key.
LEMMA QueueFields ==
  ASSUME NEW c, Shape(c), NEW m
  PROVE  LET d == Queue(c, m)
             x == [key |-> c.send_cipher.key,
                   nonce |-> Nonce(c.send_cipher, c.send_seq), m |-> m]
         IN /\ Shape(d) /\ d.write_q = Append(c.write_q, x)
            /\ d.send_cipher.key = c.send_cipher.key
            /\ \A f \in Fields \ {"write_q", "send_cipher", "send_seq",
                                  "packets_io", "reused", "used"} : d[f] = c[f]
<1> DEFINE d == Queue(c, m)
           x == [key |-> c.send_cipher.key,
                 nonce |-> Nonce(c.send_cipher, c.send_seq), m |-> m]
<1>1. /\ DOMAIN d = Fields /\ d.write_q = Append(c.write_q, x)
      /\ d.send_cipher = IncIv(c.send_cipher)
  BY DEF Shape, Queue, Fields
<1>2. \A f \in Fields \ {"write_q", "send_cipher", "send_seq",
                         "packets_io", "reused", "used"} : d[f] = c[f]
  BY DEF Shape, Queue, Fields
<1>3. /\ DOMAIN IncIv(c.send_cipher) = {"key", "kind", "iv"}
      /\ IncIv(c.send_cipher).key = c.send_cipher.key
  BY DEF Shape, IncIv
<1>4. IsSeq(d.write_q)
  BY <1>1, AppendElems DEF Shape
<1> QED
  BY <1>1, <1>2, <1>3, <1>4 DEF Shape

-----------------------------------------------------------------------------
(* Key exchange.                                                           *)

\* A step of c that writes nothing; N is on the network already.
LEMMA StayGood ==
  ASSUME NEW e \in Ends, NEW c, NEW d, NEW p, NEW A, NEW N,
         Good(e, c, p, A, N \o c.write_q), Moves(c, d, p),
         d.write_q = c.write_q
  PROVE  Good(e, d, p, A, N \o d.write_q)
  BY MoveGood

\* The same for one that writes x.
LEMMA SendGood ==
  ASSUME NEW e \in Ends, NEW c, NEW d, NEW p, NEW A, NEW N, IsSeq(N), NEW x,
         Good(e, c, p, A, N \o c.write_q), Moves(c, d, p), Allowed(d, p, x),
         d.write_q = Append(c.write_q, x)
  PROVE  Good(e, d, p, A, N \o d.write_q)
<1>1. Good(e, d, p, A, N \o c.write_q)
  BY MoveGood
<1>2. Good(e, d, p, A, Append(N \o c.write_q, x))
  BY <1>1, AppendGood
<1>3. IsSeq(c.write_q)
  BY DEF Good, Shape
<1>4. N \o Append(c.write_q, x) = Append(N \o c.write_q, x)
  BY <1>3, ConcatElems
<1> QED
  BY <1>2, <1>4

\* What the invariant says of c and p themselves.
LEMMA GoodFacts ==
  ASSUME NEW e, NEW c, NEW p, NEW A, NEW B, Good(e, c, p, A, B)
  PROVE  /\ Shape(c) /\ Shape(p)
         /\ c.sent_newkeys \/ c.first_kex_done \/ c.authed => Keyed(c)
         /\ c.recv_newkeys \/ c.first_kex_done \/ c.authed => Keyed(p)
  BY DEF Good, ClearInv

\* queue_msg of a message that c may send.
LEMMA QueueGood ==
  ASSUME NEW e \in Ends, NEW c, NEW p, NEW A, NEW N, IsSeq(N), NEW m,
         Good(e, c, p, A, N \o c.write_q),
         m.t \in KexMsgs \union Others,
         m.t \in {"NEWKEYS", "EXT_INFO"} => Keyed(c),
         m.t \notin KexMsgs \union {"EXT_INFO"} => Keyed(c) /\ Keyed(p)
  PROVE  Good(e, Queue(c, m), p, A, N \o Queue(c, m).write_q)
<1> DEFINE d == Queue(c, m)
           x == [key |-> c.send_cipher.key,
                 nonce |-> Nonce(c.send_cipher, c.send_seq), m |-> m]
<1>1. Shape(c)
  BY GoodFacts
<1>2. /\ Shape(d) /\ d.write_q = Append(c.write_q, x)
      /\ d.send_cipher.key = c.send_cipher.key
      /\ \A f \in Fields \ {"write_q", "send_cipher", "send_seq",
                            "packets_io", "reused", "used"} : d[f] = c[f]
  BY <1>1, QueueFields
<1>3. x.m = m /\ x.key = c.send_cipher.key
  OBVIOUS
<1> HIDE DEF d, x
<1>4. /\ d.ident_in_done = c.ident_in_done /\ d.authed = c.authed
      /\ d.attempts = c.attempts /\ d.auth_fails = c.auth_fails
      /\ d.sent_newkeys = c.sent_newkeys /\ d.recv_newkeys = c.recv_newkeys
      /\ d.first_kex_done = c.first_kex_done /\ d.closed = c.closed
  BY <1>2 DEF Fields
<1>5. Moves(c, d, p)
  BY <1>2, <1>4, GoodFacts DEF Moves, Keyed
<1>6. Allowed(d, p, x)
  BY <1>2, <1>3 DEF Allowed, Keyed, KexMsgs
<1> QED
  BY <1>2, <1>5, <1>6, SendGood DEF d

\* start_kex.
LEMMA StartKexGood ==
  ASSUME NEW e \in Ends, NEW c, NEW p, NEW A, NEW N, IsSeq(N),
         Good(e, c, p, A, N \o c.write_q)
  PROVE  Good(e, StartKex(e, c), p, A, N \o StartKex(e, c).write_q)
<1> DEFINE m == KexInit(e, c.kexes)
           q == Queue(c, m)
           d == StartKex(e, c)
<1>1. m.t = "KEXINIT"
  BY DEF KexInit
<1> HIDE DEF m
<1>2. Good(e, q, p, A, N \o q.write_q)
  BY <1>1, QueueGood DEF KexMsgs
<1> HIDE DEF q
<1>3. d = [q EXCEPT
        !.kexes = @ + 1,
        !.sent_kexinit = TRUE, !.sent_newkeys = FALSE, !.recv_newkeys = FALSE,
        !.kex_blocks_app = TRUE,
        !.kex = [ours |-> m, theirs |-> None, c2s |-> "", s2c |-> "",
                 secret |-> IF e = "client" THEN <<c.kexes>> ELSE None]]
  BY DEF StartKex, q, m
<1>4. Shape(q)
  BY <1>2, GoodFacts
<1> HIDE DEF d
<1>5. Moves(q, d, p) /\ d.write_q = q.write_q
  BY <1>2, <1>3, <1>4, GoodFacts DEF Moves, Keyed, Shape, Fields
<1> QED
  BY <1>2, <1>5, StayGood DEF d

\* maybe_start_kex and maybe_rekey.
LEMMA MaybeKexGood ==
  ASSUME NEW e \in Ends, NEW c, NEW p, NEW A, NEW N, IsSeq(N),
         Good(e, c, p, A, N \o c.write_q)
  PROVE  /\ Good(e, MaybeStartKex(e, c), p, A, N \o MaybeStartKex(e, c).write_q)
         /\ Good(e, MaybeRekey(e, c), p, A, N \o MaybeRekey(e, c).write_q)
  BY StartKexGood DEF MaybeStartKex, MaybeRekey

\* The client opens the dialogue or goes on with it.
LEMMA ClientTalkGood ==
  ASSUME NEW c, NEW p, NEW A, NEW B, NEW x, Good("client", c, p, A, B),
         Keyed(c), Keyed(p), c.first_kex_done, x.key # None,
         Turn(x) => ~Has(A) /\ ~Has(B) /\ ~p.authed,
         \/ x.m.t = "SERVICE_REQUEST" /\ c.attempts = 0
         \/ /\ x.m.t = "USERAUTH_REQUEST"
            /\ \E i \in 1 .. c.attempts : x.m.try = client.tries[i]
  PROVE  Good("client", c, p, A, Append(B, x))
<1> DEFINE C == Append(B, x)
<1>1. IsSeq(B)
  BY DEF Good, StreamInv
<1>2. /\ IsSeq(C) /\ Elems(C) = Elems(B) \union {x} /\ Len(C) = Len(B) + 1
      /\ Len(B) \in Nat /\ C[Len(B) + 1] = x
      /\ \A i \in 1 .. Len(B) : C[i] = B[i]
  BY <1>1, AppendElems
<1>3. x.m.t \in Types /\ x.m.t # "IDENT" /\ x.m.t \notin ToClientTalk
  BY DEF Types, ToServerTalk, ToClientTalk
<1>4. (Single(B) => Single(C)) /\ (Has(C) <=> Has(B) \/ Turn(x))
  BY <1>1, AppendTalk
<1> HIDE DEF C
<1>5. StreamInv(p, C)
  <2>1. StreamInv(p, B)
    BY DEF Good
  <2>2. \A i \in 1 .. Len(C) : i \in 1 .. Len(B) \/ i = Len(B) + 1
    BY <1>2
  <2> QED
    BY <1>2, <1>3, <2>1, <2>2 DEF StreamInv
<1>6. ClearInv(c, p, C)
  BY <1>2 DEF Good, ClearInv
<1>7. AuthInv(c, p, A, C)
  BY <1>2, <1>3, <1>4 DEF Good, AuthInv, ToServerTalk, ToClientTalk
<1> QED
  BY <1>5, <1>6, <1>7 DEF Good, C

\* The server answers.
LEMMA ServerTalkGood ==
  ASSUME NEW c, NEW p, NEW A, NEW B, NEW x, Good("server", c, p, A, B),
         Keyed(c), Keyed(p), p.first_kex_done, x.key # None,
         Turn(x) => ~Has(A) /\ ~Has(B),
         \/ x.m.t = "SERVICE_ACCEPT" /\ p.attempts = 0 /\ ~c.authed
         \/ x.m.t = "USERAUTH_FAILURE" /\ p.attempts > 0
         \/ x.m.t = "USERAUTH_SUCCESS" /\ c.authed
  PROVE  Good("server", c, p, A, Append(B, x))
<1> DEFINE C == Append(B, x)
<1>1. IsSeq(B)
  BY DEF Good, StreamInv
<1>2. /\ IsSeq(C) /\ Elems(C) = Elems(B) \union {x} /\ Len(C) = Len(B) + 1
      /\ Len(B) \in Nat /\ C[Len(B) + 1] = x
      /\ \A i \in 1 .. Len(B) : C[i] = B[i]
  BY <1>1, AppendElems
<1>3. /\ x.m.t \in Types /\ x.m.t # "IDENT" /\ x.m.t \notin ToServerTalk
      /\ Turn(x) => x.m.t # "USERAUTH_FAILURE"
  BY DEF Types, ToServerTalk, ToClientTalk, Turn
<1>4. (Single(B) => Single(C)) /\ (Has(C) <=> Has(B) \/ Turn(x))
  BY <1>1, AppendTalk
<1> HIDE DEF C
<1>5. StreamInv(p, C)
  <2>1. StreamInv(p, B)
    BY DEF Good
  <2>2. \A i \in 1 .. Len(C) : i \in 1 .. Len(B) \/ i = Len(B) + 1
    BY <1>2
  <2> QED
    BY <1>2, <1>3, <2>1, <2>2 DEF StreamInv
<1>6. ClearInv(c, p, C)
  BY <1>2 DEF Good, ClearInv
<1>7. AuthInv(p, c, C, A)
  BY <1>2, <1>3, <1>4 DEF Good, AuthInv, ToServerTalk, ToClientTalk
<1> QED
  BY <1>5, <1>6, <1>7 DEF Good, C

\* The client queues a message of the dialogue.
LEMMA ClientQueueGood ==
  ASSUME NEW c, NEW p, NEW A, NEW N, IsSeq(N), NEW m,
         Good("client", c, p, A, N \o c.write_q),
         Keyed(c), Keyed(p), c.first_kex_done,
         ~Has(A), ~Has(N \o c.write_q), ~p.authed,
         \/ m.t = "SERVICE_REQUEST" /\ c.attempts = 0
         \/ /\ m.t = "USERAUTH_REQUEST"
            /\ \E i \in 1 .. c.attempts : m.try = client.tries[i]
  PROVE  Good("client", Queue(c, m), p, A, N \o Queue(c, m).write_q)
<1> DEFINE d == Queue(c, m)
           x == [key |-> c.send_cipher.key,
                 nonce |-> Nonce(c.send_cipher, c.send_seq), m |-> m]
<1>1. Shape(c)
  BY GoodFacts
<1>2. /\ Shape(d) /\ d.write_q = Append(c.write_q, x)
      /\ d.send_cipher.key = c.send_cipher.key
      /\ \A f \in Fields \ {"write_q", "send_cipher", "send_seq",
                            "packets_io", "reused", "used"} : d[f] = c[f]
  BY <1>1, QueueFields
<1>3. x.m = m /\ x.key = c.send_cipher.key
  OBVIOUS
<1> HIDE DEF d, x
<1>4. /\ d.ident_in_done = c.ident_in_done /\ d.authed = c.authed
      /\ d.attempts = c.attempts /\ d.auth_fails = c.auth_fails
      /\ d.sent_newkeys = c.sent_newkeys /\ d.recv_newkeys = c.recv_newkeys
      /\ d.first_kex_done = c.first_kex_done /\ d.closed = c.closed
  BY <1>2 DEF Fields
<1>5. Moves(c, d, p) /\ Keyed(d) /\ "client" \in Ends
  BY <1>2, <1>4, GoodFacts DEF Moves, Keyed, Ends
<1>6. Good("client", d, p, A, N \o c.write_q)
  BY <1>5, MoveGood
<1>7. Good("client", d, p, A, Append(N \o c.write_q, x))
  BY <1>3, <1>4, <1>5, <1>6, ClientTalkGood DEF Keyed
<1>8. N \o Append(c.write_q, x) = Append(N \o c.write_q, x)
  BY <1>1, ConcatElems DEF Shape
<1> QED
  BY <1>2, <1>7, <1>8 DEF d

\* The server queues a message of the dialogue.
LEMMA ServerQueueGood ==
  ASSUME NEW c, NEW p, NEW A, NEW N, IsSeq(N), NEW m,
         Good("server", c, p, A, N \o c.write_q),
         Keyed(c), Keyed(p), p.first_kex_done,
         m.t # "USERAUTH_FAILURE" => ~Has(A) /\ ~Has(N \o c.write_q),
         \/ m.t = "SERVICE_ACCEPT" /\ p.attempts = 0 /\ ~c.authed
         \/ m.t = "USERAUTH_FAILURE" /\ p.attempts > 0
         \/ m.t = "USERAUTH_SUCCESS" /\ c.authed
  PROVE  Good("server", Queue(c, m), p, A, N \o Queue(c, m).write_q)
<1> DEFINE d == Queue(c, m)
           x == [key |-> c.send_cipher.key,
                 nonce |-> Nonce(c.send_cipher, c.send_seq), m |-> m]
<1>1. Shape(c)
  BY GoodFacts
<1>2. /\ Shape(d) /\ d.write_q = Append(c.write_q, x)
      /\ d.send_cipher.key = c.send_cipher.key
      /\ \A f \in Fields \ {"write_q", "send_cipher", "send_seq",
                            "packets_io", "reused", "used"} : d[f] = c[f]
  BY <1>1, QueueFields
<1>3. x.m = m /\ x.key = c.send_cipher.key
  OBVIOUS
<1> HIDE DEF d, x
<1>4. /\ d.ident_in_done = c.ident_in_done /\ d.authed = c.authed
      /\ d.attempts = c.attempts /\ d.auth_fails = c.auth_fails
      /\ d.sent_newkeys = c.sent_newkeys /\ d.recv_newkeys = c.recv_newkeys
      /\ d.first_kex_done = c.first_kex_done /\ d.closed = c.closed
  BY <1>2 DEF Fields
<1>5. Moves(c, d, p) /\ Keyed(d) /\ "server" \in Ends
  BY <1>2, <1>4, GoodFacts DEF Moves, Keyed, Ends
<1>6. Good("server", d, p, A, N \o c.write_q)
  BY <1>5, MoveGood
<1>7. Good("server", d, p, A, Append(N \o c.write_q, x))
  <2>1. Turn(x) => ~Has(A) /\ ~Has(N \o c.write_q)
    BY <1>3 DEF Turn
  <2> QED
    BY <1>3, <1>4, <1>5, <1>6, <2>1, ServerTalkGood DEF Keyed
<1>8. N \o Append(c.write_q, x) = Append(N \o c.write_q, x)
  BY <1>1, ConcatElems DEF Shape
<1> QED
  BY <1>2, <1>7, <1>8 DEF d

\* try_complete_kex: the client's service request follows the first exchange
\* and no other.
LEMMA TryCompleteKexGood ==
  ASSUME NEW e \in Ends, NEW c, NEW p, NEW A, NEW N, IsSeq(N),
         Good(e, c, p, A, N \o c.write_q)
  PROVE  Good(e, TryCompleteKex(e, c), p, A, N \o TryCompleteKex(e, c).write_q)
<1> DEFINE d == [c EXCEPT !.kex = None, !.sent_kexinit = FALSE,
                          !.pending_keys = None, !.packets_io = 0]
           g == [d EXCEPT !.kex_blocks_app = FALSE]
           f == [d EXCEPT !.first_kex_done = TRUE]
<1>1. Shape(c)
  BY GoodFacts
<1>2. CASE ~c.sent_newkeys \/ ~c.recv_newkeys
  BY <1>2 DEF TryCompleteKex
<1>3. CASE c.sent_newkeys /\ c.recv_newkeys
  <2>1. Keyed(c) /\ Keyed(p)
    BY <1>3, GoodFacts
  <2>2. /\ Moves(c, g, p) /\ g.write_q = c.write_q
        /\ Moves(c, f, p) /\ f.write_q = c.write_q
        /\ f.first_kex_done /\ f.attempts = c.attempts /\ Keyed(f)
    BY <1>1, <2>1, GoodFacts DEF Moves, Keyed, Shape, Fields
  <2>3. /\ Good(e, g, p, A, N \o g.write_q)
        /\ Good(e, f, p, A, N \o f.write_q)
    BY <2>2, StayGood
  <2>4. TryCompleteKex(e, c) = IF c.first_kex_done THEN g
                               ELSE IF e = "client" THEN SendServiceRequest(f)
                               ELSE IF c.peer_ext_info THEN SendExtInfo(f) ELSE f
    BY <1>3 DEF TryCompleteKex
  <2> HIDE DEF d, g, f
  <2>5. CASE c.first_kex_done
    BY <2>3, <2>4, <2>5
  <2>6. CASE ~c.first_kex_done /\ e = "client"
    <3>1. /\ ~Has(A) /\ ~Has(N \o c.write_q) /\ ~p.authed
          /\ c.attempts = 0
      BY <2>6 DEF Good, AuthInv
    <3>3. Msg("SERVICE_REQUEST").t = "SERVICE_REQUEST"
      BY DEF Msg
    <3>4. Good(e, f, p, A, N \o f.write_q) /\ ~Has(N \o f.write_q)
      BY <2>2, <2>3, <3>1
    <3> DEFINE m == Msg("SERVICE_REQUEST")
    <3> HIDE DEF m
    <3>5. Good("client", Queue(f, m), p, A, N \o Queue(f, m).write_q)
      BY <2>1, <2>2, <2>6, <3>1, <3>3, <3>4, ClientQueueGood DEF m
    <3> QED
      BY <2>4, <2>6, <3>5 DEF SendServiceRequest, m
  <2>7. CASE ~c.first_kex_done /\ e # "client"
    <3> DEFINE m == Msg("EXT_INFO")
    <3>1. m.t = "EXT_INFO"
      BY DEF Msg
    <3> HIDE DEF m
    <3>2. Good(e, Queue(f, m), p, A, N \o Queue(f, m).write_q)
      BY <2>2, <2>3, <3>1, QueueGood DEF Others
    <3> QED
      BY <2>3, <2>4, <2>7, <3>2 DEF SendExtInfo, m
  <2> QED
    BY <2>5, <2>6, <2>7
<1> QED
  BY <1>2, <1>3

\* An error return.
LEMMA FailGood ==
  ASSUME NEW e \in Ends, NEW c, NEW p, NEW A, NEW N, NEW why,
         Good(e, c, p, A, N \o c.write_q)
  PROVE  Good(e, Fail(c, why), p, A, N \o Fail(c, why).write_q)
<1>1. Moves(c, Fail(c, why), p) /\ Fail(c, why).write_q = c.write_q
  BY GoodFacts DEF Moves, Keyed, Shape, Fields, Fail
<1> QED
  BY <1>1, StayGood

\* send_newkeys: NEWKEYS is the last packet under the old key.
LEMMA SendNewkeysGood ==
  ASSUME NEW e \in Ends, NEW c, NEW p, NEW A, NEW N, IsSeq(N),
         Good(e, c, p, A, N \o c.write_q), c.pending_keys # None,
         DOMAIN c.pending_keys.send = {"key", "kind", "iv"},
         c.pending_keys.send.key # None
  PROVE  Good(e, SendNewkeys(e, c), p, A, N \o SendNewkeys(e, c).write_q)
<1> DEFINE m == Msg("NEWKEYS")
           q == Queue(c, m)
           x == [key |-> c.send_cipher.key,
                 nonce |-> Nonce(c.send_cipher, c.send_seq), m |-> m]
           k == [q EXCEPT !.send_cipher = q.pending_keys.send,
                          !.pending_keys.send = Clear]
           s == [k EXCEPT !.sent_newkeys = TRUE,
                          !.send_seq = IF c.strict_kex THEN 0 ELSE @]
<1>1. Shape(c) /\ m.t = "NEWKEYS"
  BY GoodFacts DEF Msg
<1>2. x.m = m /\ x.key = c.send_cipher.key
  OBVIOUS
<1>3. /\ Shape(q) /\ q.write_q = Append(c.write_q, x)
      /\ q.send_cipher.key = c.send_cipher.key
      /\ \A f \in Fields \ {"write_q", "send_cipher", "send_seq",
                            "packets_io", "reused", "used"} : q[f] = c[f]
  BY <1>1, QueueFields
<1> HIDE DEF m, x
<1>4. SendNewkeys(e, c) = TryCompleteKex(e, s)
  <2>1. q.pending_keys = c.pending_keys
    BY <1>3 DEF Fields
  <2> QED
    BY <2>1 DEF SendNewkeys, m
<1> HIDE DEF q
<1>5. /\ q.ident_in_done = c.ident_in_done /\ q.authed = c.authed
      /\ q.attempts = c.attempts /\ q.auth_fails = c.auth_fails
      /\ q.recv_newkeys = c.recv_newkeys /\ q.pending_keys = c.pending_keys
      /\ q.first_kex_done = c.first_kex_done /\ q.closed = c.closed
  BY <1>3 DEF Fields
<1>6. /\ DOMAIN s = Fields /\ s.write_q = q.write_q
      /\ s.send_cipher = c.pending_keys.send /\ s.sent_newkeys
      /\ s.ident_in_done = c.ident_in_done /\ s.authed = c.authed
      /\ s.attempts = c.attempts /\ s.auth_fails = c.auth_fails
      /\ s.recv_newkeys = c.recv_newkeys
      /\ s.first_kex_done = c.first_kex_done /\ s.closed = c.closed
  BY <1>3, <1>5 DEF Shape, Fields
<1> HIDE DEF s
<1>7. Shape(s) /\ Keyed(s)
  BY <1>3, <1>6 DEF Shape, Keyed
<1>8. Moves(c, s, p)
  BY <1>6, <1>7, GoodFacts DEF Moves
<1>9. Allowed(s, p, x)
  BY <1>1, <1>2, <1>7 DEF Allowed, KexMsgs
<1>10. Good(e, s, p, A, N \o s.write_q)
  BY <1>3, <1>6, <1>8, <1>9, SendGood
<1> QED
  BY <1>4, <1>10, TryCompleteKexGood

\* finish_kex: the new keys wait for NEWKEYS.
LEMMA FinishKexGood ==
  ASSUME NEW e \in Ends, NEW c, NEW p, NEW A, NEW N, NEW a, NEW b,
         Good(e, c, p, A, N \o c.write_q)
  PROVE  LET f == FinishKex(e, c, a, b)
         IN /\ Good(e, f, p, A, N \o f.write_q)
            /\ f.pending_keys # None
            /\ DOMAIN f.pending_keys.send = {"key", "kind", "iv"}
            /\ f.pending_keys.send.key # None
<1> DEFINE f == FinishKex(e, c, a, b)
           i_c == IF e = "server" THEN c.kex.theirs ELSE c.kex.ours
           i_s == IF e = "server" THEN c.kex.ours ELSE c.kex.theirs
           h   == <<i_c.cookie, i_s.cookie, a, b>>
           sid == IF c.session_id = None THEN h ELSE c.session_id
           c2s == MakeKeys(c.kex.c2s, h, sid, "C")
           s2c == MakeKeys(c.kex.s2c, h, sid, "D")
           keys == [send |-> IF e = "server" THEN s2c ELSE c2s,
                    recv |-> IF e = "server" THEN c2s ELSE s2c]
<1>1. Shape(c)
  BY GoodFacts
<1>2. f = [c EXCEPT !.session_id = sid, !.pending_keys = keys]
  BY DEF FinishKex
<1>3. /\ \A k, i, j, l : /\ DOMAIN MakeKeys(k, i, j, l) = {"key", "kind", "iv"}
                         /\ MakeKeys(k, i, j, l).key = <<k, i, j, l>>
      /\ \A k, i, j, l : <<k, i, j, l>> # None
  BY DEF MakeKeys, None
<1>4. DOMAIN keys.send = {"key", "kind", "iv"} /\ keys.send.key # None
  <2> HIDE DEF h, sid
  <2> QED
    BY <1>3
<1>5. keys # None
  <2>1. "send" \in DOMAIN keys
    OBVIOUS
  <2>2. "send" \notin DOMAIN None
    BY DEF None
  <2> HIDE DEF keys
  <2> QED
    BY <2>1, <2>2
<1> HIDE DEF f, keys, sid
<1>6. f.pending_keys = keys
  BY <1>1, <1>2 DEF Shape, Fields
<1>7. Moves(c, f, p) /\ f.write_q = c.write_q
  BY <1>1, <1>2, GoodFacts DEF Moves, Keyed, Shape, Fields
<1>8. Good(e, f, p, A, N \o f.write_q)
  BY <1>7, StayGood
<1> QED
  BY <1>4, <1>5, <1>6, <1>8 DEF f

\* on_kexinit.
LEMMA OnKexinitGood ==
  ASSUME NEW e \in Ends, NEW c, NEW p, NEW A, NEW N, IsSeq(N), NEW m,
         Good(e, c, p, A, N \o c.write_q)
  PROVE  Good(e, OnKexinit(e, c, m), p, A, N \o OnKexinit(e, c, m).write_q)
<1> DEFINE k == IF c.kex = None THEN StartKex(e, c) ELSE c
           c2s == CipherFor(e, k.kex.ours.enc_c2s, m.enc_c2s)
           s2c == CipherFor(e, k.kex.ours.enc_s2c, m.enc_s2c)
           n == [k EXCEPT !.kex.theirs = m, !.kex.c2s = c2s, !.kex.s2c = s2c,
                          !.strict_kex = @ \/ (m.strict /\ k.kex.ours.strict),
                          !.peer_ext_info = m.ext]
           i == [t |-> "ECDH_INIT", q_c |-> n.kex.secret]
<1>1. OnKexinit(e, c, m) = IF "no match" \in {c2s, s2c} THEN Fail(k, "protocol")
                           ELSE IF e = "client" THEN Queue(n, i) ELSE n
  BY DEF OnKexinit
<1>2. Good(e, k, p, A, N \o k.write_q)
  BY StartKexGood
<1> HIDE DEF k
<1>3. Good(e, Fail(k, "protocol"), p, A, N \o Fail(k, "protocol").write_q)
  BY <1>2, FailGood
<1>4. Moves(k, n, p) /\ n.write_q = k.write_q
  <2>1. Shape(k)
    BY <1>2, GoodFacts
  <2> HIDE DEF c2s, s2c
  <2> QED
    BY <1>2, <2>1, GoodFacts DEF Moves, Keyed, Shape, Fields
<1>5. i.t = "ECDH_INIT"
  OBVIOUS
<1> HIDE DEF n, i, c2s, s2c
<1>6. Good(e, n, p, A, N \o n.write_q)
  BY <1>2, <1>4, StayGood
<1>7. Good(e, Queue(n, i), p, A, N \o Queue(n, i).write_q)
  BY <1>5, <1>6, QueueGood DEF KexMsgs
<1> QED
  BY <1>1, <1>3, <1>6, <1>7

\* on_ecdh_init and on_ecdh_reply.
LEMMA OnEcdhGood ==
  ASSUME NEW e \in Ends, NEW c, NEW p, NEW A, NEW N, IsSeq(N), NEW m,
         Good(e, c, p, A, N \o c.write_q)
  PROVE  /\ Good(e, OnEcdhInit(e, c, m), p, A, N \o OnEcdhInit(e, c, m).write_q)
         /\ Good(e, OnEcdhReply(e, c, m), p, A, N \o OnEcdhReply(e, c, m).write_q)
<1>1. Good(e, Fail(c, "protocol"), p, A, N \o Fail(c, "protocol").write_q)
  BY FailGood
<1>2. Good(e, OnEcdhInit(e, c, m), p, A, N \o OnEcdhInit(e, c, m).write_q)
  <2> DEFINE q_s == <<c.kex.ours.cookie>>
             f == FinishKex(e, c, m.q_c, q_s)
             r == [t |-> "ECDH_REPLY", q_s |-> q_s]
             d == Queue(f, r)
  <2>1. \/ OnEcdhInit(e, c, m) = Fail(c, "protocol")
        \/ OnEcdhInit(e, c, m) = SendNewkeys(e, d)
    BY DEF OnEcdhInit
  <2>2. r.t = "ECDH_REPLY"
    OBVIOUS
  <2> HIDE DEF r
  <2>3. /\ Good(e, f, p, A, N \o f.write_q)
        /\ f.pending_keys # None
        /\ DOMAIN f.pending_keys.send = {"key", "kind", "iv"}
        /\ f.pending_keys.send.key # None
    BY FinishKexGood
  <2> HIDE DEF f
  <2>4. Good(e, d, p, A, N \o d.write_q)
    BY <2>2, <2>3, QueueGood DEF KexMsgs
  <2>5. d.pending_keys = f.pending_keys
    <3>1. Shape(f) /\ "pending_keys" \in Fields
      BY <2>3, GoodFacts DEF Fields
    <3>2. \A g \in Fields \ {"write_q", "send_cipher", "send_seq",
                             "packets_io", "reused", "used"} : d[g] = f[g]
      BY <3>1, QueueFields
    <3> HIDE DEF d
    <3> QED
      BY <3>1, <3>2
  <2> HIDE DEF d
  <2>6. Good(e, SendNewkeys(e, d), p, A, N \o SendNewkeys(e, d).write_q)
    BY <2>3, <2>4, <2>5, SendNewkeysGood
  <2> QED
    BY <1>1, <2>1, <2>6
<1>3. Good(e, OnEcdhReply(e, c, m), p, A, N \o OnEcdhReply(e, c, m).write_q)
  <2> DEFINE f == FinishKex(e, c, c.kex.secret, m.q_s)
             d == [f EXCEPT !.kex.secret = None]
  <2>1. \/ OnEcdhReply(e, c, m) = Fail(c, "protocol")
        \/ OnEcdhReply(e, c, m) = SendNewkeys(e, d)
    BY DEF OnEcdhReply
  <2>2. /\ Good(e, f, p, A, N \o f.write_q)
        /\ f.pending_keys # None
        /\ DOMAIN f.pending_keys.send = {"key", "kind", "iv"}
        /\ f.pending_keys.send.key # None
    BY FinishKexGood
  <2> HIDE DEF f
  <2>3. /\ Moves(f, d, p) /\ d.write_q = f.write_q
        /\ d.pending_keys = f.pending_keys
    BY <2>2, GoodFacts DEF Moves, Keyed, Shape, Fields
  <2> HIDE DEF d
  <2>4. Good(e, d, p, A, N \o d.write_q)
    BY <2>2, <2>3, StayGood
  <2>5. Good(e, SendNewkeys(e, d), p, A, N \o SendNewkeys(e, d).write_q)
    BY <2>2, <2>3, <2>4, SendNewkeysGood
  <2> QED
    BY <1>1, <2>1, <2>5
<1> QED
  BY <1>2, <1>3

\* on_newkeys: p has left the clear, since its NEWKEYS was on the way.
LEMMA OnNewkeysGood ==
  ASSUME NEW e \in Ends, NEW c, NEW p, NEW A, NEW N, IsSeq(N),
         Good(e, c, p, A, N \o c.write_q), Keyed(p)
  PROVE  Good(e, OnNewkeys(e, c), p, A, N \o OnNewkeys(e, c).write_q)
<1> DEFINE k == [c EXCEPT
                   !.recv_cipher = c.pending_keys.recv,
                   !.pending_keys = IF c.sent_newkeys THEN None
                                    ELSE [c.pending_keys EXCEPT !.recv = Clear],
                   !.recv_newkeys = TRUE]
<1>1. \/ OnNewkeys(e, c) = Fail(c, "protocol")
      \/ OnNewkeys(e, c) = TryCompleteKex(e, k)
  BY DEF OnNewkeys
<1>2. Moves(c, k, p) /\ k.write_q = c.write_q
  BY GoodFacts DEF Moves, Keyed, Shape, Fields
<1> HIDE DEF k
<1>3. Good(e, k, p, A, N \o k.write_q)
  BY <1>2, StayGood
<1>4. Good(e, TryCompleteKex(e, k), p, A, N \o TryCompleteKex(e, k).write_q)
  BY <1>3, TryCompleteKexGood
<1>5. Good(e, Fail(c, "protocol"), p, A, N \o Fail(c, "protocol").write_q)
  BY FailGood
<1> QED
  BY <1>1, <1>4, <1>5

-----------------------------------------------------------------------------
(* Receiving.                                                              *)

\* What c may rely on in the packet that comes next.
LEMMA TakeGood ==
  ASSUME NEW e \in Ends, NEW c, NEW p, NEW A, NEW B, Good(e, c, p, A, B),
         A # << >>
  PROVE  /\ Good(e, c, p, Tail(A), B)
         /\ Head(A).m.t \in Types
         /\ \A y \in Elems(Tail(A)) : y.m.t # "IDENT"
         /\ c.ident_in_done => Head(A).m.t # "IDENT"
         /\ Head(A).m.t = "NEWKEYS" => Keyed(p)
         /\ Head(A).m.t \notin InClear \union {"EXT_INFO"} => Keyed(c) /\ Keyed(p)
         /\ Turn(Head(A)) => ~Has(Tail(A)) /\ ~Has(B)
<1> DEFINE T == Tail(A)
           x == Head(A)
<1>1. IsSeq(A)
  BY DEF Good, StreamInv
<1>2. /\ IsSeq(T) /\ x = A[1] /\ x \in Elems(A)
      /\ Elems(A) = {x} \union Elems(T)
      /\ Len(A) \in Nat /\ Len(A) > 0 /\ Len(T) = Len(A) - 1
      /\ \A i \in 1 .. Len(A) - 1 : T[i] = A[i + 1]
  BY <1>1, TailElems
<1> HIDE DEF T, x
<1>3. StreamInv(c, A) /\ ClearInv(p, c, A)
  BY DEF Good
<1>4. \A y \in Elems(T) : y.m.t # "IDENT"
  <2> SUFFICES ASSUME NEW i \in 1 .. Len(T) PROVE T[i].m.t # "IDENT"
    BY DEF Elems
  <2>1. i + 1 \in 1 .. Len(A) /\ T[i] = A[i + 1] /\ i + 1 # 1
    BY <1>2
  <2> QED
    BY <1>3, <2>1 DEF StreamInv
<1>5. \A i \in 1 .. Len(T) : T[i].m.t # "IDENT"
  BY <1>4 DEF Elems
<1>6. StreamInv(c, T)
  BY <1>2, <1>3, <1>5 DEF StreamInv
<1>7. ClearInv(p, c, T)
  BY <1>2, <1>3 DEF ClearInv
<1>8. Has(T) => Has(A)
  BY <1>2 DEF Has
<1>9. Turn(x) => Has(A)
  BY <1>2 DEF Has
<1>10. ASSUME Single(A) PROVE Single(T) /\ (Turn(x) => ~Has(T))
  <2>1. Single(T)
    <3> SUFFICES ASSUME NEW i \in 1 .. Len(T), NEW j \in 1 .. Len(T),
                        Turn(T[i]), Turn(T[j])
                 PROVE  i = j
      BY DEF Single
    <3>1. /\ i + 1 \in 1 .. Len(A) /\ T[i] = A[i + 1]
          /\ j + 1 \in 1 .. Len(A) /\ T[j] = A[j + 1]
      BY <1>2
    <3>2. i + 1 = j + 1
      BY <1>10, <3>1 DEF Single
    <3> QED
      BY <3>2
  <2>2. ASSUME Turn(x), Has(T) PROVE FALSE
    <3>1. PICK i \in 1 .. Len(T) : Turn(T[i])
      BY <2>2 DEF Has, Elems
    <3>2. i + 1 \in 1 .. Len(A) /\ T[i] = A[i + 1] /\ i + 1 # 1 /\ 1 \in 1 .. Len(A)
      BY <1>2
    <3> QED
      BY <1>2, <1>10, <2>2, <3>1, <3>2 DEF Single
  <2> QED
    BY <2>1, <2>2
<1>11. e = "client" \/ e = "server"
  BY DEF Ends
<1>12. Single(A) /\ ~(Has(A) /\ Has(B))
  BY <1>11 DEF Good, AuthInv
<1>13. e = "client" => AuthInv(c, p, T, B)
  BY <1>2, <1>8, <1>10, <1>12 DEF Good, AuthInv
<1>14. e = "server" => AuthInv(p, c, B, T)
  BY <1>2, <1>8, <1>10, <1>12 DEF Good, AuthInv
<1>15. Good(e, c, p, T, B)
  BY <1>6, <1>7, <1>13, <1>14 DEF Good
<1>16. /\ x.m.t \in Types /\ (c.ident_in_done => x.m.t # "IDENT")
       /\ x.m.t = "NEWKEYS" => Keyed(p)
       /\ x.m.t \notin InClear \union {"EXT_INFO"} => Keyed(c) /\ Keyed(p)
  <2>1. 1 \in 1 .. Len(A)
    BY <1>2
  <2> QED
    BY <1>2, <1>3, <2>1 DEF StreamInv, ClearInv
<1>17. Turn(x) => ~Has(T) /\ ~Has(B)
  BY <1>9, <1>10, <1>12
<1> QED
  BY <1>4, <1>15, <1>16, <1>17 DEF T, x

\* What the client has in its list of attempts.
LEMMA Tries ==
  ASSUME client \in Clients
  PROVE  /\ client.tries \in Seq({"none", "bad", "good"})
         /\ Len(client.tries) \in Nat /\ Len(client.tries) > 0
         /\ \A i \in 1 .. Len(client.tries) :
              /\ client.tries[i] \in {"none", "bad", "good"}
              /\ client.tries[i] = "good" => i = Len(client.tries)
<1>1. client.tries \in Seq({"none", "bad", "good"}) /\ client.tries # << >>
  BY TransportAssumptions
<1>2. \A i \in 1 .. Len(client.tries) :
        client.tries[i] = "good" => i = Len(client.tries)
  BY TransportAssumptions
<1> DEFINE t == client.tries
<1> HIDE DEF t
<1>3. t \in Seq({"none", "bad", "good"}) /\ t # << >>
  BY <1>1 DEF t
<1>4. /\ Len(t) \in Nat /\ Len(t) > 0
      /\ \A i \in 1 .. Len(t) : t[i] \in {"none", "bad", "good"}
  BY <1>3
<1> QED
  BY <1>1, <1>2, <1>4 DEF t

\* A client in the midst of its attempts: none of the messages that take
\* turns is under way.
LEMMA Amidst ==
  ASSUME client \in Clients, NEW c, NEW p, NEW A, NEW B, AuthInv(c, p, A, B),
         c.attempts > 0, c.attempts < Len(client.tries)
  PROVE  ~Has(A) /\ ~Has(B) /\ ~p.authed /\ c.first_kex_done
<1>1. /\ c.attempts \in 0 .. Len(client.tries) /\ Len(client.tries) \in Nat
      /\ \A i \in 1 .. Len(client.tries) :
           client.tries[i] = "good" => i = Len(client.tries)
  BY Tries DEF AuthInv
<1>2. ~p.authed /\ c.first_kex_done
  BY <1>1 DEF AuthInv
<1>3. ASSUME NEW x \in Elems(A), Turn(x) PROVE FALSE
  <2>1. x.m.t \in ToClientTalk /\ x.m.t # "USERAUTH_FAILURE"
    BY <1>3 DEF AuthInv, Turn, Talk
  <2>2. x.m.t # "SERVICE_ACCEPT" /\ x.m.t # "USERAUTH_SUCCESS"
    BY <1>1, <1>2 DEF AuthInv
  <2> QED
    BY <2>1, <2>2 DEF ToClientTalk
<1>4. ASSUME NEW x \in Elems(B), Turn(x) PROVE FALSE
  <2>1. x.m.t \in ToServerTalk /\ (x.m.t = "USERAUTH_REQUEST" => x.m.try = "good")
    BY <1>4 DEF AuthInv, Turn, Talk
  <2>2. x.m.t # "SERVICE_REQUEST"
    BY <1>1 DEF AuthInv
  <2>3. x.m.t = "USERAUTH_REQUEST" /\ x.m.try = "good"
    BY <2>1, <2>2 DEF ToServerTalk
  <2>4. PICK i \in 1 .. c.attempts : x.m.try = client.tries[i]
    BY <2>3 DEF AuthInv
  <2>5. i \in 1 .. Len(client.tries) /\ i # Len(client.tries)
    BY <1>1
  <2> QED
    BY <1>1, <2>3, <2>4, <2>5
<1> QED
  BY <1>2, <1>3, <1>4 DEF Has

\* A message of the dialogue that reaches the client.
LEMMA ClientHears ==
  ASSUME NEW c, NEW p, NEW A, NEW B, Good("client", c, p, A, B),
         NEW x \in Elems(A), Talk(x)
  PROVE  /\ x.m.t \in ToClientTalk
         /\ c.first_kex_done
         /\ x.m.t = "SERVICE_ACCEPT" => c.attempts = 0 /\ ~p.authed /\ Turn(x)
         /\ x.m.t = "USERAUTH_FAILURE" => c.attempts > 0
         /\ x.m.t = "USERAUTH_SUCCESS" => p.authed /\ Turn(x)
<1>1. AuthInv(c, p, A, B)
  BY DEF Good
<1>2. x.m.t \in ToClientTalk
  BY <1>1 DEF AuthInv, Talk
<1>3. /\ x.m.t = "SERVICE_ACCEPT" => c.attempts = 0 /\ Turn(x)
      /\ x.m.t = "USERAUTH_FAILURE" => c.attempts > 0
      /\ x.m.t = "USERAUTH_SUCCESS" => p.authed /\ Turn(x)
  BY <1>1 DEF AuthInv, Turn
<1>4. c.first_kex_done
  <2>1. Turn(x) => Has(A)
    BY DEF Has
  <2> QED
    BY <1>1, <1>2, <1>3, <2>1 DEF AuthInv, ToClientTalk
<1>5. x.m.t = "SERVICE_ACCEPT" => ~p.authed
  BY <1>1, <1>3 DEF AuthInv
<1> QED
  BY <1>2, <1>3, <1>4, <1>5

\* A message of the dialogue that reaches the server.
LEMMA ServerHears ==
  ASSUME client \in Clients,
         NEW c, NEW p, NEW A, NEW B, Good("server", c, p, A, B),
         NEW x \in Elems(A), Talk(x)
  PROVE  /\ x.m.t \in ToServerTalk
         /\ p.first_kex_done
         /\ x.m.t = "SERVICE_REQUEST" => p.attempts = 0 /\ ~c.authed /\ Turn(x)
         /\ x.m.t = "USERAUTH_REQUEST" =>
              /\ p.attempts > 0 /\ x.m.try \in {"none", "bad", "good"}
              /\ x.m.try = "good" =>
                   /\ Turn(x) /\ ~c.authed
                   /\ p.attempts = Len(client.tries)
                   /\ client.tries[p.attempts] = "good"
<1>1. AuthInv(p, c, B, A)
  BY DEF Good
<1>2. x.m.t \in ToServerTalk
  BY <1>1 DEF AuthInv, Talk
<1>3. Turn(x) => Has(A) /\ ~c.authed /\ p.first_kex_done
  <2>1. Turn(x) => Has(A)
    BY DEF Has
  <2> QED
    BY <1>1, <2>1 DEF AuthInv
<1>4. /\ p.attempts \in 0 .. Len(client.tries) /\ Len(client.tries) \in Nat
      /\ \A i \in 1 .. Len(client.tries) :
           /\ client.tries[i] \in {"none", "bad", "good"}
           /\ client.tries[i] = "good" => i = Len(client.tries)
  BY <1>1, Tries DEF AuthInv
<1>5. x.m.t = "SERVICE_REQUEST" => p.attempts = 0 /\ Turn(x)
  BY <1>1 DEF AuthInv, Turn
<1>6. ASSUME x.m.t = "USERAUTH_REQUEST"
      PROVE  /\ p.attempts > 0 /\ x.m.try \in {"none", "bad", "good"}
             /\ x.m.try = "good" => /\ Turn(x)
                                    /\ p.attempts = Len(client.tries)
                                    /\ client.tries[p.attempts] = "good"
  <2>1. PICK i \in 1 .. p.attempts : x.m.try = client.tries[i]
    BY <1>1, <1>6 DEF AuthInv
  <2>2. i \in 1 .. Len(client.tries) /\ p.attempts > 0
    BY <1>4
  <2>3. x.m.try = "good" => i = Len(client.tries) /\ i = p.attempts
    <3>1. x.m.try = "good" => i = Len(client.tries)
      BY <1>4, <2>1, <2>2
    <3>2. i = Len(client.tries) => i = p.attempts
      BY <1>4
    <3> QED
      BY <3>1, <3>2
  <2>4. x.m.try = "good" => Turn(x)
    BY <1>6 DEF Turn
  <2> QED
    BY <1>4, <2>1, <2>2, <2>3, <2>4
<1>7. p.first_kex_done
  BY <1>1, <1>2, <1>3, <1>5, <1>6 DEF AuthInv, ToServerTalk
<1> QED
  BY <1>2, <1>3, <1>5, <1>6, <1>7

\* The client's next attempt.
LEMMA SendAuthGood ==
  ASSUME NEW c, NEW p, NEW A, NEW N, IsSeq(N),
         Good("client", c, p, A, N \o c.write_q),
         ~Has(A), ~Has(N \o c.write_q), Keyed(c), Keyed(p), c.first_kex_done,
         ~p.authed, client \in Clients, c.attempts < Len(client.tries)
  PROVE  Good("client", SendAuth(c), p, A, N \o SendAuth(c).write_q)
<1> DEFINE d == [c EXCEPT !.attempts = @ + 1]
           B == N \o c.write_q
           m == [t |-> "USERAUTH_REQUEST", try |-> client.tries[c.attempts + 1]]
<1>1. Shape(c)
  BY GoodFacts
<1>2. /\ Shape(d) /\ d.write_q = c.write_q /\ d.attempts = c.attempts + 1
      /\ d.first_kex_done = c.first_kex_done /\ d.authed = c.authed
      /\ d.sent_newkeys = c.sent_newkeys /\ d.recv_newkeys = c.recv_newkeys
      /\ d.send_cipher = c.send_cipher /\ d.ident_in_done = c.ident_in_done
  BY <1>1 DEF Shape, Fields
<1>3. m.t = "USERAUTH_REQUEST" /\ m.try = client.tries[d.attempts]
  BY <1>2
<1>4. SendAuth(c) = Queue(d, m)
  BY DEF SendAuth
<1> HIDE DEF d, m, B
<1>5. /\ Shape(p) /\ StreamInv(c, A) /\ StreamInv(p, B) /\ ClearInv(c, p, B)
      /\ ClearInv(p, c, A) /\ AuthInv(c, p, A, B) /\ ~Has(B)
  BY DEF Good, B
<1>6. StreamInv(d, A) /\ ClearInv(d, p, B) /\ ClearInv(p, d, A)
  BY <1>2, <1>5 DEF StreamInv, ClearInv, Keyed
<1>7. c.attempts \in 0 .. Len(client.tries) /\ Len(client.tries) \in Nat
  BY <1>5, Tries DEF AuthInv
<1>8. /\ d.attempts \in 0 .. Len(client.tries) /\ d.attempts > 0
      /\ d.attempts \in 1 .. d.attempts
      /\ \A i \in 1 .. c.attempts : i \in 1 .. d.attempts
  BY <1>2, <1>7
<1>9. AuthInv(d, p, A, B)
  <2>1. \A x \in Elems(A) : x.m.t # "SERVICE_ACCEPT"
    BY DEF Has, Turn, Talk, ToClientTalk
  <2>2. \A x \in Elems(B) : x.m.t # "SERVICE_REQUEST"
    BY <1>5 DEF Has, Turn, Talk, ToServerTalk
  <2> QED
    BY <1>2, <1>5, <1>8, <2>1, <2>2 DEF AuthInv
<1>10. Good("client", d, p, A, N \o d.write_q)
  BY <1>2, <1>5, <1>6, <1>9 DEF Good, B
<1>11. Keyed(d) /\ ~Has(N \o d.write_q) /\ d.first_kex_done
  BY <1>2 DEF Keyed
<1> QED
  BY <1>3, <1>4, <1>8, <1>10, <1>11, ClientQueueGood

\* A side of which only what AuthInv says of the server has changed.
LEMMA ServerChange ==
  ASSUME NEW c, NEW d, NEW p, NEW A, NEW B, Good("server", c, p, A, B),
         Shape(d), Keyed(d),
         d.ident_in_done = c.ident_in_done, d.sent_newkeys = c.sent_newkeys,
         d.recv_newkeys = c.recv_newkeys, d.first_kex_done = c.first_kex_done,
         Keyed(c), Keyed(p), p.first_kex_done,
         d.auth_fails \in Nat, d.auth_fails >= MaxAuthFails => d.closed,
         \/ d.authed = c.authed
         \/ /\ d.authed /\ ~Has(A) /\ ~Has(B)
            /\ p.attempts = Len(client.tries) /\ client.tries[p.attempts] = "good"
  PROVE  Good("server", d, p, A, B)
<1>1. /\ Shape(p) /\ StreamInv(c, A) /\ StreamInv(p, B) /\ ClearInv(c, p, B)
      /\ ClearInv(p, c, A) /\ AuthInv(p, c, B, A)
  BY DEF Good
<1>2. StreamInv(d, A)
  BY <1>1 DEF StreamInv
<1>3. ClearInv(d, p, B) /\ ClearInv(p, d, A)
  BY <1>1 DEF ClearInv, Keyed
<1>4. AuthInv(p, d, B, A)
  <2>1. CASE d.authed = c.authed
    BY <1>1, <2>1 DEF AuthInv
  <2>2. CASE d.authed /\ ~Has(A) /\ ~Has(B)
             /\ p.attempts = Len(client.tries) /\ client.tries[p.attempts] = "good"
    <3>1. \A x \in Elems(B) : ~Turn(x)
      BY <2>2 DEF Has
    <3> QED
      BY <1>1, <2>2, <3>1 DEF AuthInv
  <2> QED
    BY <2>1, <2>2
<1> QED
  BY <1>1, <1>2, <1>3, <1>4 DEF Good

\* From c to g at most the failures counted have changed.
Counted(c, g) ==
  /\ Shape(g) /\ g.send_cipher = c.send_cipher /\ g.write_q = c.write_q
  /\ g.ident_in_done = c.ident_in_done /\ g.sent_newkeys = c.sent_newkeys
  /\ g.recv_newkeys = c.recv_newkeys /\ g.authed = c.authed
  /\ g.first_kex_done = c.first_kex_done /\ g.auth_fails \in Nat

\* disconnect.
LEMMA DisconnectGood ==
  ASSUME NEW c, NEW g, NEW p, NEW A, NEW N, IsSeq(N),
         Good("server", c, p, A, N \o c.write_q), Keyed(c), Keyed(p),
         p.first_kex_done, Counted(c, g)
  PROVE  Good("server", Disconnect(g), p, A, N \o Disconnect(g).write_q)
<1> DEFINE m == Msg("DISCONNECT")
           q == Queue(g, m)
           d == [q EXCEPT !.closed = TRUE]
           x == [key |-> g.send_cipher.key,
                 nonce |-> Nonce(g.send_cipher, g.send_seq), m |-> m]
<1>1. Shape(g) /\ "server" \in Ends /\ m.t = "DISCONNECT" /\ Keyed(g)
  BY DEF Ends, Msg, Counted, Keyed
<1>2. CASE g.closed
  <2>1. Disconnect(g) = g
    BY <1>2 DEF Disconnect
  <2>2. Good("server", g, p, A, N \o c.write_q)
    BY <1>1, <1>2, ServerChange DEF Counted
  <2> QED
    BY <2>1, <2>2 DEF Counted
<1>3. CASE ~g.closed
  <2>1. Disconnect(g) = d
    BY <1>3 DEF Disconnect
  <2>2. x.m = m /\ x.key = g.send_cipher.key
    OBVIOUS
  <2>3. /\ Shape(q) /\ q.write_q = Append(g.write_q, x)
        /\ q.send_cipher.key = g.send_cipher.key
        /\ \A f \in Fields \ {"write_q", "send_cipher", "send_seq",
                              "packets_io", "reused", "used"} : q[f] = g[f]
    BY <1>1, QueueFields
  <2> HIDE DEF m, x, q
  <2>4. /\ q.ident_in_done = g.ident_in_done /\ q.sent_newkeys = g.sent_newkeys
        /\ q.recv_newkeys = g.recv_newkeys /\ q.authed = g.authed
        /\ q.first_kex_done = g.first_kex_done /\ q.auth_fails = g.auth_fails
    BY <2>3 DEF Fields
  <2>5. /\ Shape(d) /\ d.closed /\ d.write_q = q.write_q
        /\ d.send_cipher = q.send_cipher
        /\ d.ident_in_done = q.ident_in_done /\ d.sent_newkeys = q.sent_newkeys
        /\ d.recv_newkeys = q.recv_newkeys /\ d.authed = q.authed
        /\ d.first_kex_done = q.first_kex_done /\ d.auth_fails = q.auth_fails
    BY <2>3 DEF Shape, Fields
  <2> HIDE DEF d
  <2>6. Keyed(d)
    BY <1>1, <2>3, <2>5 DEF Keyed
  <2>7. Good("server", d, p, A, N \o c.write_q)
    BY <2>4, <2>5, <2>6, ServerChange DEF Counted
  <2>8. Allowed(d, p, x)
    BY <1>1, <2>2, <2>6 DEF Allowed, Others, KexMsgs, Keyed
  <2>9. Good("server", d, p, A, Append(N \o c.write_q, x))
    BY <1>1, <2>7, <2>8, AppendGood
  <2>10. N \o Append(c.write_q, x) = Append(N \o c.write_q, x)
    BY ConcatElems DEF Good, Shape
  <2> QED
    BY <2>1, <2>3, <2>5, <2>9, <2>10 DEF Counted
<1> QED
  BY <1>2, <1>3

\* auth_fail: another attempt, or DISCONNECT at the limit.
LEMMA AuthFailGood ==
  ASSUME NEW c, NEW g, NEW p, NEW A, NEW N, IsSeq(N),
         Good("server", c, p, A, N \o c.write_q), Keyed(c), Keyed(p),
         p.first_kex_done, p.attempts > 0, Counted(c, g)
  PROVE  Good("server", AuthFail(g), p, A, N \o AuthFail(g).write_q)
<1> DEFINE m == Msg("USERAUTH_FAILURE")
<1>1. AuthFail(g) = IF g.auth_fails >= MaxAuthFails THEN Disconnect(g)
                                                    ELSE Queue(g, m)
  BY DEF AuthFail
<1>2. m.t = "USERAUTH_FAILURE"
  BY DEF Msg
<1> HIDE DEF m
<1>3. CASE g.auth_fails >= MaxAuthFails
  BY <1>1, <1>3, DisconnectGood
<1>4. CASE ~(g.auth_fails >= MaxAuthFails)
  <2>1. Keyed(g)
    BY DEF Keyed, Counted
  <2>2. Good("server", g, p, A, N \o g.write_q)
    BY <1>4, <2>1, ServerChange DEF Counted
  <2>3. Good("server", Queue(g, m), p, A, N \o Queue(g, m).write_q)
    BY <1>2, <2>1, <2>2, ServerQueueGood
  <2> QED
    BY <1>1, <1>4, <2>3
<1> QED
  BY <1>3, <1>4

\* on_userauth_request, on the server, for an attempt of the client.
LEMMA OnUserauthRequestGood ==
  ASSUME NEW c, NEW p, NEW A, NEW N, IsSeq(N), NEW m,
         Good("server", c, p, A, N \o c.write_q), Keyed(c), Keyed(p),
         p.first_kex_done, p.attempts > 0, m.try \in {"none", "bad", "good"},
         m.try = "good" =>
           /\ ~Has(A) /\ ~Has(N \o c.write_q)
           /\ p.attempts = Len(client.tries) /\ client.tries[p.attempts] = "good"
  PROVE  Good("server", OnUserauthRequest("server", c, m), p, A,
              N \o OnUserauthRequest("server", c, m).write_q)
<1>1. /\ Shape(c) /\ c.auth_fails \in Nat
      /\ c.auth_fails >= MaxAuthFails => c.closed
  BY GoodFacts DEF Good, AuthInv
<1>2. CASE m.try = "none"
  <2>1. OnUserauthRequest("server", c, m) = AuthFail(c)
    BY <1>2 DEF OnUserauthRequest
  <2>2. Counted(c, c)
    BY <1>1 DEF Counted
  <2> QED
    BY <2>1, <2>2, AuthFailGood
<1>3. CASE m.try = "bad"
  <2> DEFINE g == [c EXCEPT !.auth_fails = @ + 1]
  <2>1. OnUserauthRequest("server", c, m) = AuthFail(g)
    BY <1>3 DEF OnUserauthRequest
  <2>2. Counted(c, g)
    BY <1>1 DEF Counted, Shape, Fields
  <2> HIDE DEF g
  <2> QED
    BY <2>1, <2>2, AuthFailGood
<1>4. CASE m.try = "good"
  <2> DEFINE d == [c EXCEPT !.authed = TRUE, !.kex_blocks_app = FALSE]
             r == Msg("USERAUTH_SUCCESS")
  <2>1. OnUserauthRequest("server", c, m) = Queue(d, r)
    BY <1>4 DEF OnUserauthRequest
  <2>2. /\ Shape(d) /\ d.send_cipher = c.send_cipher /\ d.write_q = c.write_q
        /\ d.ident_in_done = c.ident_in_done /\ d.sent_newkeys = c.sent_newkeys
        /\ d.recv_newkeys = c.recv_newkeys /\ d.authed
        /\ d.first_kex_done = c.first_kex_done
        /\ d.auth_fails = c.auth_fails /\ d.closed = c.closed
    BY <1>1 DEF Shape, Fields
  <2>3. r.t = "USERAUTH_SUCCESS"
    BY DEF Msg
  <2> HIDE DEF d, r
  <2>4. Keyed(d)
    BY <2>2 DEF Keyed
  <2>5. Good("server", d, p, A, N \o d.write_q)
    BY <1>1, <1>4, <2>2, <2>4, ServerChange
  <2> QED
    BY <1>4, <2>1, <2>2, <2>3, <2>4, <2>5, ServerQueueGood
<1> QED
  BY <1>2, <1>3, <1>4

\* on_userauth_success, on the client.
LEMMA OnUserauthSuccessGood ==
  ASSUME NEW c, NEW p, NEW A, NEW B, Good("client", c, p, A, B),
         Keyed(c), Keyed(p), p.authed
  PROVE  Good("client", OnUserauthSuccess(c), p, A, B)
<1> DEFINE d == OnUserauthSuccess(c)
<1>1. /\ Shape(p) /\ StreamInv(c, A) /\ StreamInv(p, B) /\ ClearInv(c, p, B)
      /\ ClearInv(p, c, A) /\ AuthInv(c, p, A, B) /\ Shape(c)
  BY DEF Good
<1>2. /\ Shape(d) /\ d.send_cipher = c.send_cipher
      /\ d.ident_in_done = c.ident_in_done /\ d.sent_newkeys = c.sent_newkeys
      /\ d.recv_newkeys = c.recv_newkeys /\ d.attempts = c.attempts
      /\ d.first_kex_done = c.first_kex_done
  BY <1>1 DEF Shape, Fields, OnUserauthSuccess
<1> HIDE DEF d
<1>3. StreamInv(d, A) /\ ClearInv(d, p, B) /\ ClearInv(p, d, A)
  BY <1>1, <1>2 DEF StreamInv, ClearInv, Keyed
<1>4. AuthInv(d, p, A, B)
  BY <1>1, <1>2 DEF AuthInv
<1> QED
  BY <1>1, <1>2, <1>3, <1>4 DEF Good, d

\* handle_payload of the next packet.
LEMMA PayloadGood ==
  ASSUME NEW e \in Ends, client \in Clients, NEW c, NEW p, NEW A, NEW N,
         IsSeq(N), Good(e, c, p, A, N \o c.write_q), A # << >>,
         Head(A).m.t # "IDENT"
  PROVE  LET d == HandlePayload(e, c, Head(A).m)
         IN Good(e, d, p, Tail(A), N \o d.write_q)
<1> DEFINE x == Head(A)
           m == x.m
           T == Tail(A)
           Fine(d) == Good(e, d, p, T, N \o d.write_q)
<1>1. /\ Fine(c) /\ m.t \in Types
      /\ m.t = "NEWKEYS" => Keyed(p)
      /\ m.t \notin InClear \union {"EXT_INFO"} => Keyed(c) /\ Keyed(p)
      /\ Turn(x) => ~Has(T) /\ ~Has(N \o c.write_q)
  BY TakeGood
<1>2. x \in Elems(A)
  BY TailElems DEF Good, StreamInv
<1>3. Shape(c)
  BY <1>1, GoodFacts
<1>4. Talk(x) = (m.t \in ToServerTalk \union ToClientTalk)
  BY DEF Talk
<1>5. Len(client.tries) \in Nat /\ Len(client.tries) > 0
  BY Tries
<1>6. e = "client" \/ e = "server"
  BY DEF Ends
<1>7. Head(A).m.t = m.t /\ m.t # "IDENT" /\ (Talk(x) = Talk(Head(A)))
  OBVIOUS
<1> HIDE DEF x, m, T
<1>8. CASE m.t = "DISCONNECT"
  <2> DEFINE d == [c EXCEPT !.closed = TRUE]
  <2>1. HandlePayload(e, c, m) = d
    BY <1>8 DEF HandlePayload
  <2>2. Moves(c, d, p) /\ d.write_q = c.write_q
    BY <1>1, <1>3, GoodFacts DEF Moves, Keyed, Shape, Fields
  <2> HIDE DEF d
  <2>3. Fine(d)
    BY <1>1, <2>2, StayGood
  <2> QED
    BY <2>1, <2>3 DEF m, x, T
<1>9. CASE m.t = "KEXINIT"
  <2>1. HandlePayload(e, c, m) = OnKexinit(e, c, m)
    BY <1>9 DEF HandlePayload
  <2> QED
    BY <1>1, <2>1, OnKexinitGood DEF m, x, T
<1>10. CASE m.t \in {"ECDH_INIT", "ECDH_REPLY"}
  <2>1. HandlePayload(e, c, m) \in {OnEcdhInit(e, c, m), OnEcdhReply(e, c, m)}
    BY <1>10 DEF HandlePayload
  <2>2. Fine(OnEcdhInit(e, c, m)) /\ Fine(OnEcdhReply(e, c, m))
    BY <1>1, OnEcdhGood
  <2> QED
    BY <2>1, <2>2 DEF m, x, T
<1>11. CASE m.t = "NEWKEYS"
  <2>1. HandlePayload(e, c, m) = OnNewkeys(e, c)
    BY <1>11 DEF HandlePayload
  <2> QED
    BY <1>1, <1>11, <2>1, OnNewkeysGood DEF m, x, T
<1>12. CASE m.t \in {"EXT_INFO", "REPLY"}
  <2>1. HandlePayload(e, c, m) = c
    BY <1>12 DEF HandlePayload
  <2> QED
    BY <1>1, <2>1 DEF m, x, T
<1>13. CASE m.t \in {"DATA", "CONTROL"}
  <2>1. HandlePayload(e, c, m) = OnChannelMsg(c)
    BY <1>13 DEF HandlePayload
  <2>2. OnChannelMsg(c) \in {c, Fail(c, "protocol")}
    BY DEF OnChannelMsg
  <2>3. Fine(Fail(c, "protocol"))
    BY <1>1, FailGood
  <2> QED
    BY <1>1, <2>1, <2>2, <2>3 DEF m, x, T
<1>14. CASE m.t = "REQUEST"
  <2> DEFINE r == Msg("REPLY")
  <2>1. HandlePayload(e, c, m) = Queue(c, r)
    BY <1>14 DEF HandlePayload, OnGlobalRequest
  <2>2. r.t = "REPLY" /\ Keyed(c) /\ Keyed(p)
    BY <1>1, <1>14 DEF Msg, InClear, KexMsgs
  <2> HIDE DEF r
  <2>3. Fine(Queue(c, r))
    BY <1>1, <2>2, QueueGood DEF Others
  <2> QED
    BY <2>1, <2>3 DEF m, x, T
<1>15. CASE m.t \in ToServerTalk \union ToClientTalk
  <2>1. Talk(x) /\ Keyed(c) /\ Keyed(p)
    BY <1>1, <1>4, <1>15 DEF ToServerTalk, ToClientTalk, InClear, KexMsgs
  <2>2. CASE e = "server"
    <3>1. /\ m.t \in ToServerTalk
          /\ p.first_kex_done
          /\ m.t = "SERVICE_REQUEST" => p.attempts = 0 /\ ~c.authed /\ Turn(x)
          /\ m.t = "USERAUTH_REQUEST" =>
               /\ p.attempts > 0 /\ m.try \in {"none", "bad", "good"}
               /\ m.try = "good" => /\ Turn(x)
                                    /\ p.attempts = Len(client.tries)
                                    /\ client.tries[p.attempts] = "good"
      BY <1>2, <2>1, <2>2, ServerHears DEF m
    <3>2. CASE m.t = "SERVICE_REQUEST"
      <4> DEFINE r == Msg("SERVICE_ACCEPT")
      <4>1. HandlePayload(e, c, m) = Queue(c, r)
        BY <2>2, <3>2 DEF HandlePayload, OnServiceRequest
      <4>2. r.t = "SERVICE_ACCEPT"
        BY DEF Msg
      <4> HIDE DEF r
      <4>3. Fine(Queue(c, r))
        BY <1>1, <2>1, <2>2, <3>1, <3>2, <4>2, ServerQueueGood
      <4> QED
        BY <4>1, <4>3 DEF m, x, T
    <3>3. CASE m.t = "USERAUTH_REQUEST"
      <4>1. HandlePayload(e, c, m) = OnUserauthRequest("server", c, m)
        BY <2>2, <3>3 DEF HandlePayload
      <4>3. Fine(OnUserauthRequest("server", c, m))
        BY <1>1, <2>1, <2>2, <3>1, <3>3, OnUserauthRequestGood
      <4> QED
        BY <4>1, <4>3 DEF m, x, T
    <3> QED
      BY <3>1, <3>2, <3>3 DEF ToServerTalk
  <2>3. CASE e = "client"
    <3>1. /\ m.t \in ToClientTalk
          /\ c.first_kex_done
          /\ m.t = "SERVICE_ACCEPT" => c.attempts = 0 /\ ~p.authed /\ Turn(x)
          /\ m.t = "USERAUTH_FAILURE" => c.attempts > 0
          /\ m.t = "USERAUTH_SUCCESS" => p.authed /\ Turn(x)
      BY <1>2, <2>1, <2>3, ClientHears DEF m
    <3>3. CASE m.t = "SERVICE_ACCEPT"
      <4>1. HandlePayload(e, c, m) = SendAuth(c)
        BY <2>3, <3>3 DEF HandlePayload, OnServiceAccept
      <4>2. Fine(SendAuth(c))
        BY <1>1, <1>5, <2>1, <2>3, <3>1, <3>3, SendAuthGood
      <4> QED
        BY <4>1, <4>2 DEF m, x, T
    <3>4. CASE m.t = "USERAUTH_FAILURE"
      <4>1. HandlePayload(e, c, m) = OnUserauthFailure(c)
        BY <3>4 DEF HandlePayload
      <4> DEFINE d == [c EXCEPT !.refused = @ + 1]
      <4>2. Moves(c, d, p) /\ d.write_q = c.write_q
        BY <1>1, <1>3, GoodFacts DEF Moves, Keyed, Shape, Fields
      <4>3. \/ /\ c.attempts < Len(client.tries)
               /\ OnUserauthFailure(c) = SendAuth(d)
            \/ OnUserauthFailure(c) \in {d, Fail(d, "auth")}
        BY DEF OnUserauthFailure
      <4> HIDE DEF d
      <4>4. Fine(d) /\ Fine(Fail(d, "auth"))
        BY <1>1, <4>2, StayGood, FailGood
      <4>5. ASSUME c.attempts < Len(client.tries) PROVE Fine(SendAuth(d))
        <5>1. /\ AuthInv(d, p, T, N \o d.write_q) /\ d.attempts = c.attempts
              /\ Keyed(d)
          BY <2>1, <2>3, <4>2, <4>4 DEF Good, Moves
        <5>2. /\ ~Has(T) /\ ~Has(N \o d.write_q) /\ ~p.authed
              /\ d.first_kex_done
          BY <3>1, <3>4, <4>5, <5>1, Amidst
        <5> QED
          BY <2>1, <2>3, <4>4, <4>5, <5>1, <5>2, SendAuthGood
      <4> QED
        BY <4>1, <4>3, <4>4, <4>5 DEF m, x, T
    <3>5. CASE m.t = "USERAUTH_SUCCESS"
      <4> DEFINE d == OnUserauthSuccess(c)
      <4>1. HandlePayload(e, c, m) = d
        BY <3>5 DEF HandlePayload
      <4>2. d.write_q = c.write_q
        BY <1>3 DEF OnUserauthSuccess, Shape, Fields
      <4>3. Good(e, d, p, T, N \o c.write_q)
        BY <1>1, <2>1, <2>3, <3>1, <3>5, OnUserauthSuccessGood
      <4> QED
        BY <4>1, <4>2, <4>3 DEF m, x, T
    <3> QED
      BY <3>1, <3>3, <3>4, <3>5 DEF ToClientTalk
  <2> QED
    BY <1>6, <2>2, <2>3
<1> QED
  BY <1>1, <1>7, <1>8, <1>9, <1>10, <1>11, <1>12, <1>13, <1>14, <1>15
     DEF Types, InClear, KexMsgs, Others

\* try_one_packet and the identification line: process_in's next turn.
LEMMA HandleGood ==
  ASSUME NEW e \in Ends, client \in Clients, NEW c, NEW p, NEW A, NEW N,
         IsSeq(N), Good(e, c, p, A, N \o c.write_q), A # << >>
  PROVE  LET d == Handle(e, c, Head(A))
         IN Good(e, d, p, Tail(A), N \o d.write_q)
<1> DEFINE x == Head(A)
           T == Tail(A)
           B == N \o c.write_q
           Fine(d) == Good(e, d, p, T, N \o d.write_q)
<1>1. /\ Good(e, c, p, T, B) /\ \A y \in Elems(T) : y.m.t # "IDENT"
      /\ c.ident_in_done => x.m.t # "IDENT"
  BY TakeGood
<1>2. Shape(c)
  BY GoodFacts
<1>3. \A why : Fine(Fail(c, why))
  BY <1>1, FailGood
<1>4. CASE c.error # "no"
  BY <1>1, <1>4 DEF Handle
<1>5. CASE c.error = "no" /\ ~c.ident_in_done
  <2> DEFINE d == [c EXCEPT !.ident_in_done = TRUE]
  <2>1. Handle(e, c, x) \in {MaybeStartKex(e, d), Fail(c, "protocol")}
    BY <1>5 DEF Handle
  <2>2. /\ Shape(d) /\ d.write_q = c.write_q /\ d.send_cipher = c.send_cipher
        /\ d.sent_newkeys = c.sent_newkeys /\ d.recv_newkeys = c.recv_newkeys
        /\ d.first_kex_done = c.first_kex_done /\ d.authed = c.authed
        /\ d.attempts = c.attempts /\ d.auth_fails = c.auth_fails
        /\ d.closed = c.closed
    BY <1>2 DEF Shape, Fields
  <2> HIDE DEF d, T, B, x
  <2>3. /\ StreamInv(c, T) /\ ClearInv(c, p, B) /\ ClearInv(p, c, T)
    BY <1>1 DEF Good
  <2>4. StreamInv(d, T)
    BY <1>1, <2>3 DEF StreamInv, Elems
  <2>5. ClearInv(d, p, B) /\ ClearInv(p, d, T)
    BY <2>2, <2>3 DEF ClearInv, Keyed
  <2>6. e = "client" => AuthInv(d, p, T, B)
    BY <1>1, <2>2 DEF Good, AuthInv
  <2>7. e = "server" => AuthInv(p, d, B, T)
    BY <1>1, <2>2 DEF Good, AuthInv
  <2>8. Fine(d)
    BY <1>1, <2>2, <2>4, <2>5, <2>6, <2>7 DEF Good, B
  <2>9. Fine(MaybeStartKex(e, d))
    BY <2>8, MaybeKexGood
  <2> QED
    BY <1>3, <2>1, <2>9 DEF x, T
<1>6. CASE c.error = "no" /\ c.ident_in_done
  <2> DEFINE r == [c EXCEPT !.recv_cipher = IncIv(@), !.packets_io = Inc(@),
                            !.recv_seq = IF x.m.t = "NEWKEYS" /\ c.strict_kex
                                           THEN 0 ELSE Inc(@)]
  <2>1. Handle(e, c, x) \in {Fail(c, "crypto"), Fail(c, "protocol"),
                             HandlePayload(e, r, x.m)}
    BY <1>6 DEF Handle, TryOnePacket
  <2>2. Moves(c, r, p) /\ r.write_q = c.write_q
    BY <1>2, GoodFacts DEF Moves, Keyed, Shape, Fields
  <2> HIDE DEF r
  <2>3. Good(e, r, p, A, N \o r.write_q)
    BY <2>2, StayGood
  <2>4. Fine(HandlePayload(e, r, x.m))
    BY <1>1, <1>6, <2>3, PayloadGood
  <2> HIDE DEF x, T
  <2> QED
    BY <1>3, <2>1, <2>4 DEF x, T
<1> QED
  BY <1>4, <1>5, <1>6

-----------------------------------------------------------------------------
(* The invariant is inductive.                                             *)

HF == INSTANCE FoldLemmas WITH Op <- Handle

\* process_in takes one packet after the other.
LEMMA ProcessInFold ==
  \A e, c, q : FoldLeft(LAMBDA a, x : Handle(e, a, x), c, q) = HF!Fold(e, c, q)
  BY DEF HF!Fold, HF!IsFold, HF!Largest, FoldLeft, MapThenFoldSet, Max

\* What is left of a sequence, one element after the other.
LEMMA RestStep ==
  ASSUME NEW S, NEW q \in Seq(S), NEW i \in 1 .. Len(q)
  PROVE  LET r == SubSeq(q, i, Len(q))
         IN /\ r \in Seq(S) /\ r # << >> /\ Head(r) = q[i]
            /\ Tail(r) = SubSeq(q, i + 1, Len(q))
<1> DEFINE n == Len(q)
           r == SubSeq(q, i, n)
           s == SubSeq(q, i + 1, n)
           t == Tail(r)
<1>1. n \in Nat /\ i \in 1 .. n
  OBVIOUS
<1>2. /\ r \in Seq(S) /\ Len(r) = n - i + 1
      /\ \A j \in 1 .. n - i + 1 : r[j] = q[j + i - 1]
  BY <1>1
<1>3. /\ s \in Seq(S) /\ Len(s) = n - i
      /\ \A j \in 1 .. n - i : s[j] = q[j + i]
  BY <1>1
<1> HIDE DEF r, s, n
<1>4. r # << >> /\ Head(r) = q[i]
  BY <1>1, <1>2
<1>5. /\ t \in Seq(S) /\ Len(t) = n - i
      /\ \A j \in 1 .. n - i : t[j] = q[j + i]
  BY <1>1, <1>2, <1>4
<1> HIDE DEF t
<1>6. t = s
  BY <1>3, <1>5, SeqEqual
<1> QED
  BY <1>2, <1>4, <1>6 DEF r, s, t, n

\* All the packets a read completes; W is what the peer has not yet written.
LEMMA BatchGood ==
  ASSUME NEW e \in Ends, client \in Clients, NEW c, NEW p, NEW q, NEW W,
         NEW N, IsSeq(N), IsSeq(q), IsSeq(W), NEW k \in 0 .. Len(q),
         Good(e, c, p, q \o W, N \o c.write_q)
  PROVE  LET d == HF!Fold(e, c, SubSeq(q, 1, k))
         IN Good(e, d, p, SubSeq(q, k + 1, Len(q)) \o W, N \o d.write_q)
<1> DEFINE S == Elems(q)
           s == SubSeq(q, 1, k)
           R(i) == SubSeq(q, i + 1, Len(q))
<1>1. q \in Seq(S) /\ Len(q) \in Nat /\ k \in Nat
  BY DEF IsSeq
<1>2. DOMAIN s = 1 .. k /\ \A i \in 1 .. k : s[i] = q[i]
  BY <1>1
<1>3. R(0) = q
  BY <1>1
<1>4. ASSUME NEW i \in 1 .. k
      PROVE  /\ IsSeq(R(i - 1)) /\ R(i - 1) # << >>
             /\ Head(R(i - 1)) = q[i] /\ Tail(R(i - 1)) = R(i)
  <2> HIDE DEF S
  <2>1. i \in 1 .. Len(q) /\ (i - 1) + 1 = i
    BY <1>1
  <2>2. SubSeq(q, (i - 1) + 1, Len(q)) = SubSeq(q, i, Len(q))
    BY <2>1
  <2> QED
    BY <1>1, <2>1, <2>2, RestStep, SeqOfElems
<1> HIDE DEF s, R, S
<1>5. PICK g : HF!IsChain(g, e, c, s, k) /\ HF!Fold(e, c, s) = g[k]
  BY <1>1, <1>2, HF!FoldChain
<1>6. g[0] = c /\ \A i \in 1 .. k : g[i] = Handle(e, g[i - 1], q[i])
  BY <1>1, <1>2, <1>5 DEF HF!IsChain
<1> DEFINE T == {i \in 0 .. k : Good(e, g[i], p, R(i) \o W, N \o g[i].write_q)}
<1>7. 0 \in T
  BY <1>1, <1>3, <1>6
<1>8. ASSUME NEW i \in 1 .. k, i - 1 \in T PROVE i \in T
  <2> DEFINE a == g[i - 1]
             h == R(i - 1)
  <2>1. Good(e, a, p, h \o W, N \o a.write_q)
    BY <1>8
  <2>2. /\ IsSeq(h) /\ h # << >> /\ Head(h) = q[i] /\ Tail(h) = R(i)
        /\ g[i] = Handle(e, a, q[i])
    BY <1>4, <1>6
  <2> HIDE DEF a, h
  <2>3. /\ h \o W # << >> /\ Head(h \o W) = q[i]
        /\ Tail(h \o W) = R(i) \o W
    <3>1. /\ h \o W # << >> /\ Head(h \o W) = Head(h)
          /\ Tail(h \o W) = Tail(h) \o W
      BY <2>2, ConcatFront
    <3>2. Head(h) = q[i] /\ Tail(h) = R(i)
      BY <2>2
    <3> HIDE DEF R
    <3>3. QED  BY <3>1, <3>2
  <2>4. Good(e, g[i], p, R(i) \o W, N \o g[i].write_q)
    BY <2>1, <2>2, <2>3, HandleGood
  <2> QED
    BY <1>1, <2>4
<1> HIDE DEF T
<1>9. k \in T
  BY SMTT(30), <1>1, <1>7, <1>8, IntervalInduction
<1> QED
  BY <1>5, <1>9 DEF T, s, R

\* The two ends.
LEMMA PeerFacts ==
  /\ \A e \in Ends : Peer(e) \in Ends /\ Peer(e) # e /\ Peer(Peer(e)) = e
  /\ \A e, f \in Ends : f # e => f = Peer(e)
  /\ \A e \in Ends : (e = "client") = (Peer(e) = "server")
  /\ \A e \in Ends : (e = "server") = (Peer(e) = "client")
  BY DEF Ends, Peer

\* The invariant of one side is that of the other.
LEMMA GoodMirror ==
  ASSUME NEW e \in Ends, NEW c, NEW p, NEW A, NEW B, Good(e, c, p, A, B)
  PROVE  Good(Peer(e), p, c, B, A)
  BY PeerFacts DEF Good

\* A step of side e: what it has read is gone from the network.
LEMMA SideStep ==
  ASSUME IInv, NEW e \in Ends, NEW d, NEW N, NEW M, IsSeq(N), IsSeq(M),
         client' = client,
         conn' = [conn EXCEPT ![e] = d],
         DOMAIN net' = Ends, net'[e] = M, net'[Peer(e)] = N,
         Good(e, d, conn[Peer(e)], M \o conn[Peer(e)].write_q, N \o d.write_q)
  PROVE  IInv'
<1> DEFINE o == Peer(e)
           p == conn[o]
<1>1. /\ o \in Ends /\ o # e /\ Peer(o) = e
      /\ \A f \in Ends : f = e \/ f = o
  BY PeerFacts
<1>2. DOMAIN conn' = Ends /\ conn'[e] = d /\ conn'[o] = p /\ client' \in Clients
  BY <1>1 DEF IInv
<1>3. /\ Toward(e)' = M \o p.write_q /\ Toward(o)' = N \o d.write_q
  BY <1>1, <1>2 DEF Toward
<1>4. ASSUME NEW f, NEW a, NEW b, NEW A, NEW B, Good(f, a, b, A, B)
      PROVE  Good(f, a, b, A, B)'
  <2>1. \A c, r, C, D : AuthInv(c, r, C, D) => AuthInv(c, r, C, D)'
    BY DEF AuthInv
  <2> QED
    BY <1>4, <2>1 DEF Good
<1>5. Good(e, d, p, M \o p.write_q, N \o d.write_q)
  OBVIOUS
<1>6. Good(o, p, d, N \o d.write_q, M \o p.write_q)
  BY <1>5, GoodMirror
<1> QED
  BY <1>1, <1>2, <1>3, <1>4, <1>5, <1>6 DEF IInv

\* The invariant as side e sees it.
LEMMA InvAt ==
  ASSUME IInv, NEW e \in Ends
  PROVE  LET c == conn[e]
             p == conn[Peer(e)]
             M == net[e]
             N == net[Peer(e)]
         IN /\ Good(e, c, p, M \o p.write_q, N \o c.write_q)
            /\ IsSeq(M) /\ IsSeq(N) /\ IsSeq(c.write_q) /\ IsSeq(p.write_q)
            /\ Shape(c) /\ Peer(e) \in Ends /\ Peer(e) # e
            /\ client \in Clients /\ DOMAIN net = Ends
<1>1. Peer(e) \in Ends /\ Peer(e) # e /\ Peer(Peer(e)) = e
  BY PeerFacts
<1>2. Good(e, conn[e], conn[Peer(e)], Toward(e), Toward(Peer(e)))
  BY DEF IInv
<1>3. /\ Toward(e) = net[e] \o conn[Peer(e)].write_q
      /\ Toward(Peer(e)) = net[Peer(e)] \o conn[e].write_q
  BY <1>1 DEF Toward
<1>4. Shape(conn[e]) /\ Shape(conn[Peer(e)])
  BY <1>2 DEF Good
<1> QED
  BY <1>1, <1>2, <1>3, <1>4 DEF IInv, Shape

\* A step of side e that reads nothing from the network and writes nothing to it.
LEMMA CallStep ==
  ASSUME IInv, NEW e \in Ends, NEW d, client' = client, net' = net,
         conn' = [conn EXCEPT ![e] = d],
         Good(e, d, conn[Peer(e)], net[e] \o conn[Peer(e)].write_q,
              net[Peer(e)] \o d.write_q)
  PROVE  IInv'
<1>1. IsSeq(net[e]) /\ IsSeq(net[Peer(e)]) /\ DOMAIN net' = Ends
  BY InvAt
<1> QED
  BY <1>1, SideStep

\* peek_out and consume_out.
LEMMA WriteStep ==
  ASSUME IInv, NEW e \in Ends, Write(e)
  PROVE  IInv'
<1> DEFINE c == conn[e]
           p == conn[Peer(e)]
           M == net[e]
           N == net[Peer(e)]
           A == M \o p.write_q
           x == Head(c.write_q)
           K == Append(N, x)
           b == [c EXCEPT !.write_q = Tail(@)]
           d == IF x.m.t = "IDENT" THEN MaybeStartKex(e, b) ELSE b
<1>1. /\ Good(e, c, p, A, N \o c.write_q)
      /\ IsSeq(M) /\ IsSeq(N) /\ IsSeq(c.write_q) /\ Shape(c)
      /\ Peer(e) \in Ends /\ Peer(e) # e /\ DOMAIN net = Ends
  BY InvAt
<1>2. /\ c.write_q # << >> /\ net' = [net EXCEPT ![Peer(e)] = K]
      /\ conn' = [conn EXCEPT ![e] = d] /\ client' = client
  BY <1>1 DEF Write
<1>3. DOMAIN net' = Ends /\ net'[e] = M /\ net'[Peer(e)] = K
  BY <1>1, <1>2
<1>4. IsSeq(K) /\ IsSeq(Tail(c.write_q)) /\ K \o Tail(c.write_q) = N \o c.write_q
  BY <1>1, <1>2, AppendElems, TailElems, ConcatElems
<1> HIDE DEF A, K, M, N, p, x
<1>5. b.write_q = Tail(c.write_q) /\ Moves(c, b, p)
  BY <1>1, <1>4, GoodFacts DEF Moves, Keyed, Shape, Fields
<1>6. Good(e, b, p, A, K \o b.write_q)
  BY <1>1, <1>4, <1>5, MoveGood
<1> HIDE DEF b
<1>7. Good(e, d, p, A, K \o d.write_q)
  BY <1>4, <1>6, MaybeKexGood
<1> HIDE DEF d, c
<1> QED
  BY <1>1, <1>2, <1>3, <1>4, <1>7, SideStep DEF A, p

\* poll_ssh_read that completes packets.
LEMMA ReadStep ==
  ASSUME IInv, NEW e \in Ends, Read(e)
  PROVE  IInv'
<1> DEFINE c == conn[e]
           p == conn[Peer(e)]
           M == net[e]
           N == net[Peer(e)]
           W == p.write_q
<1>1. /\ Good(e, c, p, M \o W, N \o c.write_q)
      /\ IsSeq(M) /\ IsSeq(N) /\ IsSeq(W) /\ client \in Clients
      /\ Peer(e) \in Ends /\ Peer(e) # e /\ DOMAIN net = Ends
  BY InvAt
<1>2. PICK k \in 1 .. Len(M) :
        LET f == FoldLeft(LAMBDA a, x : Handle(e, a, x), c, SubSeq(M, 1, k))
        IN /\ Take(e, k)
           /\ conn' = [conn EXCEPT ![e] = IF f.error = "no" THEN MaybeRekey(e, f)
                                                            ELSE f]
           /\ UNCHANGED <<client, apps>>
  BY DEF Read, After
<1> DEFINE f == HF!Fold(e, c, SubSeq(M, 1, k))
           d == IF f.error = "no" THEN MaybeRekey(e, f) ELSE f
           L == SubSeq(M, k + 1, Len(M))
<1>3. FoldLeft(LAMBDA a, x : Handle(e, a, x), c, SubSeq(M, 1, k)) = f
  BY ProcessInFold
<1>4. /\ net' = [net EXCEPT ![e] = L] /\ client' = client
      /\ conn' = [conn EXCEPT ![e] = d]
  BY <1>2, <1>3 DEF Take
<1>5. DOMAIN net' = Ends /\ net'[e] = L /\ net'[Peer(e)] = N
  BY <1>1, <1>4
<1>6. IsSeq(L) /\ k \in 0 .. Len(M)
  <2>1. M \in Seq(Elems(M)) /\ k \in 0 .. Len(M)
    BY <1>1 DEF IsSeq
  <2> QED
    BY <2>1, CutInTwo, SeqOfElems
<1> HIDE DEF M, N, W, p
<1>7. Good(e, f, p, L \o W, N \o f.write_q)
  BY <1>1, <1>6, BatchGood
<1> HIDE DEF f, L
<1>8. Good(e, d, p, L \o W, N \o d.write_q)
  BY <1>1, <1>7, MaybeKexGood
<1> HIDE DEF d
<1> QED
  BY <1>1, <1>4, <1>5, <1>6, <1>8, SideStep DEF W, p

\* poll_ssh_read that completes none: only maybe_rekey runs.
LEMMA ReadPartialStep ==
  ASSUME IInv, NEW e \in Ends, ReadPartial(e)
  PROVE  IInv'
<1> DEFINE d == MaybeRekey(e, conn[e])
<1>1. conn' = [conn EXCEPT ![e] = d] /\ net' = net /\ client' = client
  BY DEF ReadPartial
<1>2. Good(e, d, conn[Peer(e)], net[e] \o conn[Peer(e)].write_q,
           net[Peer(e)] \o d.write_q)
  BY InvAt, MaybeKexGood
<1> HIDE DEF d
<1> QED
  BY <1>1, <1>2, CallStep

\* A channel packet or a request: its sender is authenticated.
LEMMA AppStep ==
  ASSUME IInv, NEW e \in Ends, NEW t \in {"DATA", "CONTROL", "REQUEST"},
         AppSend(e, t)
  PROVE  IInv'
<1> DEFINE m == Msg(t)
           d == Queue(conn[e], m)
<1>1. /\ conn' = [conn EXCEPT ![e] = d] /\ net' = net /\ client' = client
      /\ conn[e].authed
  BY DEF AppSend
<1>2. m.t = t
  BY DEF Msg
<1> HIDE DEF m
<1>3. Keyed(conn[e]) /\ Keyed(conn[Peer(e)])
  BY <1>1, InvAt, GoodFacts
<1>4. m.t \in Others /\ m.t \notin KexMsgs \union {"EXT_INFO", "NEWKEYS"}
  BY <1>2 DEF Others, KexMsgs
<1>5. Good(e, d, conn[Peer(e)], net[e] \o conn[Peer(e)].write_q,
           net[Peer(e)] \o d.write_q)
  BY <1>3, <1>4, InvAt, QueueGood
<1> HIDE DEF d
<1> QED
  BY <1>1, <1>5, CallStep

\* An attempt that does not wait for the answer to the last.
LEMMA AheadGood ==
  ASSUME IInv, AuthAhead
  PROVE  LET d == SendAuth(conn["client"])
         IN  Good("client", d, conn[Peer("client")],
                  net["client"] \o conn[Peer("client")].write_q,
                  net[Peer("client")] \o d.write_q)
<1> DEFINE c == conn["client"]
           p == conn[Peer("client")]
           A == net["client"] \o p.write_q
           N == net[Peer("client")]
<1>1. "client" \in Ends /\ c.attempts \in 1 .. Len(client.tries) - 1
  BY DEF AuthAhead, Ends
<1>2. Good("client", c, p, A, N \o c.write_q) /\ IsSeq(N) /\ client \in Clients
  BY <1>1, InvAt
<1>3. c.attempts > 0 /\ c.attempts < Len(client.tries)
  BY <1>1, <1>2, Tries
<1> HIDE DEF c, p, A, N
<1>4. AuthInv(c, p, A, N \o c.write_q)
  BY <1>2 DEF Good
<1>5. ~Has(A) /\ ~Has(N \o c.write_q) /\ ~p.authed /\ c.first_kex_done
  BY <1>2, <1>3, <1>4, Amidst
<1>6. Keyed(c) /\ Keyed(p)
  BY <1>2, <1>5, GoodFacts
<1>7. Good("client", SendAuth(c), p, A, N \o SendAuth(c).write_q)
  BY <1>2, <1>3, <1>5, <1>6, SendAuthGood
<1> QED
  BY <1>7 DEF c, p, A, N

\* Nothing else changes.
LEMMA AheadStep ==
  ASSUME IInv, AuthAhead
  PROVE  IInv'
<1> DEFINE d == SendAuth(conn["client"])
<1>1. /\ "client" \in Ends /\ client' = client /\ net' = net
      /\ conn' = [conn EXCEPT !["client"] = d]
  BY DEF AuthAhead, Ends
<1>2. Good("client", d, conn[Peer("client")],
           net["client"] \o conn[Peer("client")].write_q,
           net[Peer("client")] \o d.write_q)
  BY AheadGood
<1> HIDE DEF d
<1> QED
  BY <1>1, <1>2, CallStep

\* Two fresh connections that have queued their line and their KEXINIT.
LEMMA InitIInv == Init => IInv
<1> SUFFICES ASSUME Init PROVE IInv
  OBVIOUS
<1> DEFINE B == << >> \o Connection.write_q
<1>1. client \in Clients /\ MaxAuthFails \in Nat \ {0}
  BY TransportAssumptions DEF Init
<1>2. client.tries \in Seq({"none", "bad", "good"})
  BY <1>1, TransportAssumptions
<1>3. IsSeq(<< >>)
  <2>1. << >> \in Seq({})
    OBVIOUS
  <2> QED
    BY <2>1, SeqOfElems
<1>4. /\ Connection.write_q = <<Ident>> /\ B = <<Ident>> /\ Ident.m.t = "IDENT"
      /\ IsSeq(<<Ident>>) /\ Len(<<Ident>>) = 1 /\ <<Ident>>[1] = Ident
  <2>1. Connection.write_q = <<Ident>> /\ Ident.m.t = "IDENT"
    BY DEF Connection, Ident, Msg
  <2> DEFINE i == Ident
  <2> HIDE DEF i
  <2>2. <<i>> \in Seq({i}) /\ << >> \o <<i>> = <<i>> /\ Len(<<i>>) = 1 /\ <<i>>[1] = i
    OBVIOUS
  <2> QED
    BY <2>1, <2>2, SeqOfElems DEF i
<1>5. Elems(B) = {Ident}
  BY <1>4 DEF Elems
<1>6. Shape(Connection)
  BY <1>4 DEF Shape, Connection, Fields, Clear
<1>7. /\ ~Connection.ident_in_done /\ ~Connection.sent_newkeys
      /\ ~Connection.recv_newkeys /\ ~Connection.first_kex_done
      /\ ~Connection.authed /\ Connection.attempts = 0
      /\ Connection.auth_fails = 0
  BY DEF Connection
<1>8. StreamInv(Connection, B)
  BY <1>4, <1>5, <1>7 DEF StreamInv, Types, InClear
<1>9. ClearInv(Connection, Connection, B)
  BY <1>4, <1>5, <1>7 DEF ClearInv, InClear
<1>10. AuthInv(Connection, Connection, B, B)
  <2>1. ~Turn(Ident) /\ ~Has(B) /\ Single(B)
    BY <1>4, <1>5 DEF Turn, Talk, Has, Single, ToServerTalk, ToClientTalk
  <2>2. 0 \in 0 .. Len(client.tries) /\ 0 \in Nat /\ ~(0 >= MaxAuthFails)
    BY <1>1, <1>2
  <2> HIDE DEF B
  <2> QED
    BY <1>4, <1>5, <1>7, <2>1, <2>2 DEF AuthInv, ToServerTalk, ToClientTalk
<1>11. ASSUME NEW e \in Ends PROVE Good(e, Connection, Connection, B, B)
  BY <1>6, <1>8, <1>9, <1>10 DEF Good
<1> DEFINE S == StartKex("server", Connection)
           C == StartKex("client", Connection)
<1>12. Good("server", S, Connection, B, << >> \o S.write_q)
  <2>1. "server" \in Ends
    BY DEF Ends
  <2> QED
    BY <1>3, <1>11, <2>1, StartKexGood
<1>13. Good("client", Connection, S, << >> \o S.write_q, B)
  <2>1. "server" \in Ends /\ Peer("server") = "client"
    BY DEF Ends, Peer
  <2> HIDE DEF S, B
  <2> QED
    BY <1>12, <2>1, GoodMirror
<1>14. Good("client", C, S, << >> \o S.write_q, << >> \o C.write_q)
  <2>1. "client" \in Ends
    BY DEF Ends
  <2> HIDE DEF S
  <2> QED
    BY <1>3, <1>13, <2>1, StartKexGood
<1>15. Good("server", S, C, << >> \o C.write_q, << >> \o S.write_q)
  <2>1. "client" \in Ends /\ Peer("client") = "server"
    BY DEF Ends, Peer
  <2> HIDE DEF S, C
  <2> QED
    BY <1>14, <2>1, GoodMirror
<1> HIDE DEF S, C
<1>16. /\ DOMAIN conn = Ends /\ DOMAIN net = Ends
       /\ conn["client"] = C /\ conn["server"] = S
       /\ net["client"] = << >> /\ net["server"] = << >>
  BY DEF Init, Ends, S, C
<1>17. /\ Toward("client") = << >> \o S.write_q
       /\ Toward("server") = << >> \o C.write_q
  BY <1>16 DEF Toward, Peer
<1>18. ASSUME NEW e \in Ends
       PROVE  /\ IsSeq(net[e])
              /\ Good(e, conn[e], conn[Peer(e)], Toward(e), Toward(Peer(e)))
  <2>1. Peer("client") = "server" /\ Peer("server") = "client"
        /\ (e = "client" \/ e = "server")
    BY DEF Ends, Peer
  <2> QED
    BY <1>3, <1>14, <1>15, <1>16, <1>17, <2>1
<1> QED
  BY <1>1, <1>16, <1>18 DEF IInv

\* Every action keeps the invariant.
LEMMA NextIInv == IInv /\ [Next]_vars => IInv'
<1> SUFFICES ASSUME IInv, [Next]_vars PROVE IInv'
  OBVIOUS
<1>1. CASE UNCHANGED vars
  <2>1. client' = client /\ conn' = conn /\ net' = net
    BY <1>1 DEF vars
  <2>2. \A e : Toward(e)' = Toward(e)
    BY <2>1 DEF Toward
  <2>3. ASSUME NEW f, NEW a, NEW b, NEW A, NEW B, Good(f, a, b, A, B)
        PROVE  Good(f, a, b, A, B)'
    <3>1. \A c, r, C, D : AuthInv(c, r, C, D) => AuthInv(c, r, C, D)'
      BY <2>1 DEF AuthInv
    <3> QED
      BY <2>3, <3>1 DEF Good
  <2> QED
    BY <2>1, <2>2, <2>3 DEF IInv
<1>2. CASE AppRequest
  <2>1. "client" \in Ends
    BY DEF Ends
  <2> QED
    BY <1>2, <2>1, AppStep DEF AppRequest
<1>3. ASSUME NEW e \in Ends, Write(e) PROVE IInv'
  BY <1>3, WriteStep
<1>4. ASSUME NEW e \in Ends, Read(e) PROVE IInv'
  BY <1>4, ReadStep
<1>5. ASSUME NEW e \in Ends, ReadPartial(e) PROVE IInv'
  BY <1>5, ReadPartialStep
<1>6. ASSUME NEW e \in Ends, AppData(e) \/ AppControl(e) PROVE IInv'
  BY <1>6, AppStep DEF AppData, AppControl
<1>7. CASE AuthAhead
  BY <1>7, AheadStep
<1> QED
  BY <1>1, <1>2, <1>3, <1>4, <1>5, <1>6, <1>7 DEF Next

-----------------------------------------------------------------------------
(* Theorems.                                                               *)

\* The inductive invariant, for every set of clients: who has left the clear,
\* and the authentication dialogue, in which the service request, the right
\* password and their answers take turns.
THEOREM TransportInvariant == Spec => []IInv
  BY InitIInv, NextIInv, PTL DEF Spec

\* No credential, no channel packet and no answer ever goes out in the clear,
\* whatever the client offers and however reads and writes interleave
\* (try_complete_kex, send_newkeys).
THEOREM NothingElseInClear == Spec => []OnlyKexInClear
<1>1. IInv => OnlyKexInClear
  <2> SUFFICES ASSUME IInv, NEW e \in Ends, NEW i \in 1 .. Len(Toward(e)),
                      Toward(e)[i].key = None
               PROVE  Toward(e)[i].m.t \in KexMsgs \union {"IDENT"}
    BY DEF OnlyKexInClear
  <2>1. Good(e, conn[e], conn[Peer(e)], Toward(e), Toward(Peer(e)))
    BY DEF IInv
  <2>2. Toward(e)[i] \in Elems(Toward(e))
    BY DEF Elems
  <2> QED
    BY <2>1, <2>2 DEF Good, ClearInv, InClear
<1> QED
  BY <1>1, TransportInvariant, PTL

\* For every limit and every list of attempts, sent ahead of the answers or
\* not, nobody is authenticated but by the right password, never the client
\* alone, and a server that has refused max_auth_fails passwords has closed the
\* session (on_userauth_request, auth_fail).  Clients send only what RFC 4252
\* lets a client send: of one that sends USERAUTH_SUCCESS, whose handler does
\* not look at the role, the theorem says nothing.
THEOREM AuthenticationEarned == Spec => []AuthEarned
<1>1. IInv => AuthEarned
  <2> SUFFICES ASSUME IInv PROVE AuthEarned
    OBVIOUS
  <2>1. "client" \in Ends /\ Peer("client") = "server"
        /\ \A e \in Ends : e = "client" \/ e = "server"
    BY DEF Ends, Peer
  <2>2. AuthInv(conn["client"], conn["server"], Toward("client"), Toward("server"))
    BY <2>1 DEF IInv, Good
  <2> QED
    BY <2>1, <2>2 DEF AuthEarned, AuthInv
<1> QED
  BY <1>1, TransportInvariant, PTL
=============================================================================
