------------------------ MODULE KeyExchange_proofs ------------------------
(***************************************************************************)
(* The two sides keep agreeing on keys, counters and sequence numbers      *)
(* through every exchange, for every client whose lists and the server's   *)
(* lead both to one cipher (Agreed): proofs of NoDesync, InStep, TypeOK    *)
(* and NonceFresh of module Transport.  Without Agreed the first packet    *)
(* under the new keys fails, which is the finding of the negotiation run.  *)
(*                                                                         *)
(* A place in the stream of one side's packets is the cipher, the sequence *)
(* number, the exchange and how many of its messages have passed.  The     *)
(* place a side reads at and the place it sends at are functions of its    *)
(* connection.  The inductive invariant says of each direction that the    *)
(* packets on their way lead from the reader's place to the writer's: each *)
(* is sealed with the cipher and the number of the place it stands at, is  *)
(* the message of the exchange that is due there, and NEWKEYS moves to the *)
(* next key, and under strict kex to number zero.  So a reader never meets *)
(* a packet it cannot open, whatever is sent in between.  Beside that it   *)
(* says what one side knows of the exchange (Local), which nonces it has   *)
(* used up (Nonces), and in which order authentication and the packets     *)
(* that need it cross (Order).                                             *)
(***************************************************************************)
EXTENDS Transport_proofs

-----------------------------------------------------------------------------
(* The invariant.                                                          *)

\* Both sides choose the same cipher of the server's in each direction.
Agreed ==
  \A l \in {client.c2s, client.s2c} :
    /\ CipherFor("server", ServerCiphers, l) \in {"chacha"} \union Gcm
    /\ CipherFor("client", l, ServerCiphers) = CipherFor("server", ServerCiphers, l)

\* The cipher of the packets side e sends.
Suite(e) == CipherFor("server", ServerCiphers,
                      IF e = "client" THEN client.c2s ELSE client.s2c)

\* The hash of exchange k, and the session id.
Hash(k) == <<k, k, <<k>>, <<k>>>>

Sid == Hash(0)

\* The key side e seals with after exchange k.
KeyOf(e, k) == MakeKeys(Suite(e), Hash(k), Sid, IF e = "client" THEN "C" ELSE "D")

\* The j-th message of exchange k that side e sends.
KexMsg(e, k, j) ==
  IF j = 0 THEN KexInit(e, k)
  ELSE IF j = 1 THEN IF e = "client" THEN [t |-> "ECDH_INIT", q_c |-> <<k>>]
                                     ELSE [t |-> "ECDH_REPLY", q_s |-> <<k>>]
  ELSE Msg("NEWKEYS")

\* A place in the stream that side e sends: the cipher, the sequence number,
\* and how many messages of which exchange have passed.
Place(ci, sq, k, j) == [ci |-> ci, sq |-> sq, k |-> k, j |-> j]

\* Places in the order in which exchanges reach them.
Rank(u) == 3 * u.k + u.j

\* Packet x may stand at place u.
Fits(e, u, x) ==
  x.m.t # "IDENT" =>
    /\ x.key = u.ci.key /\ x.nonce = Nonce(u.ci, u.sq)
    /\ x.m.t \in KexMsgs => x.m = KexMsg(e, u.k, u.j)

\* The place after packet x at place u.
Pass(e, u, x) ==
  IF x.m.t = "IDENT" THEN u
  ELSE IF x.m.t = "NEWKEYS"
    THEN Place(KeyOf(e, u.k), IF client.strict THEN 0 ELSE Inc(u.sq), u.k + 1, 0)
  ELSE Place(IncIv(u.ci), Inc(u.sq), u.k,
             IF x.m.t \in KexMsgs THEN u.j + 1 ELSE u.j)

\* Where c has got to in what it reads.
ReadPlace(c) ==
  Place(c.recv_cipher, c.recv_seq,
        IF c.kex = None THEN c.kexes ELSE c.kexes - 1,
        IF c.kex = None THEN 0
        ELSE IF c.kex.theirs = None THEN 0
        ELSE IF c.pending_keys = None THEN 1 ELSE 2)

\* Where side e with connection c has got to in what it sends.
SendPlace(e, c) ==
  Place(c.send_cipher, c.send_seq,
        IF c.kex = None \/ c.pending_keys # None THEN c.kexes ELSE c.kexes - 1,
        IF c.kex = None \/ c.pending_keys # None THEN 0
        ELSE IF e = "client" /\ c.kex.theirs # None THEN 2 ELSE 1)

\* What a side knows while an exchange is under way: the peer's lists, the
\* secret, and the keys, as far as it has got.
KexLocal(e, c) ==
  LET k == c.kexes - 1 IN
  /\ DOMAIN c.kex = {"ours", "theirs", "c2s", "s2c", "secret"}
  /\ c.kex.ours = KexInit(e, k)
  /\ c.kex.theirs \in {None, KexInit(Peer(e), k)}
  /\ c.kex.theirs = None => c.pending_keys = None
  /\ c.kex.theirs # None => c.kex.c2s = Suite("client") /\ c.kex.s2c = Suite("server")
  /\ e = "client" /\ c.pending_keys = None => c.kex.secret = <<k>>
  /\ c.kex_blocks_app /\ ~c.recv_newkeys
  /\ c.sent_newkeys <=> c.pending_keys # None
  /\ c.pending_keys # None => c.pending_keys.recv = KeyOf(Peer(e), k)

\* The first exchange is under way.
Fresh(c) == c.kexes = 1 /\ c.kex # None

\* Numbers wrap around at the sequence space.
Numbers(c) == {c.send_seq, c.recv_seq, c.packets_io} \subseteq 0 .. SeqSpace - 1

\* What a side knows of the exchanges, whatever its peer does.
Local(e, c) ==
  /\ Numbers(c)
  /\ c.kexes \in Nat \ {0}
  /\ c.sent_kexinit <=> c.kex # None
  /\ c.first_kex_done <=> ~Fresh(c)
  /\ c.session_id = IF Fresh(c) /\ c.pending_keys = None THEN None ELSE Sid
  /\ c.strict_kex <=> client.strict /\ ~(Fresh(c) /\ c.kex.theirs = None)
  /\ Fresh(c) => c.recv_cipher = Clear
  /\ ~c.ident_in_done => Fresh(c) /\ c.kex.theirs = None
  /\ c.kex = None => c.pending_keys = None
  /\ c.kex # None => KexLocal(e, c)

\* Every nonce of some key has been used.
Exhausted(c) ==
  \E key : \A n \in 0 .. SeqSpace - 1 : <<key, n>> \in c.used

\* The numbers a key was used with are those from b up to send_seq, around the
\* end of the sequence space if need be; or they are all.
Stretch(c, key) ==
  \/ \A n \in 0 .. SeqSpace - 1 : <<key, n>> \in c.used
  \/ \E b \in 0 .. SeqSpace - 1 : \A n \in 0 .. SeqSpace - 1 :
       <<key, n>> \in c.used <=>
         IF b <= c.send_seq THEN b <= n /\ n < c.send_seq
                            ELSE b <= n \/ n < c.send_seq

\* Side e has left k keys behind, or is at the last of them.
Nonces(e, c, k) ==
  /\ \A y \in c.used : \E i \in 0 .. k - 1 : \E n : y = <<KeyOf(e, i).key, n>>
  /\ k = 0 => c.send_cipher = Clear
  /\ k > 0 => /\ c.send_cipher.key = KeyOf(e, k - 1).key
              /\ c.send_cipher.kind = Suite(e)
  /\ c.reused => Exhausted(c)
  /\ k > 0 /\ Suite(e) \in Gcm =>
       /\ c.send_cipher.iv \in Nat
       /\ \A n \in Nat : <<c.send_cipher.key, n>> \in c.used => n < c.send_cipher.iv
  /\ k > 0 /\ Suite(e) = "chacha" => Stretch(c, c.send_cipher.key)

\* g is the sequence of places before, between and after the packets of A.
Walk(e, g, A) ==
  /\ DOMAIN g = 0 .. Len(A)
  /\ \A i \in 1 .. Len(A) : Fits(e, g[i - 1], A[i]) /\ g[i] = Pass(e, g[i - 1], A[i])

\* The packets of A lead from place u to place v.
Leads(e, u, A, v) == \E g : Walk(e, g, A) /\ g[0] = u /\ g[Len(A)] = v

\* Only authenticated sides send these.
LateTypes == {"DATA", "CONTROL", "REQUEST", "REPLY"}

\* A server sends this only after the client's password was right.
Late(x) == x.m.t \in LateTypes \/ (x.m.t = "KEXINIT" /\ x.m.cookie > 0)

\* The packet that tells the client so.
Won(x) == x.m.t = "USERAUTH_SUCCESS"

\* The identification line is the first thing to arrive.
LineFirst(c, A) == ~c.ident_in_done => A # << >> /\ A[1].m.t = "IDENT"

\* Authentication and what depends on it, with c the client, s the server, A on
\* its way to c and B on its way to s: a later exchange, which only the server
\* starts, and channel packets come after USERAUTH_SUCCESS; and the only error
\* is a client that gives up on authentication.
Order(c, s, A, B) ==
  /\ s.kexes > 1 => s.authed
  /\ c.kexes > 1 => c.authed
  /\ c.kexes > 1 /\ c.kex # None => c.kex.theirs # None
  /\ \A x \in Elems(B) : x.m.t \in LateTypes => s.authed
  /\ \A x \in Elems(A) : Won(x) => ~c.authed
  /\ \A i \in 1 .. Len(A) : Late(A[i]) => c.authed \/ \E j \in 1 .. i - 1 : Won(A[j])
  /\ s.authed => c.authed \/ \E j \in 1 .. Len(A) : Won(A[j])
  /\ s.error = "no" /\ c.error \in {"no", "auth"}

-----------------------------------------------------------------------------
(* Places.                                                                 *)

\* A place, by what is needed to compare it with another.
IsPlace(u) == /\ DOMAIN u = {"ci", "sq", "k", "j"}
              /\ u.k \in Nat /\ u.j \in 0 .. 2

\* An exchange goes on by one message, any other packet leaves it where it is.
LEMMA PassPlace ==
  ASSUME NEW e, NEW u, IsPlace(u), NEW x, Fits(e, u, x)
  PROVE  LET v == Pass(e, u, x)
         IN /\ IsPlace(v)
            /\ Rank(v) = IF x.m.t \in KexMsgs THEN Rank(u) + 1 ELSE Rank(u)
<1> DEFINE v == Pass(e, u, x)
<1>0. \A a, b, c, d : LET w == Place(a, b, c, d)
                      IN /\ DOMAIN w = {"ci", "sq", "k", "j"}
                         /\ w.ci = a /\ w.sq = b /\ w.k = c /\ w.j = d
  BY DEF Place
<1>1. CASE x.m.t = "IDENT"
  BY <1>1 DEF Pass, KexMsgs
<1>2. CASE x.m.t \in KexMsgs
  <2>1. x.m = KexMsg(e, u.k, u.j) /\ x.m.t # "IDENT"
    BY <1>2 DEF Fits, KexMsgs
  <2>2. \A k : /\ KexMsg(e, k, 0).t = "KEXINIT"
               /\ KexMsg(e, k, 1).t \in {"ECDH_INIT", "ECDH_REPLY"}
               /\ KexMsg(e, k, 2).t = "NEWKEYS"
    BY DEF KexMsg, KexInit, Msg
  <2>3. u.j \in {0, 1, 2}
    BY DEF IsPlace
  <2>4. x.m.t = "NEWKEYS" <=> u.j = 2
    BY <2>1, <2>2, <2>3
  <2>5. CASE x.m.t = "NEWKEYS"
    <3> DEFINE q == IF client.strict THEN 0 ELSE Inc(u.sq)
    <3>1. v = Place(KeyOf(e, u.k), q, u.k + 1, 0)
      BY <2>1, <2>5 DEF Pass
    <3> HIDE DEF q, v
    <3>2. IsPlace(v) /\ v.k = u.k + 1 /\ v.j = 0
      BY <1>0, <3>1 DEF IsPlace
    <3> QED
      BY <1>2, <2>4, <2>5, <3>2 DEF Rank, IsPlace, v
  <2>6. CASE x.m.t # "NEWKEYS"
    <3>1. v = Place(IncIv(u.ci), Inc(u.sq), u.k, u.j + 1)
      BY <1>2, <2>1, <2>6 DEF Pass
    <3>2. u.j \in {0, 1}
      BY <2>3, <2>4, <2>6
    <3> HIDE DEF v
    <3>3. IsPlace(v) /\ v.k = u.k /\ v.j = u.j + 1
      BY <1>0, <3>1, <3>2 DEF IsPlace
    <3> QED
      BY <1>2, <3>3 DEF Rank, IsPlace, v
  <2> QED
    BY <2>5, <2>6
<1>3. CASE x.m.t # "IDENT" /\ x.m.t \notin KexMsgs
  <2>1. v = Place(IncIv(u.ci), Inc(u.sq), u.k, u.j)
    BY <1>3 DEF Pass, KexMsgs
  <2> HIDE DEF v
  <2>2. IsPlace(v) /\ v.k = u.k /\ v.j = u.j
    BY <1>0, <2>1 DEF IsPlace
  <2> QED
    BY <1>3, <2>2 DEF Rank, v
<1> QED
  BY <1>1, <1>2, <1>3

\* Along a stream exchanges only go on.
LEMMA LeadsOrder ==
  ASSUME NEW e, NEW u, NEW v, NEW A, IsSeq(A), IsPlace(u), Leads(e, u, A, v)
  PROVE  /\ IsPlace(v) /\ Rank(u) <= Rank(v)
         /\ Rank(u) = Rank(v) => \A x \in Elems(A) : x.m.t \notin KexMsgs
<1> DEFINE n == Len(A)
<1>1. PICK g : Walk(e, g, A) /\ g[0] = u /\ g[n] = v
  BY DEF Leads
<1>2. n \in Nat
  BY DEF IsSeq
<1> HIDE DEF n
<1>3. \A i \in 1 .. n : Fits(e, g[i - 1], A[i]) /\ g[i] = Pass(e, g[i - 1], A[i])
  BY <1>1 DEF Walk, n
<1> DEFINE Ordered(i) == /\ IsPlace(g[i]) /\ Rank(g[i]) \in Nat
                         /\ \A a \in 0 .. i : Rank(g[a]) \in Nat /\ Rank(g[a]) <= Rank(g[i])
           T == {i \in 0 .. n : Ordered(i)}
<1>4. \A w : IsPlace(w) => Rank(w) \in Nat
  BY DEF IsPlace, Rank
<1>5. 0 \in T
  BY <1>1, <1>2, <1>4
<1>6. ASSUME NEW i \in 1 .. n, i - 1 \in T PROVE i \in T
  <2>1. Ordered(i - 1)
    BY <1>6
  <2>2. IsPlace(g[i]) /\ Rank(g[i]) \in {Rank(g[i - 1]), Rank(g[i - 1]) + 1}
    BY <1>3, <2>1, PassPlace
  <2>3. \A a \in 0 .. i : a \in 0 .. i - 1 \/ a = i
    BY <1>2
  <2>4. Rank(g[i]) \in Nat
    BY <1>4, <2>2
  <2> HIDE DEF T
  <2>5. Ordered(i)
    BY <2>1, <2>2, <2>3, <2>4
  <2> QED
    BY <1>2, <2>5 DEF T
<1> HIDE DEF T
<1>7. \A i \in 0 .. n : i \in T
  BY SMTT(30), <1>2, <1>5, <1>6, IntervalInduction
<1>8. \A i \in 0 .. n : Ordered(i)
  BY <1>7 DEF T
<1>9. n \in 0 .. n /\ 0 \in 0 .. n
  BY <1>2
<1>10. IsPlace(v) /\ Rank(u) <= Rank(v)
  BY <1>1, <1>8, <1>9
<1>11. ASSUME Rank(u) = Rank(v), NEW x \in Elems(A), x.m.t \in KexMsgs
       PROVE  FALSE
  <2>1. PICK i \in 1 .. n : x = A[i]
    BY <1>11 DEF Elems, n
  <2>2. Ordered(i - 1) /\ Ordered(i) /\ Ordered(n)
    BY <1>2, <1>8
  <2>3. Rank(g[i]) = Rank(g[i - 1]) + 1
    BY <1>3, <1>11, <2>1, <2>2, PassPlace
  <2>4. Rank(g[0]) <= Rank(g[i - 1]) /\ Rank(g[i]) <= Rank(g[n])
    BY <1>2, <2>2
  <2> QED
    BY <1>1, <1>11, <2>2, <2>3, <2>4
<1> QED
  BY <1>10, <1>11

\* No packet leads from a place to itself and to no other.
LEMMA LeadsEmpty ==
  /\ \A e, u, v : Leads(e, u, << >>, v) <=> u = v
<1>1. ASSUME NEW e, NEW u, NEW v, Leads(e, u, << >>, v) PROVE u = v
  <2>1. Len(<< >>) = 0
    OBVIOUS
  <2> QED
    BY <1>1, <2>1 DEF Leads
<1>2. ASSUME NEW e, NEW u PROVE Leads(e, u, << >>, u)
  <2> DEFINE g == [i \in 0 .. 0 |-> u]
  <2>1. Len(<< >>) = 0 /\ 1 .. 0 = {}
    OBVIOUS
  <2>2. Walk(e, g, << >>) /\ g[0] = u
    BY <2>1 DEF Walk
  <2> HIDE DEF g
  <2> QED
    BY <2>1, <2>2 DEF Leads
<1> QED
  BY <1>1, <1>2

\* The receiver takes the first packet.
LEMMA LeadsHead ==
  ASSUME NEW e, NEW u, NEW v, NEW A, IsSeq(A), A # << >>, Leads(e, u, A, v)
  PROVE  /\ Fits(e, u, Head(A))
         /\ Leads(e, Pass(e, u, Head(A)), Tail(A), v)
<1> DEFINE n == Len(A)
<1>1. PICK g : Walk(e, g, A) /\ g[0] = u /\ g[n] = v
  BY DEF Leads
<1>2. /\ n \in Nat /\ n > 0 /\ Head(A) = A[1] /\ Len(Tail(A)) = n - 1
      /\ \A i \in 1 .. n - 1 : Tail(A)[i] = A[i + 1]
  BY TailElems
<1> HIDE DEF n
<1>3. \A i \in 1 .. n : Fits(e, g[i - 1], A[i]) /\ g[i] = Pass(e, g[i - 1], A[i])
  BY <1>1 DEF Walk, n
<1>4. Fits(e, u, Head(A)) /\ g[1] = Pass(e, u, Head(A))
  <2>1. 1 \in 1 .. n /\ 1 - 1 = 0
    BY <1>2
  <2> QED
    BY <1>1, <1>2, <1>3, <2>1
<1> DEFINE h == [i \in 0 .. n - 1 |-> g[i + 1]]
<1>5. ASSUME NEW i \in 1 .. n - 1
      PROVE  Fits(e, h[i - 1], Tail(A)[i]) /\ h[i] = Pass(e, h[i - 1], Tail(A)[i])
  <2>1. h[i - 1] = g[i] /\ h[i] = g[i + 1] /\ i + 1 \in 1 .. n /\ (i + 1) - 1 = i
    BY <1>2
  <2> HIDE DEF h
  <2>2. Fits(e, g[(i + 1) - 1], A[i + 1]) /\ g[i + 1] = Pass(e, g[(i + 1) - 1], A[i + 1])
    BY <1>3, <2>1
  <2> QED
    BY <1>2, <2>1, <2>2
<1>6. DOMAIN h = 0 .. n - 1 /\ h[0] = g[1] /\ h[n - 1] = g[n]
  BY <1>2
<1> HIDE DEF h
<1>7. Walk(e, h, Tail(A))
  BY <1>2, <1>5, <1>6 DEF Walk
<1> QED
  BY <1>1, <1>2, <1>4, <1>6, <1>7 DEF Leads

\* The sender adds a packet.
LEMMA LeadsAppend ==
  ASSUME NEW e, NEW u, NEW v, NEW A, IsSeq(A), Leads(e, u, A, v), NEW x, Fits(e, v, x)
  PROVE  Leads(e, u, Append(A, x), Pass(e, v, x))
<1> DEFINE n == Len(A)
           C == Append(A, x)
<1>1. PICK g : Walk(e, g, A) /\ g[0] = u /\ g[n] = v
  BY DEF Leads
<1>2. /\ n \in Nat /\ Len(C) = n + 1 /\ C[n + 1] = x
      /\ \A i \in 1 .. n : C[i] = A[i]
  BY AppendElems
<1> HIDE DEF n, C
<1>3. \A i \in 1 .. n : Fits(e, g[i - 1], A[i]) /\ g[i] = Pass(e, g[i - 1], A[i])
  BY <1>1 DEF Walk, n
<1> DEFINE h == [i \in 0 .. n + 1 |-> IF i = n + 1 THEN Pass(e, v, x) ELSE g[i]]
<1>4. /\ DOMAIN h = 0 .. n + 1 /\ h[n + 1] = Pass(e, v, x)
      /\ \A i \in 0 .. n : h[i] = g[i]
  BY <1>2
<1> HIDE DEF h
<1>5. ASSUME NEW i \in 1 .. n + 1
      PROVE  Fits(e, h[i - 1], C[i]) /\ h[i] = Pass(e, h[i - 1], C[i])
  <2>1. CASE i \in 1 .. n
    <3>1. i - 1 \in 0 .. n /\ i \in 0 .. n
      BY <1>2, <2>1
    <3> QED
      BY <1>2, <1>3, <1>4, <2>1, <3>1
  <2>2. CASE i = n + 1
    <3>1. i - 1 = n /\ n \in 0 .. n
      BY <1>2, <2>2
    <3> QED
      BY <1>1, <1>2, <1>4, <2>2, <3>1
  <2> QED
    BY <1>2, <2>1, <2>2
<1>6. Walk(e, h, C)
  BY <1>2, <1>4, <1>5 DEF Walk
<1>7. h[0] = u /\ h[Len(C)] = Pass(e, v, x)
  BY <1>1, <1>2, <1>4
<1> QED
  BY <1>6, <1>7 DEF Leads, C

-----------------------------------------------------------------------------
(* Sealing.                                                                *)

\* What queue_msg adds to the write queue.
Sealed(c, m) == [key |-> c.send_cipher.key,
                 nonce |-> Nonce(c.send_cipher, c.send_seq), m |-> m]

\* The fields queue_msg assigns.
QueueTouches == {"write_q", "send_cipher", "send_seq", "packets_io", "reused", "used"}

\* All that queue_msg does.
LEMMA QueueDoes ==
  ASSUME NEW c, Shape(c), NEW m
  PROVE  LET d == Queue(c, m)
             use == <<c.send_cipher.key, Nonce(c.send_cipher, c.send_seq)>>
         IN /\ Shape(d) /\ d.write_q = Append(c.write_q, Sealed(c, m))
            /\ d.send_cipher = IncIv(c.send_cipher)
            /\ d.send_seq = Inc(c.send_seq) /\ d.packets_io = Inc(c.packets_io)
            /\ d.reused = (c.reused \/ use \in c.used)
            /\ d.used = IF c.send_cipher.key = None THEN c.used
                        ELSE c.used \union {use}
            /\ \A f \in Fields \ QueueTouches : d[f] = c[f]
<1> DEFINE d == Queue(c, m)
<1>1. Shape(d) /\ \A f \in Fields \ QueueTouches : d[f] = c[f]
  BY QueueFields DEF QueueTouches
<1>2. /\ d.write_q = Append(c.write_q, Sealed(c, m))
      /\ d.send_cipher = IncIv(c.send_cipher)
      /\ d.send_seq = Inc(c.send_seq) /\ d.packets_io = Inc(c.packets_io)
  BY DEF Queue, Shape, Fields, Sealed
<1>3. /\ d.reused =
           (c.reused \/ <<c.send_cipher.key, Nonce(c.send_cipher, c.send_seq)>> \in c.used)
      /\ d.used = IF c.send_cipher.key = None THEN c.used
                  ELSE c.used \union {<<c.send_cipher.key, Nonce(c.send_cipher, c.send_seq)>>}
  BY DEF Queue, Shape, Fields
<1> QED
  BY <1>1, <1>2, <1>3

\* Every packet counts, for the sequence number and for the rekey limit.
LEMMA QueueCounts ==
  ASSUME NEW c, Shape(c), NEW m
  PROVE  /\ Queue(c, m).send_seq = Inc(c.send_seq)
         /\ Queue(c, m).packets_io = Inc(c.packets_io)
  BY DEF Queue, Shape, Fields

\* Sequence numbers wrap around.
LEMMA IncNumber ==
  ASSUME NEW n \in 0 .. SeqSpace - 1
  PROVE  /\ Inc(n) \in 0 .. SeqSpace - 1
         /\ Inc(n) = IF n + 1 = SeqSpace THEN 0 ELSE n + 1
         /\ 0 \in 0 .. SeqSpace - 1
<1>1. SeqSpace \in Nat /\ SeqSpace > 0
  BY TransportAssumptions
<1>2. CASE n + 1 = SeqSpace
  BY <1>1, <1>2 DEF Inc
<1>3. CASE n + 1 # SeqSpace
  BY <1>1, <1>3 DEF Inc
<1> QED
  BY <1>1, <1>2, <1>3

\* Each exchange has its own key.
LEMMA KeysDiffer ==
  ASSUME NEW e, NEW i, NEW k
  PROVE  /\ KeyOf(e, i).key = KeyOf(e, k).key => i = k
         /\ KeyOf(e, i).key # None /\ KeyOf(e, i).kind = Suite(e)
         /\ KeyOf(e, i).iv = 0
         /\ DOMAIN KeyOf(e, i) = {"key", "kind", "iv"}
<1>1. \A a, h, s, l : LET w == MakeKeys(a, h, s, l)
                      IN /\ w.key = <<a, h, s, l>> /\ w.kind = a /\ w.iv = 0
                         /\ DOMAIN w = {"key", "kind", "iv"}
  BY DEF MakeKeys
<1>2. \A a, h, s, l, g : <<a, h, s, l>> = <<a, g, s, l>> => h = g
  OBVIOUS
<1>3. \A a, h, s, l : <<a, h, s, l>> # None
  BY DEF None
<1>4. Hash(i) = Hash(k) => i = k
  BY DEF Hash
<1> QED
  BY <1>1, <1>2, <1>3, <1>4 DEF KeyOf

\* queue_msg repeats a nonce only when the key has none left.
LEMMA QueueNonces ==
  ASSUME NEW e \in Ends, NEW c, Shape(c), NEW m, NEW k \in Nat,
         Suite(e) \in {"chacha"} \union Gcm,
         c.send_seq \in 0 .. SeqSpace - 1, Nonces(e, c, k)
  PROVE  Nonces(e, Queue(c, m), k)
<1> DEFINE d == Queue(c, m)
           key == c.send_cipher.key
           q == Nonce(c.send_cipher, c.send_seq)
           use == <<key, q>>
<1>1. /\ d.send_cipher = IncIv(c.send_cipher)
      /\ d.send_seq = Inc(c.send_seq)
      /\ d.reused = (c.reused \/ use \in c.used)
      /\ d.used = IF key = None THEN c.used ELSE c.used \union {use}
  BY QueueDoes
<1> HIDE DEF d
<1>2. CASE k = 0
  <2>1. c.send_cipher = Clear /\ c.used = {}
    BY <1>2 DEF Nonces
  <2>2. key = None /\ IncIv(Clear) = Clear
    BY <2>1 DEF Clear, IncIv, Gcm
  <2>3. d.used = {} /\ d.send_cipher = Clear
    BY <1>1, <2>1, <2>2
  <2>4. d.reused => Exhausted(d)
    <3>1. d.reused => c.reused
      BY Zenon, <1>1, <2>1
    <3> QED
      BY <2>1, <2>3, <3>1 DEF Nonces, Exhausted
  <2> QED
    BY <1>2, <2>3, <2>4 DEF Nonces, d
<1>3. CASE k > 0
  <2>1. key = KeyOf(e, k - 1).key /\ c.send_cipher.kind = Suite(e) /\ key # None
    BY <1>3, KeysDiffer DEF Nonces
  <2>2. /\ d.used = c.used \union {use}
        /\ d.send_cipher.key = key /\ d.send_cipher.kind = Suite(e)
    BY <1>1, <2>1 DEF IncIv, Shape
  <2>3. \A y \in d.used : \E i \in 0 .. k - 1 : \E n : y = <<KeyOf(e, i).key, n>>
    <3>1. k - 1 \in 0 .. k - 1
      BY <1>3
    <3>2. \A y \in c.used : \E i \in 0 .. k - 1 : \E n : y = <<KeyOf(e, i).key, n>>
      BY DEF Nonces
    <3>3. \E n : use = <<KeyOf(e, k - 1).key, n>>
      BY <2>1
    <3> HIDE DEF use
    <3> QED
      BY <2>2, <3>1, <3>2, <3>3
  <2>4. Exhausted(c) => Exhausted(d)
    BY <2>2 DEF Exhausted
  <2>5. CASE Suite(e) \in Gcm
    <3>1. q = c.send_cipher.iv /\ d.send_cipher.iv = c.send_cipher.iv + 1
          /\ c.send_cipher.iv \in Nat
      BY <1>1, <1>3, <2>1, <2>5 DEF Nonce, IncIv, Shape, Gcm, Nonces
    <3>2. \A n \in Nat : <<key, n>> \in c.used => n < c.send_cipher.iv
      BY <1>3, <2>5 DEF Nonces
    <3>3. use \notin c.used
      BY <3>1, <3>2
    <3>4. \A n \in Nat : <<key, n>> \in d.used => n < d.send_cipher.iv
      BY <2>2, <3>1, <3>2
    <3>5. Suite(e) # "chacha"
      BY <2>5 DEF Gcm
    <3>6. d.reused => Exhausted(d)
      <4>1. d.reused => c.reused
        BY Zenon, <1>1, <3>3
      <4> QED
        BY <2>4, <4>1 DEF Nonces
    <3> HIDE DEF key
    <3> QED
      BY <1>3, <2>1, <2>2, <2>3, <3>1, <3>4, <3>5, <3>6 DEF Nonces, d
  <2>6. CASE Suite(e) = "chacha"
    <3>1. q = c.send_seq /\ Suite(e) \notin Gcm
      BY <2>1, <2>6 DEF Nonce, Gcm
    <3>2. Stretch(c, key)
      BY <1>3, <2>6 DEF Nonces
    <3> DEFINE S == SeqSpace
               a == c.send_seq
    <3>3. /\ S \in Nat /\ a \in 0 .. S - 1
          /\ d.send_seq = IF a + 1 = S THEN 0 ELSE a + 1
      BY <1>1, IncNumber, TransportAssumptions
    <3>4. \A n : <<key, n>> \in d.used <=> <<key, n>> \in c.used \/ n = a
      <4>1. use = <<key, a>>
        BY <3>1
      <4> HIDE DEF use, key, a
      <4> QED
        BY <2>2, <4>1
    <3>5. CASE \A n \in 0 .. S - 1 : <<key, n>> \in c.used
      <4>1. Stretch(d, key) /\ Exhausted(d)
        BY <3>4, <3>5 DEF Stretch, Exhausted
      <4> QED
        BY <1>3, <2>1, <2>2, <2>3, <3>1, <4>1 DEF Nonces, d
    <3>6. CASE ~ \A n \in 0 .. S - 1 : <<key, n>> \in c.used
      <4>1. PICK b \in 0 .. S - 1 : \A n \in 0 .. S - 1 :
              <<key, n>> \in c.used <=> IF b <= a THEN b <= n /\ n < a
                                                 ELSE b <= n \/ n < a
        BY <3>2, <3>6 DEF Stretch
      <4> HIDE DEF a, S
      <4>2. use \notin c.used
        BY <3>1, <3>3, <4>1 DEF a
      <4>3. Stretch(d, key)
        <5> DEFINE f == d.send_seq
        <5>1. f = IF a + 1 = S THEN 0 ELSE a + 1
          BY <3>3
        <5> HIDE DEF f
        <5>2. \A n \in 0 .. S - 1 :
                <<key, n>> \in d.used <=> IF b <= a THEN b <= n /\ n <= a
                                          ELSE b <= n \/ n <= a
          BY <3>3, <3>4, <4>1
        <5>3. CASE f = b
          <6>1. \A n \in 0 .. S - 1 : IF b <= a THEN b <= n /\ n <= a
                                                ELSE b <= n \/ n <= a
            BY <3>3, <5>1, <5>3
          <6>2. \A n \in 0 .. S - 1 : <<key, n>> \in d.used
            BY <5>2, <6>1
          <6> QED
            BY <6>2 DEF Stretch, S
        <5>4. CASE f # b
          <6>1. \A n \in 0 .. S - 1 :
                  (IF b <= a THEN b <= n /\ n <= a ELSE b <= n \/ n <= a)
                  <=> (IF b <= f THEN b <= n /\ n < f ELSE b <= n \/ n < f)
            BY <3>3, <5>1, <5>4
          <6>2. \A n \in 0 .. S - 1 : <<key, n>> \in d.used <=>
                   IF b <= f THEN b <= n /\ n < f ELSE b <= n \/ n < f
            BY <5>2, <6>1
          <6> QED
            BY <6>2 DEF Stretch, S, f
        <5> QED
          BY <5>3, <5>4
      <4>4. d.reused => Exhausted(d)
        <5>1. d.reused => c.reused
          BY Zenon, <1>1, <4>2
        <5> QED
          BY <2>4, <5>1 DEF Nonces
      <4> HIDE DEF key
      <4> QED
        BY <1>3, <2>1, <2>2, <2>3, <3>1, <4>3, <4>4 DEF Nonces, d
    <3> QED
      BY <3>5, <3>6
  <2> QED
    BY <2>5, <2>6
<1> QED
  BY <1>2, <1>3

\* A key that comes into use has no nonces behind it.
LEMMA SwitchNonces ==
  ASSUME NEW e \in Ends, NEW c, NEW d, NEW k \in Nat, Nonces(e, c, k),
         d.used = c.used, d.reused = c.reused, d.send_cipher = KeyOf(e, k),
         d.send_seq \in 0 .. SeqSpace - 1
  PROVE  Nonces(e, d, k + 1)
<1>1. /\ d.send_cipher.key = KeyOf(e, k).key /\ d.send_cipher.kind = Suite(e)
      /\ d.send_cipher.iv = 0
  BY KeysDiffer
<1>2. \A n : <<d.send_cipher.key, n>> \notin d.used
  <2> SUFFICES ASSUME NEW n, <<d.send_cipher.key, n>> \in d.used PROVE FALSE
    OBVIOUS
  <2>0. \A y \in c.used : \E i \in 0 .. k - 1 : \E l : y = <<KeyOf(e, i).key, l>>
    BY DEF Nonces
  <2>1. PICK i \in 0 .. k - 1 : \E l : <<d.send_cipher.key, n>> = <<KeyOf(e, i).key, l>>
    BY <2>0
  <2>2. KeyOf(e, i).key = KeyOf(e, k).key
    BY <1>1, <2>1
  <2> QED
    BY <2>2, KeysDiffer
<1>3. \A y \in d.used : \E i \in 0 .. (k + 1) - 1 : \E n : y = <<KeyOf(e, i).key, n>>
  <2>1. \A i \in 0 .. k - 1 : i \in 0 .. (k + 1) - 1
    OBVIOUS
  <2>2. \A y \in c.used : \E i \in 0 .. k - 1 : \E n : y = <<KeyOf(e, i).key, n>>
    BY DEF Nonces
  <2> QED
    BY Zenon, <2>1, <2>2
<1>4. d.reused => Exhausted(d)
  BY DEF Nonces, Exhausted
<1>5. Stretch(d, d.send_cipher.key)
  <2>1. \A n \in 0 .. SeqSpace - 1 : ~(d.send_seq <= n /\ n < d.send_seq)
    BY TransportAssumptions
  <2>2. d.send_seq <= d.send_seq
    BY TransportAssumptions
  <2> QED
    BY <1>2, <2>1, <2>2 DEF Stretch
<1>6. (k + 1) - 1 = k /\ k + 1 # 0
  OBVIOUS
<1> QED
  BY <1>1, <1>2, <1>3, <1>4, <1>5, <1>6 DEF Nonces
-----------------------------------------------------------------------------
(* One side: what it knows of the exchange and what it has sent.           *)

\* d is where c is in the exchange.
SameKex(c, d) ==
  /\ d.kex = c.kex /\ d.pending_keys = c.pending_keys /\ d.kexes = c.kexes
  /\ d.strict_kex = c.strict_kex /\ d.session_id = c.session_id
  /\ d.sent_kexinit = c.sent_kexinit /\ d.sent_newkeys = c.sent_newkeys
  /\ d.recv_newkeys = c.recv_newkeys /\ d.first_kex_done = c.first_kex_done
  /\ d.ident_in_done = c.ident_in_done

\* Side e, whose peer has got to place u of the stream N \o c.write_q.
Half(e, c, N, u) ==
  /\ Shape(c) /\ Local(e, c) /\ Nonces(e, c, SendPlace(e, c).k)
  /\ Leads(e, u, N \o c.write_q, SendPlace(e, c))

\* The parts of a place.
LEMMA PlaceParts ==
  \A a, b, k, j : LET w == Place(a, b, k, j)
                  IN /\ DOMAIN w = {"ci", "sq", "k", "j"}
                     /\ w.ci = a /\ w.sq = b /\ w.k = k /\ w.j = j
  BY DEF Place

\* A record is not None.
LEMMA RecordNotNone ==
  /\ \A r : DOMAIN r = {"ours", "theirs", "c2s", "s2c", "secret"} => r # None
  /\ \A r : DOMAIN r = {"send", "recv"} => r # None
  /\ \A r : "t" \in DOMAIN r => r # None
  /\ \A e, k : KexInit(e, k) # None
  /\ \A k : <<k>> # None
<1>1. DOMAIN None = {}
  BY DEF None
<1>2. \A e, k : "t" \in DOMAIN KexInit(e, k)
  BY DEF KexInit
<1>3. \A k : <<k>> # None
  BY DEF None
<1> QED
  BY <1>1, <1>2, <1>3

\* What says nothing about the exchange leaves it alone.
LEMMA LocalSame ==
  ASSUME NEW e, NEW c, NEW d, Local(e, c), SameKex(c, d), Numbers(d),
         c.kex # None => d.kex_blocks_app,
         Fresh(c) => d.recv_cipher = Clear
  PROVE  /\ Local(e, d)
         /\ ReadPlace(d) = Place(d.recv_cipher, d.recv_seq, ReadPlace(c).k, ReadPlace(c).j)
         /\ SendPlace(e, d) = Place(d.send_cipher, d.send_seq,
                                    SendPlace(e, c).k, SendPlace(e, c).j)
<1>1. Fresh(d) = Fresh(c)
  BY DEF Fresh, SameKex
<1>2. c.kex # None => KexLocal(e, d)
  <2> SUFFICES ASSUME c.kex # None PROVE KexLocal(e, d)
    OBVIOUS
  <2>1. KexLocal(e, c)
    BY DEF Local
  <2> QED
    BY <2>1 DEF KexLocal, SameKex
<1>3. Local(e, d)
  BY <1>1, <1>2 DEF Local, SameKex
<1>4. ReadPlace(d) = Place(d.recv_cipher, d.recv_seq, ReadPlace(c).k, ReadPlace(c).j)
  BY PlaceParts DEF ReadPlace, SameKex
<1>5. SendPlace(e, d) = Place(d.send_cipher, d.send_seq,
                              SendPlace(e, c).k, SendPlace(e, c).j)
  BY PlaceParts DEF SendPlace, SameKex
<1> QED
  BY <1>3, <1>4, <1>5

\* Where a side is: no exchange, asked for one, heard of the peer's lists,
\* has the new keys.
LEMMA Phases ==
  ASSUME NEW e \in Ends, NEW c, Local(e, c)
  PROVE  /\ IsPlace(ReadPlace(c)) /\ IsPlace(SendPlace(e, c))
         /\ c.kexes \in Nat /\ c.kexes > 0
         /\ c.kex = None => /\ ReadPlace(c).k = c.kexes /\ ReadPlace(c).j = 0
                            /\ SendPlace(e, c).k = c.kexes /\ SendPlace(e, c).j = 0
                            /\ c.pending_keys = None
         /\ c.kex # None => /\ ReadPlace(c).k = c.kexes - 1 /\ KexLocal(e, c)
                            /\ c.kexes - 1 \in Nat
         /\ c.kex # None /\ c.kex.theirs = None =>
              /\ c.pending_keys = None /\ ReadPlace(c).j = 0
              /\ SendPlace(e, c).k = c.kexes - 1 /\ SendPlace(e, c).j = 1
         /\ c.kex # None /\ c.kex.theirs # None /\ c.pending_keys = None =>
              /\ ReadPlace(c).j = 1 /\ SendPlace(e, c).k = c.kexes - 1
              /\ SendPlace(e, c).j = IF e = "client" THEN 2 ELSE 1
         /\ c.kex # None /\ c.pending_keys # None =>
              /\ c.kex.theirs # None /\ ReadPlace(c).j = 2
              /\ SendPlace(e, c).k = c.kexes /\ SendPlace(e, c).j = 0
<1>1. c.kexes \in Nat /\ c.kexes > 0 /\ c.kexes - 1 \in Nat
  BY DEF Local
<1>2. c.kex = None => c.pending_keys = None
  BY DEF Local
<1>3. c.kex # None => KexLocal(e, c) /\ (c.kex.theirs = None => c.pending_keys = None)
  BY DEF Local, KexLocal
<1>4. /\ DOMAIN ReadPlace(c) = {"ci", "sq", "k", "j"}
      /\ ReadPlace(c).k = (IF c.kex = None THEN c.kexes ELSE c.kexes - 1)
      /\ ReadPlace(c).j = (IF c.kex = None THEN 0
                           ELSE IF c.kex.theirs = None THEN 0
                           ELSE IF c.pending_keys = None THEN 1 ELSE 2)
  BY PlaceParts DEF ReadPlace
<1>5. /\ DOMAIN SendPlace(e, c) = {"ci", "sq", "k", "j"}
      /\ SendPlace(e, c).k = (IF c.kex = None \/ c.pending_keys # None
                              THEN c.kexes ELSE c.kexes - 1)
      /\ SendPlace(e, c).j = (IF c.kex = None \/ c.pending_keys # None THEN 0
                              ELSE IF e = "client" /\ c.kex.theirs # None THEN 2 ELSE 1)
  BY PlaceParts DEF SendPlace
<1>6. IsPlace(ReadPlace(c)) /\ IsPlace(SendPlace(e, c))
  BY <1>1, <1>4, <1>5 DEF IsPlace
<1> QED
  BY <1>1, <1>2, <1>3, <1>4, <1>5, <1>6

\* queue_msg of a message that is in its place.
LEMMA QueueLeads ==
  ASSUME NEW e, NEW c, NEW N, IsSeq(N), NEW u, NEW m, Shape(c), NEW v,
         Leads(e, u, N \o c.write_q, v),
         v.ci = c.send_cipher, v.sq = c.send_seq,
         m.t # "IDENT", m.t \in KexMsgs => m = KexMsg(e, v.k, v.j)
  PROVE  Leads(e, u, N \o Queue(c, m).write_q, Pass(e, v, Sealed(c, m)))
<1> DEFINE x == Sealed(c, m)
<1>1. x.key = c.send_cipher.key /\ x.nonce = Nonce(c.send_cipher, c.send_seq) /\ x.m = m
  BY DEF Sealed
<1> HIDE DEF x
<1>2. Fits(e, v, x)
  BY <1>1 DEF Fits
<1>3. Queue(c, m).write_q = Append(c.write_q, x)
  BY QueueDoes DEF x
<1>4. IsSeq(N \o c.write_q) /\ N \o Append(c.write_q, x) = Append(N \o c.write_q, x)
  BY ConcatElems DEF Shape
<1> QED
  BY <1>2, <1>3, <1>4, LeadsAppend DEF x

\* queue_msg outside the exchange.
LEMMA QueueHalf ==
  ASSUME NEW e \in Ends, NEW c, NEW N, IsSeq(N), NEW u, NEW m,
         Suite(e) \in {"chacha"} \union Gcm, Half(e, c, N, u),
         m.t \notin KexMsgs \union {"IDENT"}
  PROVE  /\ Half(e, Queue(c, m), N, u) /\ SameKex(c, Queue(c, m))
         /\ ReadPlace(Queue(c, m)) = ReadPlace(c)
<1> DEFINE d == Queue(c, m)
           v == SendPlace(e, c)
<1>1. /\ Shape(d) /\ d.send_cipher = IncIv(c.send_cipher)
      /\ d.send_seq = Inc(c.send_seq) /\ d.packets_io = Inc(c.packets_io)
      /\ \A f \in Fields \ QueueTouches : d[f] = c[f]
  BY QueueDoes DEF Half
<1>2. Leads(e, u, N \o d.write_q, Pass(e, v, Sealed(c, m)))
  <2>1. v.ci = c.send_cipher /\ v.sq = c.send_seq
    BY PlaceParts DEF SendPlace
  <2> HIDE DEF v
  <2> QED
    BY <2>1, QueueLeads DEF Half, v
<1>3. SameKex(c, d) /\ d.kex_blocks_app = c.kex_blocks_app
      /\ d.recv_cipher = c.recv_cipher /\ d.recv_seq = c.recv_seq
  BY <1>1 DEF SameKex, Fields, QueueTouches
<1>4. v.k \in Nat /\ Numbers(c)
  BY Phases DEF Half, IsPlace, Local
<1>5. Nonces(e, d, v.k)
  BY <1>4, QueueNonces DEF Half, Numbers
<1> HIDE DEF d
<1>6. Numbers(d)
  BY <1>1, <1>3, <1>4, IncNumber DEF Numbers
<1>7. (c.kex # None => c.kex_blocks_app) /\ (Fresh(c) => c.recv_cipher = Clear)
  BY DEF Half, Local, KexLocal
<1>8. /\ Local(e, d)
      /\ ReadPlace(d) = Place(d.recv_cipher, d.recv_seq, ReadPlace(c).k, ReadPlace(c).j)
      /\ SendPlace(e, d) = Place(d.send_cipher, d.send_seq, v.k, v.j)
  BY <1>3, <1>6, <1>7, LocalSame DEF Half
<1>9. ReadPlace(d) = ReadPlace(c)
  BY <1>3, <1>8, PlaceParts DEF ReadPlace
<1>10. Pass(e, v, Sealed(c, m)) = SendPlace(e, d)
  <2>1. Sealed(c, m).m = m /\ v.ci = c.send_cipher /\ v.sq = c.send_seq
    BY PlaceParts DEF Sealed, SendPlace
  <2> HIDE DEF v
  <2> QED
    BY <1>1, <1>8, <2>1 DEF Pass, KexMsgs
<1>11. SendPlace(e, d).k = v.k
  BY <1>8, PlaceParts
<1> QED
  BY <1>1, <1>2, <1>3, <1>5, <1>8, <1>9, <1>10, <1>11 DEF Half, d

\* What was sent and how it was sealed.
SameSent(c, d) ==
  /\ d.send_cipher = c.send_cipher /\ d.send_seq = c.send_seq
  /\ d.used = c.used /\ d.reused = c.reused

\* Nonces depend on nothing else.
LEMMA NoncesSame ==
  ASSUME NEW e, NEW c, NEW d, NEW k, SameSent(c, d), Nonces(e, c, k)
  PROVE  Nonces(e, d, k)
<1>1. Exhausted(c) => Exhausted(d)
  BY DEF Exhausted, SameSent
<1>2. Stretch(c, c.send_cipher.key) => Stretch(d, d.send_cipher.key)
  BY DEF Stretch, SameSent
<1>3. d.send_cipher = c.send_cipher /\ d.used = c.used /\ d.reused = c.reused
  BY DEF SameSent
<1> QED
  BY <1>1, <1>2, <1>3 DEF Nonces

\* A change of a side beside the exchange and its keys.
LEMMA StayHalf ==
  ASSUME NEW e, NEW c, NEW d, NEW N, NEW u, Half(e, c, N, u), Shape(d),
         SameKex(c, d), SameSent(c, d), d.write_q = c.write_q, Numbers(d),
         c.kex # None => d.kex_blocks_app,
         Fresh(c) => d.recv_cipher = Clear
  PROVE  /\ Half(e, d, N, u)
         /\ ReadPlace(d) = Place(d.recv_cipher, d.recv_seq, ReadPlace(c).k, ReadPlace(c).j)
<1>1. /\ Local(e, d)
      /\ ReadPlace(d) = Place(d.recv_cipher, d.recv_seq, ReadPlace(c).k, ReadPlace(c).j)
      /\ SendPlace(e, d) = Place(d.send_cipher, d.send_seq,
                                 SendPlace(e, c).k, SendPlace(e, c).j)
  BY LocalSame DEF Half
<1>2. SendPlace(e, d) = SendPlace(e, c)
  BY <1>1, PlaceParts DEF SendPlace, SameSent
<1>3. Nonces(e, d, SendPlace(e, d).k)
  BY <1>2, NoncesSame DEF Half
<1> QED
  BY <1>1, <1>2, <1>3 DEF Half

\* What try_one_packet does before the handler runs.
Received(c, x) ==
  [c EXCEPT !.recv_cipher = IncIv(@), !.packets_io = Inc(@),
            !.recv_seq = IF x.m.t = "NEWKEYS" /\ c.strict_kex THEN 0 ELSE Inc(@)]

\* It moves the reading place by one number, and nothing else.
LEMMA ReceivedHalf ==
  ASSUME NEW e \in Ends, NEW c, NEW N, NEW u, Half(e, c, N, u), NEW x
  PROVE  LET r == Received(c, x)
         IN /\ Half(e, r, N, u) /\ SameKex(c, r) /\ r.write_q = c.write_q
            /\ r.recv_seq = IF x.m.t = "NEWKEYS" /\ c.strict_kex THEN 0 ELSE Inc(c.recv_seq)
            /\ \A f \in Fields \ {"recv_cipher", "packets_io", "recv_seq"} : r[f] = c[f]
            /\ ReadPlace(r) = Place(IncIv(c.recv_cipher), r.recv_seq,
                                    ReadPlace(c).k, ReadPlace(c).j)
<1> DEFINE r == Received(c, x)
           q == IF x.m.t = "NEWKEYS" /\ c.strict_kex THEN 0 ELSE Inc(c.recv_seq)
<1>1. /\ DOMAIN r = Fields /\ r.recv_cipher = IncIv(c.recv_cipher)
      /\ r.packets_io = Inc(c.packets_io) /\ r.recv_seq = q
      /\ \A f \in Fields \ {"recv_cipher", "packets_io", "recv_seq"} : r[f] = c[f]
  BY DEF Received, Half, Shape, Fields
<1>2. Numbers(c) /\ (c.kex # None => c.kex_blocks_app) /\ (Fresh(c) => c.recv_cipher = Clear)
  BY DEF Half, Local, KexLocal
<1>3. q \in 0 .. SeqSpace - 1 /\ Inc(c.packets_io) \in 0 .. SeqSpace - 1
  BY <1>2, IncNumber DEF Numbers
<1> HIDE DEF r, q
<1>4. /\ SameKex(c, r) /\ SameSent(c, r) /\ r.write_q = c.write_q
      /\ r.kex_blocks_app = c.kex_blocks_app
  BY <1>1 DEF SameKex, SameSent, Fields
<1>5. Shape(r)
  BY <1>1, <1>4 DEF Half, Shape, SameSent
<1>6. Numbers(r)
  BY <1>1, <1>2, <1>3, <1>4 DEF Numbers, SameSent
<1>7. IncIv(Clear) = Clear
  BY DEF IncIv, Clear, Gcm
<1>8. /\ Half(e, r, N, u)
      /\ ReadPlace(r) = Place(r.recv_cipher, r.recv_seq, ReadPlace(c).k, ReadPlace(c).j)
  BY <1>1, <1>2, <1>4, <1>5, <1>6, <1>7, StayHalf
<1> QED
  BY <1>1, <1>4, <1>8 DEF r, q

\* start_kex, when no exchange is under way.
LEMMA StartKexHalf ==
  ASSUME NEW e \in Ends, NEW c, NEW N, IsSeq(N), NEW u,
         Suite(e) \in {"chacha"} \union Gcm, Half(e, c, N, u), c.kex = None
  PROVE  LET d == StartKex(e, c)
         IN /\ Half(e, d, N, u) /\ ReadPlace(d) = ReadPlace(c)
            /\ d.write_q = Append(c.write_q, Sealed(c, KexInit(e, c.kexes)))
            /\ d.kexes = c.kexes + 1 /\ d.kex # None /\ d.kex.theirs = None
            /\ d.authed = c.authed /\ d.error = c.error
            /\ d.ident_in_done = c.ident_in_done
            /\ d.strict_kex = c.strict_kex /\ d.first_kex_done = c.first_kex_done
<1> DEFINE m == KexInit(e, c.kexes)
           q == Queue(c, m)
           k == [ours |-> m, theirs |-> None, c2s |-> "", s2c |-> "",
                 secret |-> IF e = "client" THEN <<c.kexes>> ELSE None]
           d == StartKex(e, c)
           v == SendPlace(e, c)
<1>1. /\ Shape(c) /\ Local(e, c) /\ c.kexes \in Nat /\ c.kexes > 0
      /\ c.pending_keys = None /\ c.first_kex_done /\ ~Fresh(c)
      /\ c.ident_in_done /\ c.session_id = Sid
      /\ (c.strict_kex <=> client.strict) /\ Numbers(c)
  BY DEF Half, Local, Fresh
<1> HIDE DEF m
<1>2. /\ Shape(q) /\ q.send_cipher = IncIv(c.send_cipher)
      /\ q.send_seq = Inc(c.send_seq) /\ q.packets_io = Inc(c.packets_io)
      /\ q.write_q = Append(c.write_q, Sealed(c, m))
      /\ \A f \in Fields \ QueueTouches : q[f] = c[f]
  <2>1. Shape(c)
    BY <1>1
  <2> QED
    BY <2>1, QueueDoes
<1>3. /\ m.t = "KEXINIT" /\ m # None /\ m = KexMsg(e, c.kexes, 0)
      /\ \A x : x.m = m => x.m.t \in KexMsgs /\ x.m.t \notin {"IDENT", "NEWKEYS"}
  BY RecordNotNone DEF KexInit, KexMsg, KexMsgs, m
<1>4. /\ DOMAIN k = {"ours", "theirs", "c2s", "s2c", "secret"} /\ k # None
      /\ k.ours = m /\ k.theirs = None
      /\ k.secret = IF e = "client" THEN <<c.kexes>> ELSE None
  BY RecordNotNone
<1>5. v.ci = c.send_cipher /\ v.sq = c.send_seq /\ v.k = c.kexes /\ v.j = 0
  BY <1>1, PlaceParts DEF SendPlace
<1> HIDE DEF v
<1>6. Leads(e, u, N \o q.write_q, Pass(e, v, Sealed(c, m)))
  BY <1>1, <1>3, <1>5, QueueLeads DEF Half, KexMsgs, v
<1>7. Pass(e, v, Sealed(c, m)) = Place(q.send_cipher, q.send_seq, c.kexes, 1)
  <2>1. Sealed(c, m).m = m
    BY DEF Sealed
  <2> QED
    BY <1>2, <1>3, <1>5, <2>1 DEF Pass
<1>8. Nonces(e, q, c.kexes)
  BY <1>1, <1>5, QueueNonces DEF Half, Numbers, v
<1>9. d = [q EXCEPT !.kexes = @ + 1, !.sent_kexinit = TRUE,
                    !.sent_newkeys = FALSE, !.recv_newkeys = FALSE,
                    !.kex_blocks_app = TRUE, !.kex = k]
  BY DEF StartKex, m
<1> HIDE DEF q, k, d
<1>10. /\ DOMAIN d = Fields /\ d.kexes = q.kexes + 1 /\ d.sent_kexinit = TRUE
       /\ d.sent_newkeys = FALSE /\ d.recv_newkeys = FALSE
       /\ d.kex_blocks_app = TRUE /\ d.kex = k
       /\ \A f \in Fields \ {"kexes", "sent_kexinit", "sent_newkeys",
                             "recv_newkeys", "kex_blocks_app", "kex"} : d[f] = q[f]
  BY <1>2, <1>9 DEF Shape, Fields
<1>11. /\ q.kexes = c.kexes /\ q.pending_keys = None
        /\ q.session_id = Sid /\ q.strict_kex = c.strict_kex
        /\ q.first_kex_done = c.first_kex_done /\ q.ident_in_done = c.ident_in_done
        /\ q.recv_cipher = c.recv_cipher /\ q.recv_seq = c.recv_seq
        /\ q.authed = c.authed /\ q.error = c.error
  BY <1>1, <1>2 DEF Fields, QueueTouches
<1>12. SameSent(q, d) /\ d.write_q = q.write_q /\ d.packets_io = q.packets_io
  BY <1>10 DEF SameSent, Fields
<1>13. /\ d.kexes = c.kexes + 1 /\ d.pending_keys = None
       /\ d.session_id = Sid /\ d.strict_kex = c.strict_kex
       /\ d.first_kex_done = c.first_kex_done /\ d.ident_in_done = c.ident_in_done
       /\ d.recv_cipher = c.recv_cipher /\ d.recv_seq = c.recv_seq
       /\ d.authed = c.authed /\ d.error = c.error
  BY <1>10, <1>11 DEF Fields
<1>14. Shape(d)
  BY <1>2, <1>10, <1>12, <1>13 DEF Shape, SameSent
<1>15. Numbers(d)
  <2>1. Inc(c.send_seq) \in 0 .. SeqSpace - 1 /\ Inc(c.packets_io) \in 0 .. SeqSpace - 1
    BY <1>1, IncNumber DEF Numbers
  <2> QED
    BY <1>1, <1>2, <1>12, <1>13, <2>1 DEF Numbers, SameSent
<1>16. KexLocal(e, d)
  <2>1. d.kexes - 1 = c.kexes
    BY <1>1, <1>12, <1>13
  <2> QED
    BY <1>4, <1>10, <1>12, <1>13, <2>1 DEF KexLocal, m
<1>17. Local(e, d)
  <2>1. ~Fresh(d) /\ d.kexes \in Nat \ {0} /\ d.kex # None
    BY <1>1, <1>4, <1>10, <1>12, <1>13 DEF Fresh
  <2> QED
    BY <1>1, <1>10, <1>12, <1>13, <1>15, <1>16, <2>1 DEF Local
<1>18. ReadPlace(d) = ReadPlace(c)
  <2>1. d.kexes - 1 = c.kexes /\ d.kex # None /\ d.kex.theirs = None
    BY <1>1, <1>4, <1>10, <1>12, <1>13
  <2> QED
    BY <1>1, <1>12, <1>13, <2>1 DEF ReadPlace
<1>19. SendPlace(e, d) = Place(q.send_cipher, q.send_seq, c.kexes, 1)
  <2>1. d.kexes - 1 = c.kexes /\ d.kex # None /\ d.kex.theirs = None
    BY <1>1, <1>4, <1>10, <1>12, <1>13
  <2> QED
    BY <1>12, <1>13, <2>1 DEF SendPlace, SameSent
<1>20. Nonces(e, d, SendPlace(e, d).k)
  BY <1>8, <1>12, <1>13, <1>19, NoncesSame, PlaceParts
<1>21. Half(e, d, N, u)
  BY <1>6, <1>7, <1>12, <1>13, <1>14, <1>17, <1>19, <1>20 DEF Half
<1> QED
  BY <1>2, <1>4, <1>10, <1>12, <1>13, <1>18, <1>21 DEF d, m

\* What stays the same throughout an exchange.
SameRest(c, d) ==
  /\ d.authed = c.authed /\ d.error = c.error /\ d.closed = c.closed
  /\ d.kexes = c.kexes /\ d.ident_in_done = c.ident_in_done

\* Both sides take the same cipher of the server's.
LEMMA SuiteFacts ==
  ASSUME Agreed, client \in Clients
  PROVE  /\ Suite("client") \in {"chacha"} \union Gcm
         /\ Suite("server") \in {"chacha"} \union Gcm
         /\ Suite("client") # "no match" /\ Suite("server") # "no match"
         /\ CipherFor("client", client.c2s, ServerCiphers) = Suite("client")
         /\ CipherFor("client", client.s2c, ServerCiphers) = Suite("server")
         /\ client.strict \in BOOLEAN
<1>1. client.strict \in BOOLEAN
  BY TransportAssumptions
<1>2. \A e : Suite(e) = CipherFor("server", ServerCiphers,
                      IF e = "client" THEN client.c2s ELSE client.s2c)
  BY DEF Suite
<1>3. "no match" \notin {"chacha"} \union Gcm
  BY DEF Gcm
<1> QED
  BY <1>1, <1>2, <1>3 DEF Agreed

\* What the two sides' KEXINIT say.
LEMMA KexInitParts ==
  \A k : LET a == KexInit("client", k)
             b == KexInit("server", k)
         IN /\ a.t = "KEXINIT" /\ a.cookie = k
            /\ a.enc_c2s = client.c2s /\ a.enc_s2c = client.s2c
            /\ a.strict <=> client.strict
            /\ b.t = "KEXINIT" /\ b.cookie = k
            /\ b.enc_c2s = ServerCiphers /\ b.enc_s2c = ServerCiphers
            /\ b.strict
  BY DEF KexInit

\* on_kexinit, when an exchange was asked for.
LEMMA OnKexinitHalf ==
  ASSUME NEW e \in Ends, NEW c, NEW N, IsSeq(N), NEW u, Half(e, c, N, u),
         Agreed, client \in Clients, c.kex # None, c.kex.theirs = None,
         c.ident_in_done, NEW m, m = KexInit(Peer(e), c.kexes - 1)
  PROVE  LET d == OnKexinit(e, c, m)
         IN /\ Half(e, d, N, u) /\ SameRest(c, d) /\ d.kex # None /\ d.kex.theirs # None
            /\ ReadPlace(d) = Place(c.recv_cipher, c.recv_seq, c.kexes - 1, 1)
            /\ e = "server" => d.write_q = c.write_q
            /\ e = "client" => \E x : /\ x.m.t = "ECDH_INIT"
                                      /\ d.write_q = Append(c.write_q, x)
<1> DEFINE k == c.kexes - 1
           s1 == Suite("client")
           s2 == Suite("server")
           kx == [c.kex EXCEPT !.theirs = m, !.c2s = s1, !.s2c = s2]
           st == c.strict_kex \/ (m.strict /\ c.kex.ours.strict)
           n == [c EXCEPT !.kex = kx, !.strict_kex = st, !.peer_ext_info = m.ext]
           v == SendPlace(e, c)
           i == [t |-> "ECDH_INIT", q_c |-> n.kex.secret]
           d == OnKexinit(e, c, m)
<1>1. /\ Shape(c) /\ Local(e, c) /\ KexLocal(e, c) /\ k \in Nat /\ c.kexes \in Nat
      /\ c.pending_keys = None /\ v.k = k /\ v.j = 1
      /\ ReadPlace(c).k = k /\ ReadPlace(c).j = 0
  BY Phases DEF Half
<1>2. /\ Suite(e) \in {"chacha"} \union Gcm
      /\ s1 # "no match" /\ s2 # "no match" /\ client.strict \in BOOLEAN
  BY SuiteFacts DEF Ends
<1>3. c.kex.ours = KexInit(e, k) /\ m # None
  BY <1>1, RecordNotNone DEF KexLocal
<1>4. /\ CipherFor(e, c.kex.ours.enc_c2s, m.enc_c2s) = s1
      /\ CipherFor(e, c.kex.ours.enc_s2c, m.enc_s2c) = s2
      /\ (m.strict /\ c.kex.ours.strict) <=> client.strict
  <2>1. CASE e = "client"
    <3>1. /\ c.kex.ours.enc_c2s = client.c2s /\ c.kex.ours.enc_s2c = client.s2c
          /\ m.enc_c2s = ServerCiphers /\ m.enc_s2c = ServerCiphers
          /\ m.strict /\ (c.kex.ours.strict <=> client.strict)
      BY <1>3, <2>1, KexInitParts DEF Peer
    <3> QED
      BY <1>2, <2>1, <3>1, SuiteFacts
  <2>2. CASE e = "server"
    <3>1. /\ m.enc_c2s = client.c2s /\ m.enc_s2c = client.s2c
          /\ (m.strict <=> client.strict) /\ c.kex.ours.strict
          /\ c.kex.ours.enc_c2s = ServerCiphers /\ c.kex.ours.enc_s2c = ServerCiphers
      BY <1>3, <2>2, KexInitParts DEF Peer
    <3>2. /\ Suite("client") = CipherFor("server", ServerCiphers, client.c2s)
          /\ Suite("server") = CipherFor("server", ServerCiphers, client.s2c)
      BY DEF Suite
    <3> QED
      BY <1>2, <2>2, <3>1, <3>2
  <2> QED
    BY <2>1, <2>2 DEF Ends
<1>5. d = IF e = "client" THEN Queue(n, i) ELSE n
  <2> DEFINE a == CipherFor(e, c.kex.ours.enc_c2s, m.enc_c2s)
             b == CipherFor(e, c.kex.ours.enc_s2c, m.enc_s2c)
             z == [c EXCEPT !.kex.theirs = m, !.kex.c2s = a, !.kex.s2c = b,
                            !.strict_kex = @ \/ (m.strict /\ c.kex.ours.strict),
                            !.peer_ext_info = m.ext]
  <2>1. d = IF "no match" \in {a, b} THEN Fail(c, "protocol")
            ELSE IF e = "client"
              THEN Queue(z, [t |-> "ECDH_INIT", q_c |-> z.kex.secret]) ELSE z
    BY DEF OnKexinit
  <2>2. a = s1 /\ b = s2
    BY <1>4
  <2> HIDE DEF a, b, s1, s2
  <2>3. z = n
    BY <1>1, <2>2 DEF Shape, Fields, KexLocal
  <2> HIDE DEF z, n
  <2> QED
    BY <1>2, <2>1, <2>2, <2>3
<1> HIDE DEF d, k, v, s1, s2, st
<1>6. /\ DOMAIN kx = {"ours", "theirs", "c2s", "s2c", "secret"}
      /\ kx.ours = c.kex.ours /\ kx.theirs = m /\ kx.c2s = s1 /\ kx.s2c = s2
      /\ kx.secret = c.kex.secret
  BY <1>1 DEF KexLocal
<1> HIDE DEF kx
<1>7. /\ DOMAIN n = Fields /\ n.kex = kx /\ n.strict_kex = st
      /\ \A f \in Fields \ {"kex", "strict_kex", "peer_ext_info"} : n[f] = c[f]
  BY <1>1 DEF Shape, Fields
<1> HIDE DEF n
<1>8. /\ SameSent(c, n) /\ SameRest(c, n) /\ n.write_q = c.write_q
      /\ n.pending_keys = None /\ n.session_id = c.session_id
      /\ n.sent_kexinit = c.sent_kexinit /\ n.sent_newkeys = c.sent_newkeys
      /\ n.recv_newkeys = c.recv_newkeys /\ n.first_kex_done = c.first_kex_done
      /\ n.recv_cipher = c.recv_cipher /\ n.recv_seq = c.recv_seq
      /\ n.packets_io = c.packets_io /\ n.kex_blocks_app = c.kex_blocks_app
  BY <1>1, <1>7 DEF SameSent, SameRest, Fields
<1>9. Shape(n) /\ n.kex # None /\ n.kex.theirs = m
  BY <1>1, <1>6, <1>7, <1>8, RecordNotNone DEF Shape, SameSent
<1>10. KexLocal(e, n)
  <2>1. n.kexes = c.kexes
    BY <1>8 DEF SameRest
  <2> QED
    BY <1>1, <1>3, <1>6, <1>7, <1>8, <2>1 DEF KexLocal, s1, s2
<1>11. Local(e, n)
  <2>1. n.kexes = c.kexes /\ (Fresh(n) <=> Fresh(c)) /\ n.ident_in_done
    BY <1>8, <1>9 DEF SameRest, Fresh
  <2>2. Numbers(n)
    BY <1>1, <1>8 DEF Local, Numbers, SameSent
  <2>3. n.strict_kex <=> client.strict
    <3>1. c.strict_kex => client.strict
      BY <1>1 DEF Local
    <3> QED
      BY <1>4, <1>7, <3>1 DEF st
  <2>4. /\ n.kexes \in Nat \ {0} /\ (n.sent_kexinit <=> n.kex # None)
        /\ (n.first_kex_done <=> ~Fresh(n))
        /\ n.session_id = (IF Fresh(n) /\ n.pending_keys = None THEN None ELSE Sid)
        /\ (Fresh(n) => n.recv_cipher = Clear)
    BY <1>1, <1>8, <1>9, <2>1 DEF Local
  <2>5. ~(Fresh(n) /\ n.kex.theirs = None)
    BY <1>3, <1>9
  <2> QED
    BY <1>9, <1>10, <2>1, <2>2, <2>3, <2>4, <2>5 DEF Local
<1>12. v.ci = n.send_cipher /\ v.sq = n.send_seq
  BY <1>8, PlaceParts DEF v, SendPlace, SameSent
<1>13. Leads(e, u, N \o n.write_q, v) /\ Nonces(e, n, k)
  BY <1>1, <1>8, NoncesSame DEF Half, v
<1>14. ReadPlace(n) = Place(c.recv_cipher, c.recv_seq, k, 1)
  BY <1>3, <1>8, <1>9 DEF ReadPlace, SameRest, k
<1>15. CASE e = "server"
  <2>1. SendPlace(e, n) = v
    BY <1>1, <1>8, <1>9, <1>15 DEF SendPlace, SameRest, SameSent, v, k
  <2>2. Half(e, n, N, u)
    BY <1>1, <1>9, <1>11, <1>13, <2>1 DEF Half
  <2> QED
    BY <1>3, <1>5, <1>8, <1>9, <1>14, <1>15, <2>2 DEF d, k
<1>16. CASE e = "client"
  <2>1. SendPlace(e, n) = Place(n.send_cipher, n.send_seq, k, 2)
    BY <1>3, <1>8, <1>9, <1>16 DEF SendPlace, SameRest, k
  <2>2. i = KexMsg(e, k, 1) /\ i.t = "ECDH_INIT"
    <3>1. n.kex.secret = <<k>>
      BY <1>1, <1>6, <1>7, <1>16 DEF KexLocal, k
    <3> QED
      BY <1>16, <3>1 DEF KexMsg
  <2> HIDE DEF i
  <2> DEFINE q == Queue(n, i)
  <2>3. Leads(e, u, N \o q.write_q, Pass(e, v, Sealed(n, i)))
    BY <1>1, <1>9, <1>12, <1>13, <2>2, QueueLeads DEF KexMsgs
  <2>4. /\ Shape(q) /\ q.send_cipher = IncIv(n.send_cipher)
        /\ q.send_seq = Inc(n.send_seq) /\ q.packets_io = Inc(n.packets_io)
        /\ q.write_q = Append(n.write_q, Sealed(n, i))
        /\ \A f \in Fields \ QueueTouches : q[f] = n[f]
    <3>1. Shape(n)
      BY <1>9
    <3>2. Shape(q) /\ q.send_cipher = IncIv(n.send_cipher)
      BY <3>1, QueueDoes
    <3>3. q.send_seq = Inc(n.send_seq) /\ q.packets_io = Inc(n.packets_io)
      BY <3>1, QueueCounts
    <3>4. q.write_q = Append(n.write_q, Sealed(n, i))
      BY <3>1, QueueFields DEF Sealed
    <3>5. \A f \in Fields \ QueueTouches : q[f] = n[f]
      BY <3>1, QueueDoes
    <3> QED
      BY <3>2, <3>3, <3>4, <3>5
  <2>5. n.send_seq \in 0 .. SeqSpace - 1
    BY <1>11 DEF Local, Numbers
  <2>6. Nonces(e, q, k)
    BY <1>1, <1>2, <1>9, <1>13, <2>5, QueueNonces
  <2> HIDE DEF q
  <2>7. /\ SameKex(n, q) /\ SameRest(n, q) /\ q.kex_blocks_app = n.kex_blocks_app
        /\ q.recv_cipher = n.recv_cipher /\ q.recv_seq = n.recv_seq
    BY <2>4 DEF SameKex, SameRest, Fields, QueueTouches
  <2>8. Numbers(q)
    <3>1. Numbers(n)
      BY <1>11 DEF Local
    <3>2. Inc(n.send_seq) \in 0 .. SeqSpace - 1 /\ Inc(n.packets_io) \in 0 .. SeqSpace - 1
      BY <3>1, IncNumber DEF Numbers
    <3> QED
      BY <2>4, <2>7, <3>1, <3>2 DEF Numbers
  <2>9. (n.kex # None => q.kex_blocks_app) /\ (Fresh(n) => q.recv_cipher = Clear)
    BY <1>10, <1>11, <2>7 DEF KexLocal, Local
  <2>10. /\ Local(e, q)
         /\ ReadPlace(q) = Place(q.recv_cipher, q.recv_seq, ReadPlace(n).k, ReadPlace(n).j)
         /\ SendPlace(e, q) = Place(q.send_cipher, q.send_seq, k, 2)
    BY <1>11, <2>1, <2>7, <2>8, <2>9, LocalSame, PlaceParts
  <2>11. ReadPlace(q) = Place(c.recv_cipher, c.recv_seq, k, 1)
    BY <1>8, <1>14, <2>7, <2>10, PlaceParts
  <2>12. Sealed(n, i).m.t = "ECDH_INIT"
    BY <2>2 DEF Sealed
  <2>13. Pass(e, v, Sealed(n, i)) = SendPlace(e, q)
    BY <1>1, <1>12, <2>4, <2>10, <2>12 DEF Pass, KexMsgs
  <2>14. Half(e, q, N, u)
    BY <2>3, <2>4, <2>6, <2>10, <2>13, PlaceParts DEF Half
  <2>15. SameRest(c, q) /\ q.kex # None /\ q.kex.theirs # None
    BY <1>3, <1>8, <1>9, <2>7 DEF SameRest, SameKex
  <2>16. d = q /\ q.write_q = Append(c.write_q, Sealed(n, i))
    BY <1>5, <1>8, <1>16, <2>4 DEF q
  <2> QED
    BY <1>16, <2>11, <2>12, <2>14, <2>15, <2>16 DEF d, k
<1> QED
  BY <1>15, <1>16 DEF Ends

\* Exchange k has its keys, and NEWKEYS is about to be sent.
Ready(e, c, k) ==
  /\ Numbers(c) /\ k \in Nat /\ c.kexes = k + 1
  /\ DOMAIN c.kex = {"ours", "theirs", "c2s", "s2c", "secret"}
  /\ c.kex.ours = KexInit(e, k) /\ c.kex.theirs = KexInit(Peer(e), k)
  /\ c.kex.c2s = Suite("client") /\ c.kex.s2c = Suite("server")
  /\ c.pending_keys = [send |-> KeyOf(e, k), recv |-> KeyOf(Peer(e), k)]
  /\ c.session_id = Sid /\ (c.strict_kex <=> client.strict)
  /\ c.sent_kexinit /\ ~c.recv_newkeys /\ c.kex_blocks_app /\ c.ident_in_done
  /\ c.first_kex_done <=> k # 0
  /\ k = 0 => c.recv_cipher = Clear

\* Ready says nothing about what is sealed.
LEMMA ReadySame ==
  ASSUME NEW e, NEW c, NEW d, NEW k, Ready(e, c, k), Numbers(d),
         \A f \in Fields \ QueueTouches : d[f] = c[f]
  PROVE  Ready(e, d, k)
<1>1. /\ d.kexes = c.kexes /\ d.kex = c.kex /\ d.pending_keys = c.pending_keys
      /\ d.session_id = c.session_id /\ d.strict_kex = c.strict_kex
      /\ d.sent_kexinit = c.sent_kexinit /\ d.recv_newkeys = c.recv_newkeys
      /\ d.kex_blocks_app = c.kex_blocks_app /\ d.ident_in_done = c.ident_in_done
      /\ d.first_kex_done = c.first_kex_done /\ d.recv_cipher = c.recv_cipher
  BY DEF Fields, QueueTouches
<1> QED
  BY <1>1 DEF Ready

\* finish_kex: both sides hash the same and derive the same keys.
LEMMA FinishKexReady ==
  ASSUME NEW e \in Ends, NEW c, Shape(c), Local(e, c), c.kex # None,
         c.kex.theirs # None, c.pending_keys = None
  PROVE  LET k == c.kexes - 1
             f == FinishKex(e, c, <<k>>, <<k>>)
         IN /\ Ready(e, f, k) /\ Shape(f) /\ SameSent(c, f) /\ SameRest(c, f)
            /\ f.write_q = c.write_q /\ f.kex = c.kex
            /\ f.recv_cipher = c.recv_cipher /\ f.recv_seq = c.recv_seq
<1> DEFINE k == c.kexes - 1
           f == FinishKex(e, c, <<k>>, <<k>>)
           i_c == IF e = "server" THEN c.kex.theirs ELSE c.kex.ours
           i_s == IF e = "server" THEN c.kex.ours ELSE c.kex.theirs
           h == <<i_c.cookie, i_s.cookie, <<k>>, <<k>>>>
           sid == IF c.session_id = None THEN h ELSE c.session_id
           c2s == MakeKeys(c.kex.c2s, h, sid, "C")
           s2c == MakeKeys(c.kex.s2c, h, sid, "D")
           keys == [send |-> IF e = "server" THEN s2c ELSE c2s,
                    recv |-> IF e = "server" THEN c2s ELSE s2c]
<1>1. f = [c EXCEPT !.session_id = sid, !.pending_keys = keys]
  BY DEF FinishKex
<1> HIDE DEF f, k
<1>2. /\ KexLocal(e, c) /\ k \in Nat /\ c.kexes = k + 1 /\ c.kexes \in Nat
      /\ (Fresh(c) <=> k = 0)
  BY Phases DEF k, Fresh
<1>3. /\ c.kex.ours = KexInit(e, k) /\ c.kex.theirs = KexInit(Peer(e), k)
      /\ c.kex.c2s = Suite("client") /\ c.kex.s2c = Suite("server")
  BY <1>2 DEF KexLocal, k
<1>4. h = Hash(k)
  <2>1. i_c.cookie = k /\ i_s.cookie = k
    BY <1>3, KexInitParts DEF Peer, Ends
  <2> HIDE DEF i_c, i_s
  <2> QED
    BY <2>1 DEF Hash
<1> HIDE DEF h
<1>5. sid = Sid
  <2>1. Sid # None
    BY DEF Sid, Hash, None
  <2>2. c.session_id = IF Fresh(c) THEN None ELSE Sid
    BY DEF Local
  <2> QED
    BY <1>2, <1>4, <2>1, <2>2 DEF Sid
<1> HIDE DEF sid
<1>6. c2s = KeyOf("client", k) /\ s2c = KeyOf("server", k)
  BY <1>3, <1>4, <1>5 DEF KeyOf
<1> HIDE DEF c2s, s2c
<1>7. keys = [send |-> KeyOf(e, k), recv |-> KeyOf(Peer(e), k)]
  BY <1>6 DEF Ends, Peer
<1> HIDE DEF keys
<1>8. /\ DOMAIN f = Fields /\ f.session_id = Sid /\ f.pending_keys = keys
      /\ \A g \in Fields \ {"session_id", "pending_keys"} : f[g] = c[g]
  BY <1>1, <1>5 DEF Shape, Fields
<1>9. /\ SameSent(c, f) /\ SameRest(c, f) /\ f.write_q = c.write_q
      /\ f.kex = c.kex /\ f.strict_kex = c.strict_kex
      /\ f.sent_kexinit = c.sent_kexinit /\ f.recv_newkeys = c.recv_newkeys
      /\ f.kex_blocks_app = c.kex_blocks_app
      /\ f.first_kex_done = c.first_kex_done /\ f.recv_cipher = c.recv_cipher
      /\ f.recv_seq = c.recv_seq /\ f.packets_io = c.packets_io
  BY <1>8 DEF SameSent, SameRest, Fields
<1>10. Shape(f)
  BY <1>8, <1>9 DEF Shape, SameSent
<1>11. Numbers(f) /\ c.ident_in_done
  BY <1>9 DEF Local, Numbers, SameSent
<1>12. /\ DOMAIN c.kex = {"ours", "theirs", "c2s", "s2c", "secret"}
       /\ ~c.recv_newkeys /\ c.kex_blocks_app
  BY <1>2 DEF KexLocal
<1>13. /\ (c.strict_kex <=> client.strict) /\ c.sent_kexinit
       /\ (c.first_kex_done <=> k # 0) /\ (k = 0 => c.recv_cipher = Clear)
  BY <1>2 DEF Local
<1>14. Ready(e, f, k)
  BY <1>2, <1>3, <1>7, <1>8, <1>9, <1>11, <1>12, <1>13 DEF Ready, SameRest
<1> QED
  BY <1>9, <1>10, <1>14 DEF f, k

\* send_newkeys.
LEMMA SendNewkeysHalf ==
  ASSUME NEW e \in Ends, NEW c, NEW N, IsSeq(N), NEW u, NEW k,
         Shape(c), Ready(e, c, k), Nonces(e, c, k),
         Leads(e, u, N \o c.write_q, Place(c.send_cipher, c.send_seq, k, 2)),
         Suite(e) \in {"chacha"} \union Gcm
  PROVE  LET d == SendNewkeys(e, c)
         IN /\ Half(e, d, N, u) /\ SameRest(c, d) /\ d.kex # None /\ d.kex.theirs # None
            /\ ReadPlace(d) = Place(c.recv_cipher, c.recv_seq, k, 2)
            /\ \E x : x.m.t = "NEWKEYS" /\ d.write_q = Append(c.write_q, x)
<1> DEFINE m == Msg("NEWKEYS")
           x == Sealed(c, m)
           q == Queue(c, m)
           v == Place(c.send_cipher, c.send_seq, k, 2)
           z == IF c.strict_kex THEN 0 ELSE Inc(c.send_seq)
           pk == [c.pending_keys EXCEPT !.send = Clear]
           s == [q EXCEPT !.send_cipher = KeyOf(e, k), !.pending_keys = pk,
                          !.sent_newkeys = TRUE, !.send_seq = z]
           d == SendNewkeys(e, c)
<1>1. m.t = "NEWKEYS" /\ m = KexMsg(e, k, 2) /\ x.m = m
  BY DEF Msg, KexMsg, Sealed
<1>2. v.ci = c.send_cipher /\ v.sq = c.send_seq /\ v.k = k /\ v.j = 2
  BY PlaceParts
<1> HIDE DEF m, v
<1>3. Leads(e, u, N \o q.write_q, Pass(e, v, x))
  BY <1>1, <1>2, QueueLeads DEF KexMsgs, v
<1>4. /\ Shape(q) /\ q.send_cipher = IncIv(c.send_cipher)
      /\ q.send_seq = Inc(c.send_seq) /\ q.packets_io = Inc(c.packets_io)
      /\ q.write_q = Append(c.write_q, x)
      /\ \A f \in Fields \ QueueTouches : q[f] = c[f]
  BY QueueDoes
<1>5. Nonces(e, q, k)
  BY QueueNonces DEF Ready, Numbers
<1>6. q.pending_keys = c.pending_keys
  BY <1>4 DEF Fields, QueueTouches
<1>7. /\ c.pending_keys.send = KeyOf(e, k) /\ c.pending_keys.recv = KeyOf(Peer(e), k)
      /\ DOMAIN c.pending_keys = {"send", "recv"} /\ c.pending_keys # None
      /\ pk.recv = KeyOf(Peer(e), k) /\ DOMAIN pk = {"send", "recv"} /\ pk # None
  BY RecordNotNone DEF Ready
<1>8. d = TryCompleteKex(e, s)
  <2> DEFINE w == IF q.pending_keys = None THEN q
                  ELSE [q EXCEPT !.send_cipher = q.pending_keys.send,
                                 !.pending_keys.send = Clear]
             y == [w EXCEPT !.sent_newkeys = TRUE,
                            !.send_seq = IF c.strict_kex THEN 0 ELSE @]
  <2>1. d = TryCompleteKex(e, y)
    BY DEF SendNewkeys, m
  <2>2. w = [q EXCEPT !.send_cipher = KeyOf(e, k), !.pending_keys = pk]
    BY <1>4, <1>6, <1>7 DEF Shape, Fields
  <2> HIDE DEF w
  <2>3. y = s
    BY <1>4, <2>2 DEF Shape, Fields
  <2> QED
    BY <2>1, <2>3
<1> HIDE DEF q, x, z, pk, d
<1>9. /\ DOMAIN s = Fields /\ s.send_cipher = KeyOf(e, k) /\ s.pending_keys = pk
      /\ s.sent_newkeys = TRUE /\ s.send_seq = z
      /\ \A f \in Fields \ {"send_cipher", "pending_keys", "sent_newkeys",
                            "send_seq"} : s[f] = q[f]
  BY <1>4 DEF Shape, Fields
<1> HIDE DEF s
<1>10. Ready(e, q, k)
  <2>1. Numbers(c)
    BY DEF Ready
  <2>2. Inc(c.send_seq) \in 0 .. SeqSpace - 1 /\ Inc(c.packets_io) \in 0 .. SeqSpace - 1
    BY <2>1, IncNumber DEF Numbers
  <2>3. q.recv_seq = c.recv_seq
    BY <1>4 DEF Fields, QueueTouches
  <2>4. Numbers(q)
    BY <1>4, <2>1, <2>2, <2>3 DEF Numbers
  <2> QED
    BY <1>4, <2>4, ReadySame
<1>11. /\ SameRest(q, s) /\ s.write_q = q.write_q /\ s.kex = q.kex
       /\ s.session_id = q.session_id /\ s.strict_kex = q.strict_kex
       /\ s.sent_kexinit = q.sent_kexinit /\ s.recv_newkeys = q.recv_newkeys
       /\ s.kex_blocks_app = q.kex_blocks_app
       /\ s.first_kex_done = q.first_kex_done
       /\ s.recv_cipher = q.recv_cipher /\ s.recv_seq = q.recv_seq
       /\ s.packets_io = q.packets_io /\ s.used = q.used /\ s.reused = q.reused
  BY <1>9 DEF SameRest, Fields
<1>12. /\ SameRest(c, q) /\ q.recv_cipher = c.recv_cipher /\ q.recv_seq = c.recv_seq
       /\ q.strict_kex = c.strict_kex
  BY <1>4 DEF SameRest, Fields, QueueTouches
<1>13. ~s.recv_newkeys
  BY <1>10, <1>11 DEF Ready
<1>14. d = s
  BY <1>8, <1>13 DEF TryCompleteKex
<1>15. z \in 0 .. SeqSpace - 1
  <2>1. Numbers(c)
    BY DEF Ready
  <2> QED
    BY <2>1, IncNumber DEF Numbers, z
<1>16. Shape(s)
  BY <1>4, <1>9, <1>11, KeysDiffer DEF Shape
<1>17. s.kex # None /\ s.kex.theirs # None /\ s.kexes = k + 1 /\ k \in Nat
  <2>1. k \in Nat
    BY DEF Ready
  <2>2. s.kex # None /\ s.kex.theirs # None
    BY <1>10, <1>11, RecordNotNone DEF Ready, SameRest
  <2>3. s.kexes = k + 1
    BY <1>10, <1>11 DEF Ready, SameRest
  <2> QED
    BY <2>1, <2>2, <2>3
<1>18. KexLocal(e, s)
  <2>1. s.kexes - 1 = k
    BY <1>17
  <2> QED
    BY <1>7, <1>9, <1>10, <1>11, <1>17, <2>1 DEF KexLocal, Ready
<1>19. Local(e, s)
  <2>1. Numbers(s)
    BY <1>9, <1>10, <1>11, <1>15 DEF Numbers, Ready
  <2>2. Fresh(s) <=> k = 0
    BY <1>17 DEF Fresh
  <2>3. s.ident_in_done
    BY <1>10, <1>11 DEF Ready, SameRest
  <2>4. /\ s.sent_kexinit /\ s.session_id = Sid /\ (s.strict_kex <=> client.strict)
        /\ (s.first_kex_done <=> k # 0) /\ (k = 0 => s.recv_cipher = Clear)
    BY <1>10, <1>11 DEF Ready
  <2>5. s.kexes \in Nat \ {0} /\ s.pending_keys # None
    BY <1>7, <1>9, <1>17
  <2> QED
    BY <1>17, <1>18, <2>1, <2>2, <2>3, <2>4, <2>5 DEF Local
<1>20. ReadPlace(s) = Place(c.recv_cipher, c.recv_seq, k, 2)
  <2>1. s.kexes - 1 = k /\ s.pending_keys # None
    BY <1>7, <1>9, <1>17
  <2> QED
    BY <1>11, <1>12, <1>17, <2>1 DEF ReadPlace
<1>21. SendPlace(e, s) = Place(KeyOf(e, k), z, k + 1, 0)
  <2>1. s.pending_keys # None
    BY <1>7, <1>9
  <2> QED
    BY <1>9, <1>17, <2>1 DEF SendPlace
<1>22. Pass(e, v, x) = SendPlace(e, s)
  <2>1. c.strict_kex <=> client.strict
    BY DEF Ready
  <2> QED
    BY <1>1, <1>2, <1>21, <2>1 DEF Pass, z
<1>23. Nonces(e, s, k + 1)
  BY <1>5, <1>9, <1>11, <1>15, <1>17, SwitchNonces
<1>24. Half(e, s, N, u)
  BY <1>3, <1>11, <1>16, <1>19, <1>21, <1>22, <1>23, PlaceParts DEF Half
<1>25. SameRest(c, s) /\ s.write_q = Append(c.write_q, x) /\ x.m.t = "NEWKEYS"
  BY <1>1, <1>4, <1>11, <1>12 DEF SameRest
<1> QED
  BY <1>14, <1>17, <1>20, <1>24, <1>25 DEF d

\* c has sent the server's share, and NEWKEYS behind it.
Replies(c, d) == \E x, y : /\ x.m.t = "ECDH_REPLY" /\ y.m.t = "NEWKEYS"
                           /\ d.write_q = Append(Append(c.write_q, x), y)

\* on_ecdh_init, after the client's KEXINIT.
LEMMA OnEcdhInitHalf ==
  ASSUME NEW c, NEW N, IsSeq(N), NEW u, Half("server", c, N, u),
         Suite("server") \in {"chacha"} \union Gcm,
         c.kex # None, c.kex.theirs # None, c.pending_keys = None,
         NEW m, m.q_c = <<c.kexes - 1>>
  PROVE  LET d == OnEcdhInit("server", c, m)
         IN /\ Half("server", d, N, u) /\ SameRest(c, d)
            /\ d.kex # None /\ d.kex.theirs # None
            /\ ReadPlace(d) = Place(c.recv_cipher, c.recv_seq, c.kexes - 1, 2)
            /\ Replies(c, d)
<1> DEFINE e == "server"
           k == c.kexes - 1
           f == FinishKex(e, c, <<k>>, <<k>>)
           r == [t |-> "ECDH_REPLY", q_s |-> <<k>>]
           g == Queue(f, r)
           v == SendPlace(e, c)
<1>1. /\ Shape(c) /\ Local(e, c) /\ KexLocal(e, c) /\ k \in Nat
      /\ v.k = k /\ v.j = 1 /\ e \in Ends
  BY Phases DEF Half, Ends
<1>2. c.kex.ours.cookie = k
  <2>1. c.kex.ours = KexInit("server", k)
    BY <1>1 DEF KexLocal
  <2> QED
    BY <2>1, KexInitParts
<1> HIDE DEF k
<1>3. OnEcdhInit(e, c, m) = SendNewkeys(e, g)
  BY <1>2 DEF OnEcdhInit, k
<1>4. /\ Ready(e, f, k) /\ Shape(f) /\ SameSent(c, f) /\ SameRest(c, f)
      /\ f.write_q = c.write_q
      /\ f.recv_cipher = c.recv_cipher /\ f.recv_seq = c.recv_seq
  BY <1>1, FinishKexReady DEF k
<1>5. r.t = "ECDH_REPLY" /\ r = KexMsg(e, k, 1)
  BY DEF KexMsg
<1> HIDE DEF f, r, v
<1>6. v.ci = f.send_cipher /\ v.sq = f.send_seq
  BY <1>4, PlaceParts DEF v, SendPlace, SameSent
<1>7. Leads(e, u, N \o f.write_q, v) /\ Nonces(e, f, k)
  BY <1>1, <1>4, NoncesSame DEF Half, v
<1>8. Leads(e, u, N \o g.write_q, Pass(e, v, Sealed(f, r)))
  BY <1>1, <1>4, <1>5, <1>6, <1>7, QueueLeads DEF KexMsgs
<1>9. /\ Shape(g) /\ g.send_cipher = IncIv(f.send_cipher)
      /\ g.send_seq = Inc(f.send_seq) /\ g.packets_io = Inc(f.packets_io)
      /\ g.write_q = Append(f.write_q, Sealed(f, r))
      /\ \A z \in Fields \ QueueTouches : g[z] = f[z]
  <2>1. Shape(f)
    BY <1>4
  <2>2. Shape(g) /\ g.send_cipher = IncIv(f.send_cipher)
    BY <2>1, QueueDoes
  <2>3. g.send_seq = Inc(f.send_seq) /\ g.packets_io = Inc(f.packets_io)
    BY <2>1, QueueCounts
  <2>4. g.write_q = Append(f.write_q, Sealed(f, r))
    BY Zenon, <2>1, QueueDoes
  <2>5. \A z \in Fields \ QueueTouches : g[z] = f[z]
    BY <2>1, QueueDoes
  <2> QED
    BY <2>2, <2>3, <2>4, <2>5
<1>10. Numbers(f)
  BY <1>4 DEF Ready
<1>11. Nonces(e, g, k)
  BY <1>1, <1>4, <1>7, <1>10, QueueNonces DEF Numbers
<1> HIDE DEF g
<1>12. SameRest(f, g) /\ g.recv_cipher = f.recv_cipher /\ g.recv_seq = f.recv_seq
  BY <1>9 DEF SameRest, Fields, QueueTouches
<1>13. Ready(e, g, k)
  <2>1. Inc(f.send_seq) \in 0 .. SeqSpace - 1 /\ Inc(f.packets_io) \in 0 .. SeqSpace - 1
    BY <1>10, IncNumber DEF Numbers
  <2>2. Numbers(g)
    BY <1>9, <1>10, <1>12, <2>1 DEF Numbers
  <2> QED
    BY <1>4, <1>9, <2>2, ReadySame
<1>14. Sealed(f, r).m.t = "ECDH_REPLY"
  BY <1>5 DEF Sealed
<1>15. Pass(e, v, Sealed(f, r)) = Place(g.send_cipher, g.send_seq, k, 2)
  BY <1>1, <1>6, <1>9, <1>14 DEF Pass, KexMsgs
<1> DEFINE d == SendNewkeys(e, g)
<1>16. /\ Half(e, d, N, u) /\ SameRest(g, d) /\ d.kex # None /\ d.kex.theirs # None
       /\ ReadPlace(d) = Place(g.recv_cipher, g.recv_seq, k, 2)
       /\ \E x : x.m.t = "NEWKEYS" /\ d.write_q = Append(g.write_q, x)
  <2>1. /\ Shape(g) /\ Ready(e, g, k) /\ Nonces(e, g, k) /\ e \in Ends
        /\ Leads(e, u, N \o g.write_q, Place(g.send_cipher, g.send_seq, k, 2))
        /\ Suite(e) \in {"chacha"} \union Gcm
    BY <1>1, <1>8, <1>9, <1>11, <1>13, <1>15
  <2> HIDE DEF e
  <2> QED
    BY <2>1, SendNewkeysHalf
<1> HIDE DEF d
<1>17. SameRest(c, d) /\ ReadPlace(d) = Place(c.recv_cipher, c.recv_seq, k, 2)
  BY <1>4, <1>12, <1>16 DEF SameRest
<1>18. Replies(c, d)
  BY <1>4, <1>9, <1>14, <1>16 DEF Replies
<1>19. OnEcdhInit("server", c, m) = d
  BY <1>3 DEF d
<1> QED
  BY <1>16, <1>17, <1>18, <1>19 DEF k

\* on_ecdh_reply, after ECDH_INIT.
LEMMA OnEcdhReplyHalf ==
  ASSUME NEW c, NEW N, IsSeq(N), NEW u, Half("client", c, N, u),
         Suite("client") \in {"chacha"} \union Gcm,
         c.kex # None, c.kex.theirs # None, c.pending_keys = None,
         NEW m, m.q_s = <<c.kexes - 1>>
  PROVE  LET d == OnEcdhReply("client", c, m)
         IN /\ Half("client", d, N, u) /\ SameRest(c, d)
            /\ d.kex # None /\ d.kex.theirs # None
            /\ ReadPlace(d) = Place(c.recv_cipher, c.recv_seq, c.kexes - 1, 2)
            /\ \E x : x.m.t = "NEWKEYS" /\ d.write_q = Append(c.write_q, x)
<1> DEFINE e == "client"
           k == c.kexes - 1
           f == FinishKex(e, c, <<k>>, <<k>>)
           g == [f EXCEPT !.kex.secret = None]
           v == SendPlace(e, c)
<1>1. /\ Shape(c) /\ Local(e, c) /\ KexLocal(e, c) /\ k \in Nat
      /\ v.k = k /\ v.j = 2 /\ e \in Ends
  BY Phases DEF Half, Ends
<1>2. c.kex.secret = <<k>> /\ c.kex.secret # None
  BY <1>1, RecordNotNone DEF KexLocal
<1> HIDE DEF k
<1>3. OnEcdhReply(e, c, m) = SendNewkeys(e, g)
  BY <1>2 DEF OnEcdhReply, k
<1>4. /\ Ready(e, f, k) /\ Shape(f) /\ SameSent(c, f) /\ SameRest(c, f)
      /\ f.write_q = c.write_q
      /\ f.recv_cipher = c.recv_cipher /\ f.recv_seq = c.recv_seq
  BY <1>1, FinishKexReady DEF k
<1> HIDE DEF f, v
<1>5. /\ DOMAIN g = Fields /\ g.kex = [f.kex EXCEPT !.secret = None]
      /\ \A z \in Fields \ {"kex"} : g[z] = f[z]
  BY <1>4 DEF Shape, Fields
<1> HIDE DEF g
<1>6. /\ SameSent(f, g) /\ SameRest(f, g) /\ g.write_q = f.write_q
      /\ g.pending_keys = f.pending_keys /\ g.session_id = f.session_id
      /\ g.strict_kex = f.strict_kex /\ g.sent_kexinit = f.sent_kexinit
      /\ g.recv_newkeys = f.recv_newkeys /\ g.kex_blocks_app = f.kex_blocks_app
      /\ g.first_kex_done = f.first_kex_done /\ g.recv_cipher = f.recv_cipher
      /\ g.recv_seq = f.recv_seq /\ g.packets_io = f.packets_io
  BY <1>5 DEF SameSent, SameRest, Fields
<1>7. Shape(g)
  BY <1>4, <1>5, <1>6 DEF Shape, SameSent
<1>8. /\ DOMAIN g.kex = {"ours", "theirs", "c2s", "s2c", "secret"}
      /\ g.kex.ours = f.kex.ours /\ g.kex.theirs = f.kex.theirs
      /\ g.kex.c2s = f.kex.c2s /\ g.kex.s2c = f.kex.s2c
  BY <1>4, <1>5 DEF Ready
<1>9. Ready(e, g, k)
  <2>1. Numbers(g)
    BY <1>4, <1>6 DEF Ready, Numbers, SameSent
  <2> QED
    BY <1>4, <1>6, <1>8, <2>1 DEF Ready, SameRest
<1>10. v = Place(g.send_cipher, g.send_seq, k, 2)
  BY <1>1, <1>4, <1>6, PlaceParts DEF v, SendPlace, SameSent
<1>11. SameSent(c, g)
  BY <1>4, <1>6 DEF SameSent
<1>12. Leads(e, u, N \o g.write_q, v) /\ Nonces(e, g, k)
  BY <1>1, <1>4, <1>6, <1>11, NoncesSame DEF Half, v
<1> DEFINE d == SendNewkeys(e, g)
<1>13. /\ Half(e, d, N, u) /\ SameRest(g, d) /\ d.kex # None /\ d.kex.theirs # None
       /\ ReadPlace(d) = Place(g.recv_cipher, g.recv_seq, k, 2)
       /\ \E x : x.m.t = "NEWKEYS" /\ d.write_q = Append(g.write_q, x)
  <2>1. /\ Shape(g) /\ Ready(e, g, k) /\ Nonces(e, g, k) /\ e \in Ends
        /\ Leads(e, u, N \o g.write_q, Place(g.send_cipher, g.send_seq, k, 2))
        /\ Suite(e) \in {"chacha"} \union Gcm
    BY <1>1, <1>7, <1>9, <1>10, <1>12
  <2> HIDE DEF e
  <2> QED
    BY <2>1, SendNewkeysHalf
<1> HIDE DEF d
<1>14. /\ SameRest(c, d) /\ ReadPlace(d) = Place(c.recv_cipher, c.recv_seq, k, 2)
       /\ g.write_q = c.write_q
  BY <1>4, <1>6, <1>13 DEF SameRest
<1> QED
  BY <1>3, <1>13, <1>14 DEF d, k

\* on_newkeys, after NEWKEYS was sent: the exchange is complete.
LEMMA OnNewkeysHalf ==
  ASSUME NEW e \in Ends, NEW c, NEW N, IsSeq(N), NEW u, Half(e, c, N, u),
         Suite(e) \in {"chacha"} \union Gcm, c.kex # None, c.pending_keys # None
  PROVE  LET d == OnNewkeys(e, c)
         IN /\ Half(e, d, N, u) /\ SameRest(c, d) /\ d.kex = None
            /\ ReadPlace(d) = Place(KeyOf(Peer(e), c.kexes - 1), c.recv_seq, c.kexes, 0)
            /\ \/ d.write_q = c.write_q
               \/ \E x : /\ d.write_q = Append(c.write_q, x) /\ ~c.first_kex_done
                         /\ x.m.t = IF e = "client" THEN "SERVICE_REQUEST" ELSE "EXT_INFO"
<1> DEFINE pk == IF c.sent_newkeys THEN None ELSE [c.pending_keys EXCEPT !.recv = Clear]
           k == [c EXCEPT !.recv_cipher = c.pending_keys.recv,
                          !.pending_keys = pk, !.recv_newkeys = TRUE]
           a == [k EXCEPT !.kex = None, !.sent_kexinit = FALSE,
                          !.pending_keys = None, !.packets_io = 0]
           f == [a EXCEPT !.first_kex_done = TRUE]
           g == [a EXCEPT !.kex_blocks_app = FALSE]
           d == OnNewkeys(e, c)
           v == SendPlace(e, c)
<1>1. /\ Shape(c) /\ Local(e, c) /\ KexLocal(e, c) /\ c.kexes \in Nat /\ c.kexes > 0
      /\ v.k = c.kexes /\ v.j = 0 /\ c.kex.theirs # None
  BY Phases DEF Half
<1>2. c.sent_newkeys /\ c.pending_keys.recv = KeyOf(Peer(e), c.kexes - 1)
  BY <1>1 DEF KexLocal
<1>3. d = TryCompleteKex(e, k)
  BY DEF OnNewkeys
<1> HIDE DEF pk
<1>4. /\ DOMAIN k = Fields /\ k.recv_cipher = c.pending_keys.recv /\ k.recv_newkeys = TRUE
      /\ k.pending_keys = pk
      /\ \A z \in Fields \ {"recv_cipher", "pending_keys", "recv_newkeys"} : k[z] = c[z]
  BY <1>1 DEF Shape, Fields
<1>5. k.sent_newkeys /\ k.first_kex_done = c.first_kex_done
  BY <1>2, <1>4 DEF Fields
<1>6. d = IF c.first_kex_done THEN g
          ELSE IF e = "client" THEN SendServiceRequest(f)
          ELSE IF k.peer_ext_info THEN SendExtInfo(f) ELSE f
  <2> HIDE DEF k, d
  <2> QED
    BY <1>3, <1>4, <1>5 DEF TryCompleteKex
<1> HIDE DEF k, d, v
<1>7. /\ DOMAIN a = Fields /\ a.kex = None /\ a.sent_kexinit = FALSE
      /\ a.pending_keys = None /\ a.packets_io = 0
      /\ \A z \in Fields \ {"kex", "sent_kexinit", "pending_keys", "packets_io"} :
           a[z] = k[z]
  BY <1>4 DEF Fields
<1> HIDE DEF a
<1>8. /\ SameSent(c, a) /\ SameRest(c, a) /\ a.write_q = c.write_q
      /\ a.session_id = c.session_id /\ a.strict_kex = c.strict_kex
      /\ a.recv_cipher = c.pending_keys.recv /\ a.recv_seq = c.recv_seq
      /\ a.first_kex_done = c.first_kex_done
  BY <1>4, <1>7 DEF SameSent, SameRest, Fields
<1>9. 0 \in 0 .. SeqSpace - 1
  BY TransportAssumptions
<1>10. c.session_id = Sid /\ (c.strict_kex <=> client.strict) /\ c.ident_in_done
       /\ Numbers(c) /\ (~Fresh(c) => c.first_kex_done)
  BY <1>1 DEF Local
<1>11. ASSUME NEW b, DOMAIN b = Fields, b.first_kex_done,
              \A z \in Fields \ {"first_kex_done", "kex_blocks_app"} : b[z] = a[z]
       PROVE  /\ Half(e, b, N, u) /\ SameRest(c, b) /\ b.write_q = c.write_q
              /\ b.kex = None
              /\ ReadPlace(b) = Place(KeyOf(Peer(e), c.kexes - 1), c.recv_seq, c.kexes, 0)
  <2>1. /\ SameSent(c, b) /\ SameRest(c, b) /\ b.write_q = c.write_q
        /\ b.session_id = c.session_id /\ b.strict_kex = c.strict_kex
        /\ b.recv_cipher = c.pending_keys.recv /\ b.recv_seq = c.recv_seq
        /\ b.kex = None /\ b.sent_kexinit = FALSE
        /\ b.pending_keys = None /\ b.packets_io = 0
    BY <1>7, <1>8, <1>11 DEF SameSent, SameRest, Fields
  <2>2. Shape(b)
    BY <1>1, <1>11, <2>1 DEF Shape, SameSent
  <2>3. Numbers(b)
    BY <1>9, <1>10, <2>1 DEF Numbers, SameSent
  <2>4. ~Fresh(b) /\ b.kexes \in Nat \ {0}
    BY <1>1, <2>1 DEF Fresh, SameRest
  <2>5. Local(e, b)
    BY <1>10, <1>11, <2>1, <2>3, <2>4 DEF Local, SameRest
  <2>6. SendPlace(e, b) = v
    BY <1>1, <2>1 DEF v, SendPlace, SameSent, SameRest
  <2>7. Half(e, b, N, u)
    BY <2>1, <2>2, <2>5, <2>6, NoncesSame DEF Half, v
  <2>8. ReadPlace(b) = Place(KeyOf(Peer(e), c.kexes - 1), c.recv_seq, c.kexes, 0)
    BY <1>2, <2>1 DEF ReadPlace, SameRest
  <2> QED
    BY <2>1, <2>7, <2>8
<1>12. /\ DOMAIN f = Fields /\ f.first_kex_done
       /\ \A z \in Fields \ {"first_kex_done", "kex_blocks_app"} : f[z] = a[z]
       /\ DOMAIN g = Fields /\ g.first_kex_done = a.first_kex_done
       /\ \A z \in Fields \ {"first_kex_done", "kex_blocks_app"} : g[z] = a[z]
  BY <1>7 DEF Fields
<1> HIDE DEF f, g
<1>13. CASE c.first_kex_done
  <2>1. d = g /\ g.first_kex_done
    BY <1>6, <1>8, <1>12, <1>13
  <2> QED
    BY <1>11, <1>12, <2>1 DEF d
<1>14. CASE ~c.first_kex_done
  <2>1. /\ Half(e, f, N, u) /\ SameRest(c, f) /\ f.write_q = c.write_q /\ f.kex = None
        /\ ReadPlace(f) = Place(KeyOf(Peer(e), c.kexes - 1), c.recv_seq, c.kexes, 0)
    BY <1>11, <1>12
  <2>2. CASE d = f
    BY <1>14, <2>1, <2>2 DEF d
  <2>3. ASSUME NEW t, t = IF e = "client" THEN "SERVICE_REQUEST" ELSE "EXT_INFO",
               d = Queue(f, Msg(t))
        PROVE  /\ Half(e, d, N, u) /\ SameRest(c, d) /\ d.kex = None
               /\ ReadPlace(d) = Place(KeyOf(Peer(e), c.kexes - 1), c.recv_seq, c.kexes, 0)
               /\ \E x : /\ d.write_q = Append(c.write_q, x)
                         /\ x.m.t = IF e = "client" THEN "SERVICE_REQUEST" ELSE "EXT_INFO"
    <3> DEFINE m == Msg(t)
    <3>1. m.t = t /\ t \notin KexMsgs \union {"IDENT"}
      BY <2>3 DEF Msg, KexMsgs
    <3> HIDE DEF m
    <3>2. /\ Half(e, Queue(f, m), N, u) /\ SameKex(f, Queue(f, m))
          /\ ReadPlace(Queue(f, m)) = ReadPlace(f)
      BY <2>1, <3>1, QueueHalf
    <3>3. Shape(f)
      BY <2>1 DEF Half
    <3>4. /\ Queue(f, m).write_q = Append(f.write_q, Sealed(f, m))
          /\ \A z \in Fields \ QueueTouches : Queue(f, m)[z] = f[z]
      BY <3>3, QueueFields DEF Sealed, QueueTouches
    <3>5. SameRest(f, Queue(f, m))
      BY <3>4 DEF SameRest, Fields, QueueTouches
    <3>6. Sealed(f, m).m.t = t
      BY <3>1 DEF Sealed
    <3>7. d = Queue(f, m)
      BY <2>3 DEF m
    <3>8. SameRest(c, d) /\ d.kex = None
      BY <2>1, <3>2, <3>5, <3>7 DEF SameRest, SameKex
    <3> QED
      BY <2>1, <2>3, <3>2, <3>4, <3>6, <3>7, <3>8
  <2>4. \/ d = f
        \/ d = Queue(f, Msg(IF e = "client" THEN "SERVICE_REQUEST" ELSE "EXT_INFO"))
    BY <1>6, <1>14 DEF SendServiceRequest, SendExtInfo
  <2> QED
    BY <1>14, <2>2, <2>3, <2>4 DEF d
<1> QED
  BY <1>13, <1>14
-----------------------------------------------------------------------------
(* The order of what crosses.                                              *)

\* The packets behind the first.
LEMMA TailOf ==
  ASSUME NEW s, IsSeq(s), s # << >>
  PROVE  /\ IsSeq(Tail(s)) /\ Len(s) \in Nat /\ Len(s) > 0 /\ Head(s) = s[1]
         /\ Len(Tail(s)) = Len(s) - 1
         /\ \A i \in 1 .. Len(s) - 1 : Tail(s)[i] = s[i + 1]
         /\ Elems(Tail(s)) \subseteq Elems(s) /\ Head(s) \in Elems(s)
  BY TailElems

\* The client handles a packet; after a refusal it may give up.
LEMMA ClientTakes ==
  ASSUME NEW c, NEW d, NEW s, NEW A, NEW B, IsSeq(A), A # << >>, Single(A),
         Order(c, s, A, B), d.error \in {"no", "auth"},
         Won(Head(A)) => d.authed,
         ~Won(Head(A)) => d.authed = c.authed,
         d.kexes > 1 => d.authed,
         d.kexes > 1 /\ d.kex # None => d.kex.theirs # None
  PROVE  Order(d, s, Tail(A), B)
<1> DEFINE T == Tail(A)
           n == Len(A)
<1>1. /\ IsSeq(T) /\ n \in Nat /\ n > 0 /\ Head(A) = A[1] /\ Len(T) = n - 1
      /\ \A i \in 1 .. n - 1 : T[i] = A[i + 1]
      /\ Elems(T) \subseteq Elems(A)
  BY TailOf
<1>2. /\ \A i \in 1 .. n : Late(A[i]) => c.authed \/ \E j \in 1 .. i - 1 : Won(A[j])
      /\ s.authed => c.authed \/ \E j \in 1 .. n : Won(A[j])
      /\ \A x \in Elems(A) : Won(x) => ~c.authed
  BY DEF Order
<1> HIDE DEF T, n
<1>3. c.authed => d.authed
  <2>1. CASE Won(Head(A))
    BY <2>1
  <2>2. CASE ~Won(Head(A))
    BY <2>2
  <2> QED
    BY <2>1, <2>2
<1>4. ASSUME NEW x \in Elems(T), Won(x) PROVE ~d.authed
  <2>1. CASE Won(Head(A))
    <3>1. PICK i \in 1 .. n - 1 : x = T[i]
      BY <1>1, <1>4 DEF Elems
    <3>2. x = A[i + 1] /\ i + 1 \in 1 .. n /\ 1 \in 1 .. n /\ i + 1 # 1
      BY <1>1, <3>1
    <3>3. Turn(A[i + 1]) /\ Turn(A[1])
      BY <1>1, <1>4, <2>1, <3>2 DEF Won, Turn, Talk, ToClientTalk
    <3> QED
      BY <3>2, <3>3 DEF Single, n
  <2>2. CASE ~Won(Head(A))
    BY <1>1, <1>2, <1>4, <2>2
  <2> QED
    BY <2>1, <2>2
<1>5. ASSUME NEW i \in 1 .. n, NEW j \in 1 .. i, Won(A[j])
      PROVE  d.authed \/ \E l \in 1 .. i - 1 : Won(T[l])
  <2>1. CASE j = 1
    BY <1>1, <1>5, <2>1
  <2>2. CASE j # 1
    <3>1. j - 1 \in 1 .. i - 1 /\ j - 1 \in 1 .. n - 1 /\ (j - 1) + 1 = j
      BY <1>1, <1>5, <2>2
    <3>2. Won(T[j - 1])
      BY <1>1, <1>5, <3>1
    <3> QED
      BY <3>1, <3>2
  <2> QED
    BY <2>1, <2>2
<1>6. ASSUME NEW i \in 1 .. n - 1, Late(T[i])
      PROVE  d.authed \/ \E l \in 1 .. i - 1 : Won(T[l])
  <2>1. T[i] = A[i + 1] /\ i + 1 \in 1 .. n /\ (i + 1) - 1 = i /\ i \in 1 .. n
    BY <1>1
  <2>2. c.authed \/ \E j \in 1 .. i : Won(A[j])
    BY <1>2, <1>6, <2>1
  <2> QED
    BY <1>3, <1>5, <2>1, <2>2
<1>7. s.authed => d.authed \/ \E l \in 1 .. n - 1 : Won(T[l])
  <2>1. n \in 1 .. n
    BY <1>1
  <2> QED
    BY <1>2, <1>3, <1>5, <2>1
<1>8. /\ s.kexes > 1 => s.authed
      /\ \A x \in Elems(B) : x.m.t \in LateTypes => s.authed
      /\ s.error = "no"
  BY DEF Order
<1>9. Order(d, s, T, B)
  BY <1>1, <1>4, <1>6, <1>7, <1>8 DEF Order
<1> QED
  BY <1>9 DEF T

\* The server handles a packet, other than the right password.
LEMMA ServerTakes ==
  ASSUME NEW c, NEW s, NEW d, NEW A, NEW B, IsSeq(B), B # << >>,
         Order(c, s, A, B), d.error = "no", d.authed = s.authed,
         d.kexes > 1 => d.authed
  PROVE  Order(c, d, A, Tail(B))
<1>1. Elems(Tail(B)) \subseteq Elems(B)
  BY TailOf
<1> QED
  BY <1>1 DEF Order

\* The client sends a packet.
LEMMA ClientSends ==
  ASSUME NEW c, NEW s, NEW A, NEW B, IsSeq(B), Order(c, s, A, B),
         NEW x, x.m.t \in LateTypes => s.authed
  PROVE  Order(c, s, A, Append(B, x))
<1>1. Elems(Append(B, x)) = Elems(B) \union {x}
  BY AppendElems
<1> QED
  BY <1>1 DEF Order

\* The server sends a packet.
LEMMA ServerSends ==
  ASSUME NEW c, NEW s, NEW A, NEW B, IsSeq(A), Order(c, s, A, B),
         NEW x, ~Won(x), Late(x) => s.authed
  PROVE  Order(c, s, Append(A, x), B)
<1> DEFINE C == Append(A, x)
           n == Len(A)
<1>1. /\ Elems(C) = Elems(A) \union {x} /\ Len(C) = n + 1 /\ C[n + 1] = x /\ n \in Nat
      /\ \A i \in 1 .. n : C[i] = A[i]
  BY AppendElems
<1>2. /\ \A i \in 1 .. n : Late(A[i]) => c.authed \/ \E j \in 1 .. i - 1 : Won(A[j])
      /\ s.authed => c.authed \/ \E j \in 1 .. n : Won(A[j])
      /\ \A y \in Elems(A) : Won(y) => ~c.authed
  BY DEF Order
<1> HIDE DEF C, n
<1>3. \A y \in Elems(C) : Won(y) => ~c.authed
  BY <1>1, <1>2
<1>4. ASSUME NEW i \in 1 .. n + 1, Late(C[i])
      PROVE  c.authed \/ \E j \in 1 .. i - 1 : Won(C[j])
  <2>1. CASE i = n + 1
    <3>1. i - 1 = n /\ s.authed
      BY <1>1, <1>4, <2>1
    <3> QED
      BY <1>1, <1>2, <3>1
  <2>2. CASE i \in 1 .. n
    <3>1. c.authed \/ \E j \in 1 .. i - 1 : Won(A[j])
      BY <1>1, <1>2, <1>4, <2>2
    <3>2. \A j \in 1 .. i - 1 : j \in 1 .. n
      BY <1>1, <2>2
    <3> QED
      BY <1>1, <3>1, <3>2
  <2> QED
    BY <1>1, <2>1, <2>2
<1>5. s.authed => c.authed \/ \E j \in 1 .. n + 1 : Won(C[j])
  <2>1. \A j \in 1 .. n : j \in 1 .. n + 1
    BY <1>1
  <2> QED
    BY <1>1, <1>2, <2>1
<1>6. /\ s.kexes > 1 => s.authed
      /\ c.kexes > 1 => c.authed
      /\ c.kexes > 1 /\ c.kex # None => c.kex.theirs # None
      /\ \A y \in Elems(B) : y.m.t \in LateTypes => s.authed
      /\ s.error = "no" /\ c.error \in {"no", "auth"}
  BY DEF Order
<1>7. Order(c, s, C, B)
  BY <1>1, <1>3, <1>4, <1>5, <1>6 DEF Order
<1> QED
  BY <1>7 DEF C

\* The server accepts a password.
LEMMA ServerAccepts ==
  ASSUME NEW c, NEW s, NEW d, NEW A, NEW B, IsSeq(A), IsSeq(B), B # << >>,
         Order(c, s, A, B), ~c.authed, d.error = "no", d.authed, NEW x, Won(x)
  PROVE  Order(c, d, Append(A, x), Tail(B))
<1> DEFINE C == Append(A, x)
           n == Len(A)
           T == Tail(B)
<1>1. /\ Elems(C) = Elems(A) \union {x} /\ Len(C) = n + 1 /\ C[n + 1] = x /\ n \in Nat
      /\ \A i \in 1 .. n : C[i] = A[i]
  BY AppendElems
<1>2. /\ \A i \in 1 .. n : Late(A[i]) => c.authed \/ \E j \in 1 .. i - 1 : Won(A[j])
      /\ c.kexes > 1 => c.authed
      /\ c.kexes > 1 /\ c.kex # None => c.kex.theirs # None
      /\ c.error \in {"no", "auth"}
  BY DEF Order
<1> HIDE DEF C, n
<1>3. ~Late(x)
  BY DEF Late, Won, LateTypes
<1>4. ASSUME NEW i \in 1 .. n + 1, Late(C[i])
      PROVE  c.authed \/ \E j \in 1 .. i - 1 : Won(C[j])
  <2>1. i \in 1 .. n
    BY <1>1, <1>3, <1>4
  <2>2. \E j \in 1 .. i - 1 : Won(A[j])
    BY <1>1, <1>2, <1>4, <2>1
  <2>3. \A j \in 1 .. i - 1 : j \in 1 .. n
    BY <1>1, <2>1
  <2> QED
    BY <1>1, <2>2, <2>3
<1>5. \E j \in 1 .. n + 1 : Won(C[j])
  <2>1. n + 1 \in 1 .. n + 1
    BY <1>1
  <2> QED
    BY <1>1, <2>1
<1>6. Order(c, d, C, T)
  BY <1>1, <1>2, <1>4, <1>5 DEF Order
<1> QED
  BY <1>6 DEF C, T
-----------------------------------------------------------------------------
(* Both sides, and a packet one of them handles.                           *)

\* The invariant for one side with connection c, its peer with connection p,
\* the stream A of packets c has still to read and the stream B of those p has.
Sound(e, c, p, A, B) ==
  /\ Good(e, c, p, A, B)
  /\ Local(e, c) /\ Local(Peer(e), p)
  /\ Nonces(e, c, SendPlace(e, c).k)
  /\ Nonces(Peer(e), p, SendPlace(Peer(e), p).k)
  /\ Leads(Peer(e), ReadPlace(c), A, SendPlace(Peer(e), p))
  /\ Leads(e, ReadPlace(p), B, SendPlace(e, c))
  /\ LineFirst(c, A) /\ LineFirst(p, B)
  /\ e = "client" => Order(c, p, A, B)
  /\ e = "server" => Order(p, c, B, A)

\* C begins as B does.
Keeps(B, C) == B # << >> => C # << >> /\ C[1] = B[1]

\* d is c after it handled the first packet of A.
Outcome(e, c, d, p, A, N) ==
  /\ Half(e, d, N, ReadPlace(p))
  /\ ReadPlace(d) = Pass(Peer(e), ReadPlace(c), Head(A)) /\ d.ident_in_done
  /\ Keeps(N \o c.write_q, N \o d.write_q)
  /\ e = "client" => Order(d, p, Tail(A), N \o d.write_q)
  /\ e = "server" => Order(p, d, N \o d.write_q, Tail(A))

\* A sent packet comes last.
LEMMA AppendKeeps ==
  ASSUME NEW N, NEW w, IsSeq(N), IsSeq(w), NEW x
  PROVE  /\ N \o Append(w, x) = Append(N \o w, x) /\ IsSeq(N \o w)
         /\ IsSeq(Append(w, x))
         /\ Keeps(N \o w, N \o Append(w, x))
<1>1. N \o Append(w, x) = Append(N \o w, x) /\ IsSeq(N \o w) /\ IsSeq(Append(w, x))
  BY ConcatElems, AppendElems
<1> DEFINE B == N \o w
<1> HIDE DEF B
<1>2. ASSUME IsSeq(B), B # << >> PROVE Append(B, x) # << >> /\ Append(B, x)[1] = B[1]
  <2>1. B \in Seq(Elems(B)) /\ Len(B) \in Nat /\ Len(B) > 0
    BY <1>2, EmptySeq DEF IsSeq
  <2>2. /\ Len(Append(B, x)) = Len(B) + 1
        /\ \A i \in 1 .. Len(B) : Append(B, x)[i] = B[i]
    BY <1>2, AppendElems
  <2>3. Append(B, x) # << >>
    BY <2>1, <2>2
  <2> QED
    BY <2>1, <2>2, <2>3
<1> QED
  BY <1>1, <1>2 DEF Keeps, B

\* The handled packet is gone, and everything fits again.
LEMMA OutcomeSound ==
  ASSUME NEW e \in Ends, NEW c, NEW d, NEW p, NEW A, NEW N,
         Sound(e, c, p, A, N \o c.write_q), A # << >>,
         Outcome(e, c, d, p, A, N), Good(e, d, p, Tail(A), N \o d.write_q)
  PROVE  Sound(e, d, p, Tail(A), N \o d.write_q)
<1>1. IsSeq(A)
  BY DEF Sound, Good, StreamInv
<1>2. Leads(Peer(e), ReadPlace(d), Tail(A), SendPlace(Peer(e), p))
  BY <1>1, LeadsHead DEF Sound, Outcome
<1>3. LineFirst(d, Tail(A)) /\ LineFirst(p, N \o d.write_q)
  BY DEF Sound, Outcome, LineFirst, Keeps
<1> QED
  BY <1>2, <1>3 DEF Sound, Outcome, Half

\* A packet that arrives after the identification line is handled.
LEMMA Arrives ==
  ASSUME NEW e \in Ends, client \in Clients, Agreed, NEW c, NEW p, NEW A, NEW N,
         IsSeq(N), Sound(e, c, p, A, N \o c.write_q), A # << >>, c.ident_in_done,
         c.error = "no"
  PROVE  LET x == Head(A)
             r == Received(c, x)
         IN /\ x.m.t \in Types /\ x.m.t # "IDENT" /\ x \in Elems(A) /\ IsSeq(A)
            /\ Fits(Peer(e), ReadPlace(c), x)
            /\ c.first_kex_done \/ x.m.t \in KexMsgs
            /\ Handle(e, c, x) = HandlePayload(e, r, x.m)
            /\ Half(e, c, N, ReadPlace(p)) /\ Half(e, r, N, ReadPlace(p))
            /\ Suite(e) \in {"chacha"} \union Gcm
<1> DEFINE x == Head(A)
           r == Received(c, x)
<1>1. IsSeq(A) /\ x \in Elems(A)
  BY TailOf DEF Sound, Good, StreamInv
<1>2. x.m.t \in Types /\ x.m.t # "IDENT"
  BY TakeGood DEF Sound
<1>3. Fits(Peer(e), ReadPlace(c), x)
  BY <1>1, LeadsHead DEF Sound
<1>4. Half(e, c, N, ReadPlace(p))
  BY DEF Sound, Half, Good
<1>5. Half(e, r, N, ReadPlace(p))
  BY <1>4, ReceivedHalf
<1>6. Suite(e) \in {"chacha"} \union Gcm
  BY SuiteFacts DEF Ends
<1>7. Opens(c, x)
  <2>1. ReadPlace(c).ci = c.recv_cipher /\ ReadPlace(c).sq = c.recv_seq
    BY PlaceParts DEF ReadPlace
  <2> QED
    BY <1>2, <1>3, <2>1 DEF Fits, Opens
<1>8. c.first_kex_done \/ x.m.t \in KexMsgs
  <2> SUFFICES ASSUME ~c.first_kex_done PROVE x.m.t \in KexMsgs
    OBVIOUS
  <2>1. c.recv_cipher = Clear
    BY DEF Sound, Local
  <2>2. x.key = None
    BY <1>7, <2>1 DEF Opens, Clear
  <2>3. x.m.t \in InClear
    BY <1>1, <2>2 DEF Sound, Good, ClearInv
  <2> QED
    BY <1>2, <2>3 DEF InClear
<1>9. Handle(e, c, x) = HandlePayload(e, r, x.m)
  <2>1. ~(c.strict_kex /\ ~c.first_kex_done /\ x.m.t \notin KexMsgs \union {"EXT_INFO"})
    BY <1>8
  <2> QED
    BY <1>7, <2>1 DEF Handle, TryOnePacket, Received
<1> QED
  BY <1>1, <1>2, <1>3, <1>4, <1>5, <1>6, <1>8, <1>9

\* A packet outside the exchange is counted.
LEMMA ReceivedOutcome ==
  ASSUME NEW e \in Ends, client \in Clients, Agreed, NEW c, NEW p, NEW A, NEW N,
         IsSeq(N), Sound(e, c, p, A, N \o c.write_q), A # << >>, c.ident_in_done,
         c.error = "no", Head(A).m.t \notin KexMsgs, ~Won(Head(A))
  PROVE  Outcome(e, c, Received(c, Head(A)), p, A, N)
<1> DEFINE x == Head(A)
           r == Received(c, x)
<1>1. /\ IsSeq(A) /\ Half(e, c, N, ReadPlace(p)) /\ x.m.t # "IDENT"
  BY Arrives
<1>2. /\ Half(e, r, N, ReadPlace(p)) /\ SameKex(c, r) /\ r.write_q = c.write_q
      /\ r.recv_seq = IF x.m.t = "NEWKEYS" /\ c.strict_kex THEN 0 ELSE Inc(c.recv_seq)
      /\ \A f \in Fields \ {"recv_cipher", "packets_io", "recv_seq"} : r[f] = c[f]
      /\ ReadPlace(r) = Place(IncIv(c.recv_cipher), r.recv_seq,
                              ReadPlace(c).k, ReadPlace(c).j)
  <2> DEFINE q == ReadPlace(p)
  <2> HIDE DEF q, x
  <2>1. Half(e, c, N, q)
    BY <1>1 DEF q
  <2>2. Half(e, r, N, q) /\ SameKex(c, r) /\ r.write_q = c.write_q
    BY <2>1, ReceivedHalf
  <2>3. r.recv_seq = IF x.m.t = "NEWKEYS" /\ c.strict_kex THEN 0 ELSE Inc(c.recv_seq)
    BY <2>1 DEF Received, Half, Shape, Fields
  <2>4. \A f \in Fields \ {"recv_cipher", "packets_io", "recv_seq"} : r[f] = c[f]
    BY <2>1, ReceivedHalf
  <2>5. ReadPlace(r) = Place(IncIv(c.recv_cipher), r.recv_seq,
                             ReadPlace(c).k, ReadPlace(c).j)
    BY <2>1, ReceivedHalf
  <2> QED
    BY <2>2, <2>3, <2>4, <2>5 DEF q
<1> HIDE DEF r
<1>3. ReadPlace(r) = Pass(Peer(e), ReadPlace(c), x)
  <2>1. ReadPlace(c).ci = c.recv_cipher /\ ReadPlace(c).sq = c.recv_seq
    BY PlaceParts DEF ReadPlace
  <2> QED
    BY <1>1, <1>2, <2>1 DEF Pass, KexMsgs
<1>4. r.authed = c.authed /\ r.error = c.error /\ r.kexes = c.kexes /\ r.kex = c.kex
      /\ r.ident_in_done
  BY <1>2 DEF Fields
<1>5. e = "client" => Order(r, p, Tail(A), N \o r.write_q)
  <2> SUFFICES ASSUME e = "client" PROVE Order(r, p, Tail(A), N \o c.write_q)
    BY <1>2
  <2>1. Order(c, p, A, N \o c.write_q) /\ Single(A)
    BY DEF Sound, Good, AuthInv
  <2>2. /\ c.kexes > 1 => c.authed
        /\ c.kexes > 1 /\ c.kex # None => c.kex.theirs # None
    BY <2>1 DEF Order
  <2> QED
    BY <1>1, <1>4, <2>1, <2>2, ClientTakes
<1>6. e = "server" => Order(p, r, N \o r.write_q, Tail(A))
  <2> SUFFICES ASSUME e = "server" PROVE Order(p, r, N \o c.write_q, Tail(A))
    BY <1>2
  <2>1. Order(p, c, N \o c.write_q, A)
    BY DEF Sound
  <2>2. c.kexes > 1 => c.authed
    BY <2>1 DEF Order
  <2> QED
    BY <1>1, <1>4, <2>1, <2>2, ServerTakes
<1>7. Keeps(N \o c.write_q, N \o r.write_q)
  BY <1>2 DEF Keeps
<1> QED
  BY <1>2, <1>3, <1>4, <1>5, <1>6, <1>7 DEF Outcome, r

\* The end of the session and the attempts counted.
Tallies == {"closed", "auth_fails", "attempts", "refused"}

\* Closing and counting attempts say nothing about keys.
LEMMA OutcomeStill ==
  ASSUME NEW e \in Ends, NEW c, NEW d, NEW g, NEW p, NEW A, NEW N,
         Outcome(e, c, d, p, A, N), DOMAIN g = Fields,
         \A f \in Fields \ Tallies : g[f] = d[f]
  PROVE  Outcome(e, c, g, p, A, N)
<1>1. /\ SameKex(d, g) /\ SameSent(d, g) /\ g.write_q = d.write_q
      /\ g.kex_blocks_app = d.kex_blocks_app /\ g.recv_cipher = d.recv_cipher
      /\ g.recv_seq = d.recv_seq /\ g.packets_io = d.packets_io
      /\ g.authed = d.authed /\ g.error = d.error
  BY DEF SameKex, SameSent, Fields, Tallies
<1>2. Shape(d) /\ Local(e, d)
  BY DEF Outcome, Half
<1>3. Shape(g)
  BY <1>1, <1>2 DEF Shape, SameSent
<1>4. /\ Numbers(g) /\ (d.kex # None => g.kex_blocks_app)
      /\ (Fresh(d) => g.recv_cipher = Clear)
  BY <1>1, <1>2 DEF Local, KexLocal, Numbers, SameSent
<1>5. /\ Half(e, g, N, ReadPlace(p))
      /\ ReadPlace(g) = Place(g.recv_cipher, g.recv_seq, ReadPlace(d).k, ReadPlace(d).j)
  BY <1>1, <1>3, <1>4, StayHalf DEF Outcome
<1>6. ReadPlace(g) = ReadPlace(d)
  BY <1>1, <1>5, PlaceParts DEF ReadPlace
<1>7. g.kexes = d.kexes /\ g.kex = d.kex /\ g.ident_in_done = d.ident_in_done
  BY <1>1 DEF SameKex
<1>8. e = "client" => Order(g, p, Tail(A), N \o g.write_q)
  BY <1>1, <1>7 DEF Outcome, Order
<1>9. e = "server" => Order(p, g, N \o g.write_q, Tail(A))
  BY <1>1, <1>7 DEF Outcome, Order
<1> QED
  BY <1>1, <1>5, <1>6, <1>7, <1>8, <1>9 DEF Outcome

\* An answer outside the exchange.
LEMMA OutcomeSend ==
  ASSUME NEW e \in Ends, NEW c, NEW d, NEW p, NEW A, NEW N, IsSeq(N),
         IsSeq(Tail(A)), Suite(e) \in {"chacha"} \union Gcm,
         Outcome(e, c, d, p, A, N), NEW m,
         m.t \notin KexMsgs \union {"IDENT", "USERAUTH_SUCCESS"},
         m.t \in LateTypes => IF e = "client" THEN p.authed ELSE d.authed
  PROVE  LET q == Queue(d, m)
         IN /\ Outcome(e, c, q, p, A, N) /\ Shape(q)
            /\ \A f \in Fields \ QueueTouches : q[f] = d[f]
<1> DEFINE q == Queue(d, m)
           x == Sealed(d, m)
<1>1. Shape(d)
  BY DEF Outcome, Half
<1>2. /\ q.write_q = Append(d.write_q, x) /\ Shape(q)
      /\ \A f \in Fields \ QueueTouches : q[f] = d[f]
  BY <1>1, QueueFields DEF Sealed, QueueTouches
<1>3. /\ Half(e, q, N, ReadPlace(p)) /\ SameKex(d, q) /\ ReadPlace(q) = ReadPlace(d)
  BY QueueHalf DEF Outcome
<1>4. x.m = m
  BY DEF Sealed
<1> HIDE DEF q, x
<1>5. /\ q.authed = d.authed /\ q.error = d.error /\ q.kexes = d.kexes
      /\ q.kex = d.kex /\ q.ident_in_done = d.ident_in_done
  BY <1>2 DEF Fields, QueueTouches
<1>6. /\ N \o q.write_q = Append(N \o d.write_q, x) /\ IsSeq(N \o d.write_q)
      /\ Keeps(N \o d.write_q, N \o q.write_q)
  BY <1>1, <1>2, AppendKeeps DEF Shape
<1>7. Keeps(N \o c.write_q, N \o q.write_q)
  BY <1>6 DEF Outcome, Keeps
<1>8. ASSUME e = "client" PROVE Order(q, p, Tail(A), N \o q.write_q)
  <2>1. Order(d, p, Tail(A), N \o d.write_q)
    BY <1>8 DEF Outcome
  <2>2. Order(d, p, Tail(A), Append(N \o d.write_q, x))
    BY <1>4, <1>6, <1>8, <2>1, ClientSends
  <2> QED
    BY <1>5, <1>6, <2>2 DEF Order
<1>9. ASSUME e = "server" PROVE Order(p, q, N \o q.write_q, Tail(A))
  <2>1. Order(p, d, N \o d.write_q, Tail(A))
    BY <1>9 DEF Outcome
  <2>2. ~Won(x) /\ (Late(x) => d.authed)
    BY <1>4, <1>9 DEF Won, Late, KexMsgs
  <2>3. Order(p, d, Append(N \o d.write_q, x), Tail(A))
    BY <1>6, <1>9, <2>1, <2>2, ServerSends
  <2> QED
    BY <1>5, <1>6, <2>3 DEF Order
<1>10. Outcome(e, c, q, p, A, N)
  BY <1>3, <1>5, <1>7, <1>8, <1>9 DEF Outcome
<1> QED
  BY <1>2, <1>10 DEF q

\* What waits to be read, and what is behind the first of it.
LEMMA Behind ==
  ASSUME NEW e \in Ends, NEW c, NEW p, NEW A, NEW B, Sound(e, c, p, A, B), A # << >>
  PROVE  IsSeq(A) /\ IsSeq(Tail(A))
<1>1. IsSeq(A)
  BY DEF Sound, Good, StreamInv
<1> QED
  BY <1>1, TailOf

\* What is neither of the exchange nor of the authentication dialogue.
LEMMA OthersOutcome ==
  ASSUME NEW e \in Ends, client \in Clients, Agreed, NEW c, NEW p, NEW A, NEW N,
         IsSeq(N), Sound(e, c, p, A, N \o c.write_q), A # << >>, c.ident_in_done,
         c.error = "no", Head(A).m.t \in Others
  PROVE  Outcome(e, c, HandlePayload(e, Received(c, Head(A)), Head(A).m), p, A, N)
<1> DEFINE x == Head(A)
           m == x.m
           r == Received(c, x)
           d == HandlePayload(e, r, m)
<1>1. x \in Elems(A) /\ IsSeq(A) /\ Suite(e) \in {"chacha"} \union Gcm
      /\ Half(e, c, N, ReadPlace(p))
  BY Arrives
<1>2. IsSeq(Tail(A))
  BY Behind
<1>3. m.t \notin KexMsgs /\ ~Won(x)
  BY DEF Others, KexMsgs, Won
<1>4. /\ Outcome(e, c, r, p, A, N) /\ r.error = "no" /\ r.write_q = c.write_q
      /\ \A f \in Fields \ {"recv_cipher", "packets_io", "recv_seq"} : r[f] = c[f]
  <2>1. Outcome(e, c, r, p, A, N)
    BY <1>3, ReceivedOutcome
  <2>2. \A f \in Fields \ {"recv_cipher", "packets_io", "recv_seq"} : r[f] = c[f]
    BY <1>1, ReceivedHalf
  <2>3. r.error = c.error /\ r.write_q = c.write_q
    BY <2>2 DEF Fields
  <2> QED
    BY <1>1, <2>1, <2>2, <2>3
<1>5. DOMAIN r = Fields /\ r.authed = c.authed
  BY <1>4 DEF Outcome, Half, Shape, Fields
<1> HIDE DEF r
<1>6. m.t \in LateTypes => c.authed /\ (e = "client" => p.authed)
  <2> SUFFICES ASSUME m.t \in LateTypes PROVE c.authed /\ (e = "client" => p.authed)
    OBVIOUS
  <2>1. CASE e = "client"
    <3>1. Len(A) \in Nat /\ Len(A) > 0 /\ x = A[1]
      BY <1>1, TailOf
    <3>2. 1 \in 1 .. Len(A) /\ Late(A[1]) /\ \A j : j \notin 1 .. 1 - 1
      BY <3>1 DEF Late
    <3>3. c.authed
      BY <2>1, <3>2 DEF Sound, Order
    <3> QED
      BY <2>1, <3>3 DEF Sound, Good, AuthInv
  <2>2. CASE e = "server"
    BY <1>1, <2>2 DEF Sound, Order
  <2> QED
    BY <2>1, <2>2 DEF Ends
<1>7. CASE m.t = "DISCONNECT"
  <2>1. d = [r EXCEPT !.closed = TRUE]
    BY <1>7 DEF HandlePayload
  <2>2. DOMAIN d = Fields /\ \A f \in Fields \ Tallies : d[f] = r[f]
    BY <1>5, <2>1 DEF Fields, Tallies
  <2> HIDE DEF d
  <2> QED
    BY <1>4, <2>2, OutcomeStill DEF d, r
<1>8. CASE m.t \in {"EXT_INFO", "REPLY"}
  <2>1. d = r
    BY <1>8 DEF HandlePayload
  <2> QED
    BY <1>4, <2>1 DEF r
<1>9. CASE m.t \in {"DATA", "CONTROL"}
  <2>1. d = OnChannelMsg(r)
    BY <1>9 DEF HandlePayload
  <2>2. d = r
    BY <1>5, <1>6, <1>9, <2>1 DEF OnChannelMsg, LateTypes
  <2> QED
    BY <1>4, <2>2 DEF r
<1>10. CASE m.t = "REQUEST"
  <2> DEFINE a == Msg("REPLY")
  <2>1. d = Queue(r, a)
    BY <1>10 DEF HandlePayload, OnGlobalRequest
  <2>2. a.t = "REPLY"
    BY DEF Msg
  <2> HIDE DEF a, d
  <2>3. c.authed /\ (e = "client" => p.authed)
    BY <1>6, <1>10 DEF LateTypes
  <2>4. a.t \notin KexMsgs \union {"IDENT", "USERAUTH_SUCCESS"}
    BY <2>2 DEF KexMsgs
  <2>5. e = "server" => r.authed
    BY <1>5, <2>3
  <2>6. Outcome(e, c, Queue(r, a), p, A, N)
    BY <1>1, <1>2, <1>4, <2>3, <2>4, <2>5, OutcomeSend DEF Ends
  <2> QED
    BY <2>1, <2>6 DEF d, r
<1> QED
  BY <1>7, <1>8, <1>9, <1>10 DEF Others

\* The client's side of the authentication dialogue.
LEMMA ClientTalkOutcome ==
  ASSUME client \in Clients, Agreed, NEW c, NEW p, NEW A, NEW N,
         IsSeq(N), Sound("client", c, p, A, N \o c.write_q), A # << >>,
         c.ident_in_done, c.error = "no", Talk(Head(A))
  PROVE  Outcome("client", c, HandlePayload("client", Received(c, Head(A)), Head(A).m),
                 p, A, N)
<1> DEFINE x == Head(A)
           m == x.m
           r == Received(c, x)
           d == HandlePayload("client", r, m)
           B == N \o c.write_q
<1>1. /\ x \in Elems(A) /\ IsSeq(A) /\ Suite("client") \in {"chacha"} \union Gcm
      /\ Half("client", c, N, ReadPlace(p)) /\ m.t # "IDENT"
  BY Arrives DEF Ends
<1>2. IsSeq(Tail(A))
  BY Behind DEF Ends
<1>3. Good("client", c, p, A, B) /\ Order(c, p, A, B) /\ Single(A) /\ Local("client", c)
  BY DEF Sound, Good, AuthInv
<1>4. m.t \in ToClientTalk /\ c.first_kex_done
  BY <1>1, <1>3, ClientHears
<1>5. m.t \notin KexMsgs
  BY <1>4 DEF KexMsgs, ToClientTalk
<1>6. /\ Half("client", r, N, ReadPlace(p)) /\ SameKex(c, r) /\ r.write_q = c.write_q
      /\ r.recv_seq = IF m.t = "NEWKEYS" /\ c.strict_kex THEN 0 ELSE Inc(c.recv_seq)
      /\ \A f \in Fields \ {"recv_cipher", "packets_io", "recv_seq"} : r[f] = c[f]
      /\ ReadPlace(r) = Place(IncIv(c.recv_cipher), r.recv_seq,
                              ReadPlace(c).k, ReadPlace(c).j)
  BY <1>1, ReceivedHalf DEF Ends
<1> HIDE DEF r
<1>7. DOMAIN r = Fields /\ r.authed = c.authed /\ r.kexes = c.kexes /\ r.kex = c.kex
      /\ r.ident_in_done
  BY <1>6 DEF Half, Shape, Fields
<1>8. ReadPlace(r) = Pass(Peer("client"), ReadPlace(c), x)
  <2>1. ReadPlace(c).ci = c.recv_cipher /\ ReadPlace(c).sq = c.recv_seq
    BY PlaceParts DEF ReadPlace
  <2> QED
    BY <1>1, <1>5, <1>6, <2>1 DEF Pass, KexMsgs
<1>9. ~Won(x) => Outcome("client", c, r, p, A, N) /\ r.error = "no"
  <2>1. "client" \in Ends
    BY DEF Ends
  <2> QED
    BY <1>5, <1>6, <2>1, ReceivedOutcome DEF r, Fields
<1>10. ASSUME NEW h, Outcome("client", c, h, p, A, N)
       PROVE  Outcome("client", c, SendAuth(h), p, A, N)
  <2> DEFINE g == [h EXCEPT !.attempts = @ + 1]
             a == [t |-> "USERAUTH_REQUEST", try |-> client.tries[h.attempts + 1]]
  <2>1. DOMAIN h = Fields
    BY <1>10 DEF Outcome, Half, Shape
  <2>2. DOMAIN g = Fields /\ \A f \in Fields \ Tallies : g[f] = h[f]
    BY <2>1 DEF Fields, Tallies
  <2>3. SendAuth(h) = Queue(g, a)
    BY DEF SendAuth
  <2>4. a.t \notin KexMsgs \union {"IDENT", "USERAUTH_SUCCESS"} /\ a.t \notin LateTypes
    BY DEF KexMsgs, LateTypes
  <2> HIDE DEF g, a
  <2>5. "client" \in Ends
    BY DEF Ends
  <2>6. Outcome("client", c, g, p, A, N)
    BY <1>10, <2>2, <2>5, OutcomeStill
  <2> QED
    BY <1>1, <1>2, <2>3, <2>4, <2>5, <2>6, OutcomeSend
<1>11. CASE m.t = "SERVICE_ACCEPT"
  <2>1. d = SendAuth(r) /\ ~Won(x)
    BY <1>11 DEF HandlePayload, OnServiceAccept, Won
  <2> QED
    BY <1>9, <1>10, <2>1 DEF r
<1>12. CASE m.t = "USERAUTH_FAILURE"
  <2> DEFINE g == [r EXCEPT !.refused = @ + 1]
  <2>1. d = OnUserauthFailure(r) /\ ~Won(x)
    BY <1>12 DEF HandlePayload, Won
  <2>2. d \in {SendAuth(g), g, Fail(g, "auth")}
    BY <2>1 DEF OnUserauthFailure
  <2>3. DOMAIN g = Fields /\ \A f \in Fields \ Tallies : g[f] = r[f]
    BY <1>7 DEF Fields, Tallies
  <2> HIDE DEF g, d
  <2>4. Outcome("client", c, g, p, A, N)
    BY <1>9, <2>1, <2>3, OutcomeStill DEF Ends
  <2>5. CASE d = SendAuth(g)
    BY <1>10, <2>4, <2>5 DEF d, r
  <2>6. CASE d = g
    BY <2>4, <2>6 DEF d, r
  <2>7. CASE d = Fail(g, "auth")
    <3>1. /\ DOMAIN d = Fields /\ d.error = "auth"
          /\ \A f \in Fields \ {"error"} : d[f] = g[f]
      BY <2>3, <2>7 DEF Fail, Fields
    <3>2. /\ SameKex(g, d) /\ SameSent(g, d) /\ d.write_q = g.write_q
          /\ d.kex_blocks_app = g.kex_blocks_app /\ d.recv_cipher = g.recv_cipher
          /\ d.recv_seq = g.recv_seq /\ d.packets_io = g.packets_io
          /\ d.authed = g.authed /\ d.kexes = g.kexes /\ d.kex = g.kex
          /\ d.ident_in_done = g.ident_in_done
      BY <3>1 DEF SameKex, SameSent, Fields
    <3>3. Shape(g) /\ Local("client", g) /\ Half("client", g, N, ReadPlace(p))
      BY <2>4 DEF Outcome, Half
    <3>4. Shape(d)
      BY <3>1, <3>2, <3>3 DEF Shape, SameSent
    <3>5. /\ Numbers(d) /\ (g.kex # None => d.kex_blocks_app)
          /\ (Fresh(g) => d.recv_cipher = Clear)
      BY <3>2, <3>3 DEF Local, KexLocal, Numbers, SameSent
    <3>6. /\ Half("client", d, N, ReadPlace(p))
          /\ ReadPlace(d) = Place(d.recv_cipher, d.recv_seq, ReadPlace(g).k, ReadPlace(g).j)
      BY <3>2, <3>3, <3>4, <3>5, StayHalf DEF Ends
    <3>7. ReadPlace(d) = ReadPlace(g)
      BY <3>2, <3>6, PlaceParts DEF ReadPlace
    <3>8. Order(g, p, Tail(A), N \o g.write_q)
      BY <2>4 DEF Outcome
    <3>9. Order(d, p, Tail(A), N \o d.write_q)
      BY <3>1, <3>2, <3>8 DEF Order
    <3>10. Outcome("client", c, d, p, A, N)
      BY <2>4, <3>2, <3>6, <3>7, <3>9 DEF Outcome
    <3> QED
      BY <3>10 DEF d, r
  <2> QED
    BY <2>2, <2>5, <2>6, <2>7
<1>13. CASE m.t = "USERAUTH_SUCCESS"
  <2>1. d = [r EXCEPT !.authed = TRUE, !.kex_blocks_app = FALSE]
    BY <1>13 DEF HandlePayload, OnUserauthSuccess
  <2>2. /\ DOMAIN d = Fields /\ d.authed = TRUE
        /\ \A f \in Fields \ {"authed", "kex_blocks_app"} : d[f] = r[f]
    BY <1>7, <2>1 DEF Fields
  <2> HIDE DEF d
  <2>3. /\ SameKex(r, d) /\ SameSent(r, d) /\ d.write_q = r.write_q
        /\ d.recv_cipher = r.recv_cipher
        /\ d.recv_seq = r.recv_seq /\ d.packets_io = r.packets_io
        /\ d.error = r.error /\ d.kexes = r.kexes /\ d.kex = r.kex
        /\ d.ident_in_done = r.ident_in_done
    BY <2>2 DEF SameKex, SameSent, Fields
  <2>4. c.kex = None
    <3>1. ~c.authed
      BY <1>1, <1>3, <1>13 DEF Order, Won
    <3>2. ~(c.kexes > 1)
      BY <1>3, <3>1 DEF Order
    <3>3. c.kexes = 1
      BY <1>3, <3>2 DEF Local
    <3> QED
      BY <1>3, <1>4, <3>3 DEF Local, Fresh
  <2>5. Shape(r) /\ Local("client", r)
    BY <1>6 DEF Half
  <2>6. Shape(d)
    BY <2>2, <2>3, <2>5 DEF Shape, SameSent
  <2>7. Numbers(d) /\ r.kex = None /\ ~Fresh(r)
    BY <1>7, <2>3, <2>4, <2>5 DEF Local, Numbers, SameSent, Fresh
  <2>8. /\ Half("client", d, N, ReadPlace(p))
        /\ ReadPlace(d) = Place(d.recv_cipher, d.recv_seq, ReadPlace(r).k, ReadPlace(r).j)
    BY <1>6, <2>3, <2>6, <2>7, StayHalf
  <2>9. ReadPlace(d) = ReadPlace(r)
    BY <2>3, <2>8, PlaceParts DEF ReadPlace
  <2>10. r.error = c.error
    BY <1>6 DEF Fields
  <2>11. d.kexes = c.kexes /\ d.kex = c.kex /\ d.error = "no" /\ d.authed
    BY <1>7, <2>2, <2>3, <2>10
  <2>12. Order(d, p, Tail(A), B)
    BY <1>1, <1>3, <1>13, <2>4, <2>11, ClientTakes DEF Won
  <2>13. d.write_q = c.write_q /\ Keeps(B, B)
    BY <1>6, <2>3 DEF Keeps
  <2> QED
    BY <1>7, <1>8, <2>3, <2>8, <2>9, <2>12, <2>13 DEF Outcome, d, r
<1> QED
  BY <1>4, <1>11, <1>12, <1>13 DEF ToClientTalk

\* The server's side of the authentication dialogue.
LEMMA ServerTalkOutcome ==
  ASSUME client \in Clients, Agreed, NEW c, NEW p, NEW A, NEW N,
         IsSeq(N), Sound("server", c, p, A, N \o c.write_q), A # << >>,
         c.ident_in_done, c.error = "no", Talk(Head(A))
  PROVE  Outcome("server", c, HandlePayload("server", Received(c, Head(A)), Head(A).m),
                 p, A, N)
<1> DEFINE x == Head(A)
           m == x.m
           r == Received(c, x)
           d == HandlePayload("server", r, m)
           B == N \o c.write_q
<1>0. "server" \in Ends /\ "server" # "client"
  BY DEF Ends
<1>1. /\ x \in Elems(A) /\ IsSeq(A) /\ Suite("server") \in {"chacha"} \union Gcm
      /\ Half("server", c, N, ReadPlace(p)) /\ m.t # "IDENT"
      /\ c.first_kex_done \/ m.t \in KexMsgs
  BY <1>0, Arrives
<1>2. IsSeq(Tail(A))
  BY <1>0, Behind
<1>3. /\ Good("server", c, p, A, B) /\ Order(p, c, B, A) /\ Single(A) /\ Local("server", c)
      /\ AuthInv(p, c, B, A) /\ IsSeq(B)
  BY DEF Sound, Good, AuthInv, StreamInv
<1>4. /\ m.t \in ToServerTalk
      /\ m.t = "USERAUTH_REQUEST" => /\ m.try \in {"none", "bad", "good"}
                                     /\ m.try = "good" => ~c.authed
  BY <1>1, <1>3, ServerHears
<1>5. m.t \notin KexMsgs /\ ~Won(x)
  BY <1>4 DEF KexMsgs, ToServerTalk, Won
<1>6. Outcome("server", c, r, p, A, N)
  BY <1>0, <1>5, ReceivedOutcome
<1>7. \A f \in Fields \ {"recv_cipher", "packets_io", "recv_seq"} : r[f] = c[f]
  BY <1>0, <1>1, ReceivedHalf
<1> HIDE DEF r
<1>8. /\ DOMAIN r = Fields /\ r.authed = c.authed /\ r.error = "no"
       /\ r.write_q = c.write_q /\ r.kex = c.kex /\ r.kexes = c.kexes
       /\ Half("server", r, N, ReadPlace(p))
  BY <1>1, <1>6, <1>7 DEF Outcome, Half, Shape, Fields
<1>9. ASSUME NEW g, NEW a, Outcome("server", c, g, p, A, N),
              a.t \in {"SERVICE_ACCEPT", "USERAUTH_FAILURE", "DISCONNECT"}
       PROVE  /\ Outcome("server", c, Queue(g, a), p, A, N)
              /\ DOMAIN Queue(g, a) = Fields
  <2>1. a.t \notin KexMsgs \union {"IDENT", "USERAUTH_SUCCESS"} /\ a.t \notin LateTypes
    BY <1>9 DEF KexMsgs, LateTypes
  <2>2. Outcome("server", c, Queue(g, a), p, A, N) /\ Shape(Queue(g, a))
    BY <1>0, <1>1, <1>2, <1>9, <2>1, OutcomeSend
  <2> QED
    BY <2>2 DEF Shape
<1>10. ASSUME NEW g, Outcome("server", c, g, p, A, N)
       PROVE  Outcome("server", c, AuthFail(g), p, A, N)
  <2> DEFINE a == Msg("USERAUTH_FAILURE")
             b == Msg("DISCONNECT")
             q == Queue(g, b)
             h == [q EXCEPT !.closed = TRUE]
  <2>1. AuthFail(g) \in {g, h, Queue(g, a)}
    BY DEF AuthFail, Disconnect
  <2>2. a.t = "USERAUTH_FAILURE" /\ b.t = "DISCONNECT"
    BY DEF Msg
  <2> HIDE DEF a, b
  <2>3. Outcome("server", c, Queue(g, a), p, A, N)
    BY <1>9, <1>10, <2>2
  <2>4. Outcome("server", c, q, p, A, N) /\ DOMAIN q = Fields
    BY <1>9, <1>10, <2>2
  <2> HIDE DEF q
  <2>5. DOMAIN h = Fields /\ \A f \in Fields \ Tallies : h[f] = q[f]
    BY <2>4 DEF Fields, Tallies
  <2> HIDE DEF h
  <2>6. Outcome("server", c, h, p, A, N)
    BY <1>0, <2>4, <2>5, OutcomeStill
  <2> QED
    BY <1>10, <2>1, <2>3, <2>6
<1>11. CASE m.t = "SERVICE_REQUEST"
  <2> DEFINE a == Msg("SERVICE_ACCEPT")
  <2>1. d = Queue(r, a) /\ a.t = "SERVICE_ACCEPT"
    BY <1>11 DEF HandlePayload, OnServiceRequest, Msg
  <2> HIDE DEF a, d
  <2> QED
    BY <1>6, <1>9, <2>1 DEF d, r
<1>12. CASE m.t = "USERAUTH_REQUEST"
  <2>1. d = OnUserauthRequest("server", r, m)
    BY <1>12 DEF HandlePayload
  <2>2. m.try \in {"none", "bad", "good"}
    BY <1>4, <1>12
  <2> HIDE DEF d
  <2>3. CASE m.try = "none"
    <3>1. d = AuthFail(r)
      BY <2>1, <2>3 DEF OnUserauthRequest
    <3> QED
      BY <1>6, <1>10, <3>1 DEF d, r
  <2>4. CASE m.try = "bad"
    <3> DEFINE g == [r EXCEPT !.auth_fails = @ + 1]
    <3>1. d = AuthFail(g)
      BY <2>1, <2>4 DEF OnUserauthRequest
    <3>2. DOMAIN g = Fields /\ \A f \in Fields \ Tallies : g[f] = r[f]
      BY <1>8 DEF Fields, Tallies
    <3> HIDE DEF g
    <3>3. Outcome("server", c, g, p, A, N)
      BY <1>0, <1>6, <3>2, OutcomeStill
    <3> QED
      BY <1>10, <3>1, <3>3 DEF d, r
  <2>5. CASE m.try = "good"
    <3> DEFINE g == [r EXCEPT !.authed = TRUE, !.kex_blocks_app = FALSE]
               a == Msg("USERAUTH_SUCCESS")
    <3>1. d = Queue(g, a) /\ a.t = "USERAUTH_SUCCESS"
      BY <2>1, <2>5 DEF OnUserauthRequest, Msg
    <3>2. /\ DOMAIN g = Fields /\ g.authed = TRUE
          /\ \A f \in Fields \ {"authed", "kex_blocks_app"} : g[f] = r[f]
      BY <1>8 DEF Fields
    <3> HIDE DEF g, a
    <3>3. /\ SameKex(r, g) /\ SameSent(r, g) /\ g.write_q = r.write_q
          /\ g.recv_cipher = r.recv_cipher
          /\ g.recv_seq = r.recv_seq /\ g.packets_io = r.packets_io
          /\ g.error = r.error /\ g.ident_in_done = r.ident_in_done
      BY <3>2 DEF SameKex, SameSent, Fields
    <3>4. c.kex = None
      <4>1. ~(c.kexes > 1) /\ c.first_kex_done
        BY <1>1, <1>3, <1>4, <1>5, <1>12, <2>5 DEF Order
      <4>2. c.kexes = 1
        BY <1>3, <4>1 DEF Local
      <4> QED
        BY <1>3, <4>1, <4>2 DEF Local, Fresh
    <3>5. Shape(r) /\ Local("server", r)
      BY <1>8 DEF Half
    <3>6. Shape(g)
      BY <3>2, <3>3, <3>5 DEF Shape, SameSent
    <3>7. Numbers(g) /\ r.kex = None /\ ~Fresh(r)
      BY <1>8, <3>3, <3>4, <3>5 DEF Local, Numbers, SameSent, Fresh
    <3>8. /\ Half("server", g, N, ReadPlace(p))
          /\ ReadPlace(g) = Place(g.recv_cipher, g.recv_seq, ReadPlace(r).k, ReadPlace(r).j)
      BY <1>8, <3>3, <3>6, <3>7, StayHalf
    <3>9. ReadPlace(g) = ReadPlace(r)
      BY <3>3, <3>8, PlaceParts DEF ReadPlace
    <3>10. a.t \notin KexMsgs \union {"IDENT"}
      BY <3>1 DEF KexMsgs
    <3>11. Half("server", d, N, ReadPlace(p)) /\ ReadPlace(d) = ReadPlace(g)
      BY <1>0, <1>1, <3>1, <3>8, <3>10, QueueHalf
    <3>12. /\ d.write_q = Append(c.write_q, Sealed(g, a))
           /\ \A f \in Fields \ QueueTouches : d[f] = g[f]
      BY <1>8, <3>1, <3>3, <3>6, QueueFields DEF Sealed, QueueTouches
    <3>13. d.authed /\ d.error = "no" /\ d.ident_in_done
      BY <1>6, <1>8, <3>2, <3>3, <3>12 DEF Fields, QueueTouches, Outcome
    <3>14. Won(Sealed(g, a))
      BY <3>1 DEF Won, Sealed
    <3>15. ~p.authed
      BY <1>3, <1>4, <1>12, <2>5 DEF AuthInv
    <3>16. Order(p, d, Append(B, Sealed(g, a)), Tail(A))
      BY <1>1, <1>3, <3>13, <3>14, <3>15, ServerAccepts
    <3>17. N \o d.write_q = Append(B, Sealed(g, a)) /\ Keeps(B, N \o d.write_q)
      BY <1>1, <3>12, AppendKeeps DEF Half, Shape
    <3>18. ReadPlace(d) = Pass(Peer("server"), ReadPlace(c), x)
      BY <1>6, <3>9, <3>11 DEF Outcome
    <3> QED
      BY <1>0, <3>11, <3>13, <3>16, <3>17, <3>18 DEF Outcome, d, r
  <2> QED
    BY <2>2, <2>3, <2>4, <2>5
<1> QED
  BY <1>4, <1>11, <1>12 DEF ToServerTalk

-----------------------------------------------------------------------------
(* A message of the exchange.                                              *)

\* The message of the exchange that arrives is the one that is due.
LEMMA KexArrives ==
  ASSUME NEW e \in Ends, client \in Clients, Agreed, NEW c, NEW p, NEW A, NEW N,
         IsSeq(N), Sound(e, c, p, A, N \o c.write_q), A # << >>, c.ident_in_done,
         c.error = "no", Head(A).m.t \in KexMsgs
  PROVE  LET m == Head(A).m IN
         /\ m = KexMsg(Peer(e), ReadPlace(c).k, ReadPlace(c).j)
         /\ m.t = "KEXINIT" <=> ReadPlace(c).j = 0
         /\ m.t = (IF e = "server" THEN "ECDH_INIT" ELSE "ECDH_REPLY")
              <=> ReadPlace(c).j = 1
         /\ m.t = "NEWKEYS" <=> ReadPlace(c).j = 2
         /\ ReadPlace(c).j \in {0, 1, 2}
<1> DEFINE m == Head(A).m
           u == ReadPlace(c)
<1>1. Fits(Peer(e), u, Head(A)) /\ m.t # "IDENT"
  BY Arrives
<1>2. m = KexMsg(Peer(e), u.k, u.j)
  BY <1>1 DEF Fits
<1>3. u.j \in {0, 1, 2}
  BY Phases DEF Sound, IsPlace
<1>4. \A k : /\ KexMsg(Peer(e), k, 0).t = "KEXINIT"
             /\ KexMsg(Peer(e), k, 1).t = IF e = "server" THEN "ECDH_INIT" ELSE "ECDH_REPLY"
             /\ KexMsg(Peer(e), k, 2).t = "NEWKEYS"
  BY DEF KexMsg, KexInit, Msg, Peer, Ends
<1> HIDE DEF u, m
<1> QED
  BY <1>2, <1>3, <1>4 DEF u, m

\* Only the server starts a new exchange.
LEMMA ServerNotAsked ==
  ASSUME client \in Clients, Agreed, NEW c, NEW p, NEW A, NEW B,
         Sound("server", c, p, A, B), A # << >>, Head(A).m.t \in KexMsgs
  PROVE  c.kex # None
<1> SUFFICES ASSUME c.kex = None PROVE FALSE
  OBVIOUS
<1>1. Peer("server") = "client" /\ "server" \in Ends /\ "client" \in Ends
  BY DEF Peer, Ends
<1>2. /\ Local("server", c) /\ Local("client", p) /\ IsSeq(A) /\ IsSeq(B)
      /\ Leads("client", ReadPlace(c), A, SendPlace("client", p))
      /\ Leads("server", ReadPlace(p), B, SendPlace("server", c))
      /\ Order(p, c, B, A)
  BY <1>1 DEF Sound, Good, StreamInv
<1> DEFINE u == ReadPlace(c)
           v == SendPlace("server", c)
           y == ReadPlace(p)
           z == SendPlace("client", p)
           w == Pass("client", u, Head(A))
           n == c.kexes
           l == p.kexes
<1>3. /\ IsPlace(u) /\ IsPlace(v) /\ n \in Nat /\ n > 0
      /\ u.k = n /\ u.j = 0 /\ v.k = n /\ v.j = 0
  BY <1>1, <1>2, Phases
<1>4. Fits("client", u, Head(A)) /\ Leads("client", w, Tail(A), z) /\ IsSeq(Tail(A))
  BY <1>2, LeadsHead, TailOf
<1>5. IsPlace(w) /\ Rank(w) = Rank(u) + 1
  BY <1>3, <1>4, PassPlace
<1>6. Rank(w) <= Rank(z)
  BY <1>4, <1>5, LeadsOrder
<1>7. /\ IsPlace(y) /\ IsPlace(z) /\ l \in Nat /\ l > 0
      /\ p.kex = None => y.k = l /\ y.j = 0 /\ z.k = l /\ z.j = 0
      /\ p.kex # None => y.k = l - 1
      /\ p.kex # None /\ p.kex.theirs = None => y.j = 0 /\ z.k = l - 1 /\ z.j = 1
      /\ p.kex # None /\ p.kex.theirs # None /\ p.pending_keys = None =>
           y.j = 1 /\ z.k = l - 1 /\ z.j = 2
      /\ p.kex # None /\ p.pending_keys # None => y.j = 2 /\ z.k = l /\ z.j = 0
  BY <1>1, <1>2, Phases
<1>8. Rank(y) <= Rank(v)
  BY <1>2, <1>7, LeadsOrder
<1>9. l > 1 /\ p.kex # None => p.kex.theirs # None
  BY <1>2 DEF Order
<1> HIDE DEF u, v, y, z, w, n, l
<1>10. 3 * n + 1 <= 3 * z.k + z.j /\ 3 * y.k + y.j <= 3 * n
  BY <1>3, <1>5, <1>6, <1>8 DEF Rank, IsPlace
<1> QED
  BY <1>3, <1>7, <1>9, <1>10

\* What a message of the exchange makes the receiver send: nothing, one packet,
\* or two.
Answers(e, c, d) ==
  \/ d.write_q = c.write_q
  \/ \E y : /\ d.write_q = Append(c.write_q, y)
            /\ y.m.t \in {"ECDH_INIT", "NEWKEYS", "SERVICE_REQUEST", "EXT_INFO"}
  \/ \E y, z : /\ d.write_q = Append(Append(c.write_q, y), z)
               /\ y.m.t \in {"KEXINIT", "ECDH_REPLY"}
               /\ z.m.t \in {"ECDH_INIT", "NEWKEYS"}
               /\ e = "server" => y.m.t = "ECDH_REPLY"

\* d is c after it handled a message of the exchange that was first in A.
KexStep(e, c, d, p, A, N) ==
  /\ Half(e, d, N, ReadPlace(p)) /\ ReadPlace(d) = Pass(Peer(e), ReadPlace(c), Head(A))
  /\ d.ident_in_done /\ d.authed = c.authed /\ d.error = c.error
  /\ d.kex # None => d.kex.theirs # None
  /\ d.kexes = c.kexes \/ c.kex = None
  /\ Answers(e, c, d)

\* An exchange the peer starts is started here as well.
LEMMA OnKexinitStarts ==
  ASSUME NEW e, NEW c, NEW m, c.kex = None, StartKex(e, c).kex # None
  PROVE  OnKexinit(e, c, m) = OnKexinit(e, StartKex(e, c), m)
<1> DEFINE b == StartKex(e, c)
<1>1. b.kex # None
  OBVIOUS
<1> HIDE DEF b
<1>2. OnKexinit(e, c, m) = OnKexinit(e, b, m)
  BY <1>1, StartKex(e, c) = b DEF OnKexinit, b
<1> QED
  BY <1>2 DEF b

\* The receiver of a message of the exchange does its part of it.
LEMMA KexStepped ==
  ASSUME NEW e \in Ends, client \in Clients, Agreed, NEW c, NEW p, NEW A, NEW N,
         IsSeq(N), Sound(e, c, p, A, N \o c.write_q), A # << >>, c.ident_in_done,
         c.error = "no", Head(A).m.t \in KexMsgs, e = "server" => c.kex # None
  PROVE  KexStep(e, c, HandlePayload(e, Received(c, Head(A)), Head(A).m), p, A, N)
<1> DEFINE x == Head(A)
           m == x.m
           r == Received(c, x)
           d == HandlePayload(e, r, m)
           u == ReadPlace(c)
           q == ReadPlace(p)
<1>1. /\ Suite(e) \in {"chacha"} \union Gcm /\ Half(e, c, N, q) /\ m.t # "IDENT"
  BY Arrives
<1>2. Local(e, c)
  BY <1>1 DEF Half
<1>3. /\ Half(e, r, N, q) /\ SameKex(c, r) /\ r.write_q = c.write_q
      /\ r.recv_seq = IF m.t = "NEWKEYS" /\ c.strict_kex THEN 0 ELSE Inc(c.recv_seq)
      /\ \A f \in Fields \ {"recv_cipher", "packets_io", "recv_seq"} : r[f] = c[f]
      /\ ReadPlace(r) = Place(IncIv(c.recv_cipher), r.recv_seq, u.k, u.j)
  <2>1. Half(e, c, N, q)
    BY <1>1
  <2> HIDE DEF q, x
  <2>2. /\ Half(e, r, N, q) /\ SameKex(c, r) /\ r.write_q = c.write_q
    BY <2>1, ReceivedHalf
  <2>3. r.recv_seq = IF m.t = "NEWKEYS" /\ c.strict_kex THEN 0 ELSE Inc(c.recv_seq)
    BY <2>1 DEF Received, Half, Shape, Fields
  <2>4. \A f \in Fields \ {"recv_cipher", "packets_io", "recv_seq"} : r[f] = c[f]
    BY <2>1, ReceivedHalf
  <2>5. ReadPlace(r) = Place(IncIv(c.recv_cipher), r.recv_seq, u.k, u.j)
    BY <2>1, ReceivedHalf
  <2> QED
    BY <2>2, <2>3, <2>4, <2>5
<1>4. /\ m = KexMsg(Peer(e), u.k, u.j)
      /\ m.t = "KEXINIT" <=> u.j = 0
      /\ m.t = (IF e = "server" THEN "ECDH_INIT" ELSE "ECDH_REPLY") <=> u.j = 1
      /\ m.t = "NEWKEYS" <=> u.j = 2
      /\ u.j \in {0, 1, 2}
  BY KexArrives
<1>5. u.ci = c.recv_cipher /\ u.sq = c.recv_seq
  BY PlaceParts DEF ReadPlace
<1> HIDE DEF r
<1>6. /\ r.authed = c.authed /\ r.error = c.error /\ r.kexes = c.kexes /\ r.kex = c.kex
      /\ r.pending_keys = c.pending_keys /\ r.ident_in_done /\ r.strict_kex = c.strict_kex
      /\ r.first_kex_done = c.first_kex_done
  BY <1>3 DEF Fields
<1>7. r.recv_cipher = IncIv(c.recv_cipher)
  BY <1>3, PlaceParts DEF ReadPlace
<1>8. m.t # "NEWKEYS" => Pass(Peer(e), u, x) = Place(r.recv_cipher, r.recv_seq, u.k, u.j + 1)
  BY <1>1, <1>3, <1>5, <1>7 DEF Pass
<1>9. CASE u.j = 0 /\ c.kex # None
  <2>1. c.kex.theirs = None /\ u.k = c.kexes - 1
    BY <1>2, <1>9, Phases
  <2>2. m = KexInit(Peer(e), r.kexes - 1) /\ m.t = "KEXINIT"
    BY <1>4, <1>6, <1>9, <2>1 DEF KexMsg
  <2>3. d = OnKexinit(e, r, m)
    BY <2>2 DEF HandlePayload
  <2>4. r.kex # None /\ r.kex.theirs = None
    BY <1>6, <1>9, <2>1
  <2> HIDE DEF d, m, q, x
  <2>5. /\ Half(e, d, N, q) /\ SameRest(r, d) /\ d.kex # None /\ d.kex.theirs # None
        /\ ReadPlace(d) = Place(r.recv_cipher, r.recv_seq, r.kexes - 1, 1)
        /\ e = "server" => d.write_q = r.write_q
        /\ e = "client" => \E y : y.m.t = "ECDH_INIT" /\ d.write_q = Append(r.write_q, y)
    <3>1. Half(e, r, N, q) /\ r.ident_in_done
      BY <1>3, <1>6
    <3> HIDE DEF u
    <3>2. r.kex # None /\ r.kex.theirs = None /\ m = KexInit(Peer(e), r.kexes - 1)
      BY <2>2, <2>4
    <3>3. /\ Half(e, d, N, q) /\ SameRest(r, d) /\ d.kex # None /\ d.kex.theirs # None
          /\ ReadPlace(d) = Place(r.recv_cipher, r.recv_seq, r.kexes - 1, 1)
      BY <2>3, <3>1, <3>2, OnKexinitHalf
    <3>4. e = "server" => d.write_q = r.write_q
      BY <2>3, <3>1, <3>2, OnKexinitHalf
    <3>5. e = "client" => \E y : y.m.t = "ECDH_INIT" /\ d.write_q = Append(r.write_q, y)
      BY SMTT(40), <2>3, <3>1, <3>2, OnKexinitHalf
    <3> QED
      BY <3>3, <3>4, <3>5
  <2>6. ReadPlace(d) = Pass(Peer(e), u, x)
    BY <1>6, <1>8, <1>9, <2>1, <2>2, <2>5
  <2>7. Answers(e, c, d)
    BY <1>3, <2>5 DEF Answers, Ends
  <2>8. KexStep(e, c, d, p, A, N)
    BY <1>6, <2>5, <2>6, <2>7 DEF KexStep, SameRest, q, x
  <2> QED
    BY <2>8 DEF d, m, r, x
<1>10. CASE u.j = 0 /\ c.kex = None
  <2> DEFINE b == StartKex(e, r)
             y == Sealed(r, KexInit(e, r.kexes))
  <2>1. e = "client" /\ u.k = c.kexes
    BY <1>2, <1>10, Phases DEF Ends
  <2>2. m = KexInit(Peer(e), c.kexes) /\ m.t = "KEXINIT"
    BY <1>4, <1>10, <2>1 DEF KexMsg
  <2>3. d = OnKexinit(e, r, m)
    BY <2>2 DEF HandlePayload
  <2>4. r.kex = None
    BY <1>6, <1>10
  <2> HIDE DEF d, m, q, x, y
  <2>5. /\ Half(e, b, N, q) /\ ReadPlace(b) = ReadPlace(r)
        /\ b.write_q = Append(r.write_q, y)
        /\ b.kexes = r.kexes + 1 /\ b.kex # None /\ b.kex.theirs = None
        /\ b.authed = r.authed /\ b.error = r.error
        /\ b.ident_in_done = r.ident_in_done
    BY <1>1, <1>3, <2>4, StartKexHalf DEF y
  <2>6. d = OnKexinit(e, b, m)
    BY <2>3, <2>4, <2>5, OnKexinitStarts
  <2> HIDE DEF b
  <2>7. c.kexes \in Nat /\ b.kexes - 1 = c.kexes /\ b.ident_in_done
    BY <1>2, <1>6, <2>5 DEF Local
  <2>8. /\ Half(e, d, N, q) /\ SameRest(b, d) /\ d.kex # None /\ d.kex.theirs # None
        /\ ReadPlace(d) = Place(b.recv_cipher, b.recv_seq, b.kexes - 1, 1)
        /\ e = "client" => \E z : z.m.t = "ECDH_INIT" /\ d.write_q = Append(b.write_q, z)
    <3> HIDE DEF u, r
    <3>1. /\ Half(e, b, N, q) /\ b.ident_in_done /\ b.kex # None /\ b.kex.theirs = None
          /\ m = KexInit(Peer(e), b.kexes - 1)
      BY <2>2, <2>5, <2>7
    <3>2. /\ Half(e, d, N, q) /\ SameRest(b, d) /\ d.kex # None /\ d.kex.theirs # None
          /\ ReadPlace(d) = Place(b.recv_cipher, b.recv_seq, b.kexes - 1, 1)
      BY <2>6, <3>1, OnKexinitHalf
    <3>3. e = "client" => \E z : z.m.t = "ECDH_INIT" /\ d.write_q = Append(b.write_q, z)
      BY ZenonT(30), <2>6, <3>1, OnKexinitHalf
    <3> QED
      BY <3>2, <3>3
  <2>9. b.recv_cipher = r.recv_cipher /\ b.recv_seq = r.recv_seq
    BY <2>5, PlaceParts DEF ReadPlace
  <2>10. ReadPlace(d) = Pass(Peer(e), u, x)
    BY <1>8, <1>10, <2>1, <2>2, <2>7, <2>8, <2>9 DEF m
  <2>11. y.m.t = "KEXINIT"
    BY DEF y, Sealed, KexInit
  <2>12. PICK z : z.m.t = "ECDH_INIT" /\ d.write_q = Append(b.write_q, z)
    BY <2>1, <2>8
  <2>13. d.write_q = Append(Append(c.write_q, y), z)
    BY <1>3, <2>5, <2>12
  <2>14. Answers(e, c, d)
    BY <1>10, <2>1, <2>11, <2>12, <2>13 DEF Answers
  <2>15. KexStep(e, c, d, p, A, N)
    BY <1>6, <1>10, <2>5, <2>8, <2>10, <2>14 DEF KexStep, SameRest, q, x
  <2> QED
    BY <2>15 DEF d, m, r, x
<1>11. CASE u.j = 1
  <2>1. c.kex # None /\ c.kex.theirs # None /\ c.pending_keys = None /\ u.k = c.kexes - 1
    BY <1>2, <1>11, Phases
  <2>2. r.kex # None /\ r.kex.theirs # None /\ r.pending_keys = None
    BY <1>6, <2>1
  <2>3. CASE e = "server"
    <3>1. m.t = "ECDH_INIT" /\ m.q_c = <<r.kexes - 1>>
      BY <1>4, <1>6, <1>11, <2>1, <2>3 DEF KexMsg, Peer
    <3>2. d = OnEcdhInit("server", r, m)
      BY <2>3, <3>1 DEF HandlePayload
    <3> HIDE DEF d, m, q, x
    <3>3. /\ Half("server", d, N, q) /\ SameRest(r, d)
          /\ d.kex # None /\ d.kex.theirs # None
          /\ ReadPlace(d) = Place(r.recv_cipher, r.recv_seq, r.kexes - 1, 2)
          /\ \E y, z : /\ y.m.t = "ECDH_REPLY" /\ z.m.t = "NEWKEYS"
                       /\ d.write_q = Append(Append(r.write_q, y), z)
      <4>1. Half("server", r, N, q) /\ Suite("server") \in {"chacha"} \union Gcm
        BY <1>1, <1>3, <2>3
      <4> HIDE DEF u
      <4>2. m.q_c = <<r.kexes - 1>>
        BY <3>1
      <4>3. /\ Half("server", d, N, q) /\ SameRest(r, d)
            /\ d.kex # None /\ d.kex.theirs # None
            /\ ReadPlace(d) = Place(r.recv_cipher, r.recv_seq, r.kexes - 1, 2)
            /\ Replies(r, d)
        BY <2>2, <3>2, <4>1, <4>2, OnEcdhInitHalf
      <4> QED
        BY <4>3 DEF Replies
    <3>4. ReadPlace(d) = Pass(Peer(e), u, x)
      BY <1>6, <1>8, <1>11, <2>1, <3>1, <3>3 DEF m
    <3>5. Answers(e, c, d)
      BY <1>3, <2>3, <3>3 DEF Answers
    <3>6. KexStep(e, c, d, p, A, N)
      BY <1>6, <2>3, <3>3, <3>4, <3>5 DEF KexStep, SameRest, q, x
    <3> QED
      BY <3>6 DEF d, m, r, x
  <2>4. CASE e = "client"
    <3>1. m.t = "ECDH_REPLY" /\ m.q_s = <<r.kexes - 1>>
      BY <1>4, <1>6, <1>11, <2>1, <2>4 DEF KexMsg, Peer
    <3>2. d = OnEcdhReply("client", r, m)
      BY <2>4, <3>1 DEF HandlePayload
    <3> HIDE DEF d, m, q, x
    <3>3. /\ Half("client", d, N, q) /\ SameRest(r, d)
          /\ d.kex # None /\ d.kex.theirs # None
          /\ ReadPlace(d) = Place(r.recv_cipher, r.recv_seq, r.kexes - 1, 2)
          /\ \E y : y.m.t = "NEWKEYS" /\ d.write_q = Append(r.write_q, y)
      <4> HIDE DEF u, r
      <4>1. Half("client", r, N, q)
        BY <1>3, <2>4
      <4>2. /\ Half("client", d, N, q) /\ SameRest(r, d)
            /\ d.kex # None /\ d.kex.theirs # None
        BY <1>1, <2>2, <2>4, <3>1, <3>2, <4>1, OnEcdhReplyHalf
      <4>3. ReadPlace(d) = Place(r.recv_cipher, r.recv_seq, r.kexes - 1, 2)
        BY <1>1, <2>2, <2>4, <3>1, <3>2, <4>1, OnEcdhReplyHalf
      <4>4. \E y : y.m.t = "NEWKEYS" /\ d.write_q = Append(r.write_q, y)
        BY <1>1, <2>2, <2>4, <3>1, <3>2, <4>1, OnEcdhReplyHalf
      <4> QED
        BY <4>2, <4>3, <4>4
    <3>4. ReadPlace(d) = Pass(Peer(e), u, x)
      BY <1>6, <1>8, <1>11, <2>1, <3>1, <3>3 DEF m
    <3>5. Answers(e, c, d)
      BY <1>3, <2>4, <3>3 DEF Answers
    <3>6. KexStep(e, c, d, p, A, N)
      BY <1>6, <2>4, <3>3, <3>4, <3>5 DEF KexStep, SameRest, q, x
    <3> QED
      BY <3>6 DEF d, m, r, x
  <2> QED
    BY <2>3, <2>4 DEF Ends
<1>12. CASE u.j = 2
  <2>1. c.kex # None /\ c.kex.theirs # None /\ c.pending_keys # None /\ u.k = c.kexes - 1
    BY <1>2, <1>12, Phases
  <2>2. r.kex # None /\ r.pending_keys # None
    BY <1>6, <2>1
  <2>3. m.t = "NEWKEYS"
    BY <1>4, <1>12
  <2>4. d = OnNewkeys(e, r)
    BY <2>3 DEF HandlePayload
  <2> HIDE DEF d, m, q, x
  <2>5. /\ Half(e, d, N, q) /\ SameRest(r, d) /\ d.kex = None
        /\ ReadPlace(d) = Place(KeyOf(Peer(e), r.kexes - 1), r.recv_seq, r.kexes, 0)
        /\ \/ d.write_q = r.write_q
           \/ \E y : /\ d.write_q = Append(r.write_q, y) /\ ~r.first_kex_done
                     /\ y.m.t = IF e = "client" THEN "SERVICE_REQUEST" ELSE "EXT_INFO"
    BY <1>1, <1>3, <2>2, <2>4, OnNewkeysHalf
  <2>6. c.strict_kex <=> client.strict
    BY <1>2, <2>1 DEF Local
  <2>7. c.kexes \in Nat /\ u.k + 1 = c.kexes
    BY <1>2, <2>1 DEF Local
  <2>8. r.recv_seq = IF client.strict THEN 0 ELSE Inc(u.sq)
    BY <1>3, <1>5, <2>3, <2>6 DEF m
  <2>9. ReadPlace(d) = Pass(Peer(e), u, x)
    BY <1>6, <2>1, <2>3, <2>5, <2>7, <2>8 DEF Pass, m
  <2>10. Answers(e, c, d)
    BY <1>3, <2>5 DEF Answers, Ends
  <2>11. KexStep(e, c, d, p, A, N)
    BY <1>6, <2>5, <2>9, <2>10 DEF KexStep, SameRest, q, x
  <2> QED
    BY <2>11 DEF d, m, r, x
<1> QED
  BY <1>4, <1>9, <1>10, <1>11, <1>12

\* Two packets added to the last part of a stream.
LEMMA AppendTwice ==
  ASSUME NEW N, NEW w, IsSeq(N), IsSeq(w), NEW y, NEW z
  PROVE  /\ N \o Append(Append(w, y), z) = Append(Append(N \o w, y), z)
         /\ IsSeq(Append(N \o w, y))
         /\ Keeps(N \o w, Append(Append(N \o w, y), z))
<1>1. ASSUME NEW v, IsSeq(v), NEW x
      PROVE  /\ N \o Append(v, x) = Append(N \o v, x)
             /\ IsSeq(N \o v)
             /\ IsSeq(Append(v, x))
             /\ Keeps(N \o v, N \o Append(v, x))
  <2>1. N \o Append(v, x) = Append(N \o v, x)
    BY <1>1, AppendKeeps
  <2>2. IsSeq(N \o v)
    BY <1>1, AppendKeeps
  <2>3. IsSeq(Append(v, x))
    BY <1>1, AppendKeeps
  <2>4. Keeps(N \o v, N \o Append(v, x))
    BY <1>1, AppendKeeps
  <2> QED
    BY <2>1, <2>2, <2>3, <2>4
<1> DEFINE v == Append(w, y)
<1>2. N \o v = Append(N \o w, y)
  BY <1>1
<1>3. IsSeq(v) /\ Keeps(N \o w, N \o v)
  BY <1>1
<1> HIDE DEF v
<1>4. N \o Append(v, z) = Append(N \o v, z)
  BY <1>1, <1>3
<1>5. IsSeq(N \o v)
  BY <1>1, <1>3
<1>6. Keeps(N \o v, N \o Append(v, z))
  BY <1>1, <1>3
<1>7. Keeps(N \o w, N \o Append(v, z))
  BY Zenon, <1>3, <1>6 DEF Keeps
<1> QED
  BY Zenon, <1>2, <1>4, <1>5, <1>7 DEF v

\* The client and the key exchange.
LEMMA ClientKexOutcome ==
  ASSUME client \in Clients, Agreed, NEW c, NEW p, NEW A, NEW N,
         IsSeq(N), Sound("client", c, p, A, N \o c.write_q), A # << >>,
         c.ident_in_done, c.error = "no", Head(A).m.t \in KexMsgs
  PROVE  Outcome("client", c, HandlePayload("client", Received(c, Head(A)), Head(A).m),
                 p, A, N)
<1> DEFINE x == Head(A)
           d == HandlePayload("client", Received(c, x), x.m)
           B == N \o c.write_q
           w == c.write_q
<1>1. "client" \in Ends /\ "client" # "server"
  BY DEF Ends
<1>2. KexStep("client", c, d, p, A, N)
  BY <1>1, KexStepped
<1>3. IsSeq(A) /\ IsSeq(Tail(A)) /\ IsSeq(w)
  BY <1>1, Arrives, Behind DEF Half, Shape
<1>4. /\ Order(c, p, A, B) /\ Single(A) /\ Local("client", c) /\ IsSeq(B)
  BY <1>1 DEF Sound, Good, AuthInv, StreamInv
<1>5. c.kex = None => c.authed
  <2> SUFFICES ASSUME c.kex = None PROVE c.authed
    OBVIOUS
  <2>1. Len(A) \in Nat /\ Len(A) > 0 /\ x = A[1]
    BY <1>3, TailOf
  <2>2. /\ ReadPlace(c).k = c.kexes /\ ReadPlace(c).j = 0 /\ c.kexes > 0
    BY <1>1, <1>4, Phases
  <2>3. x.m = KexMsg("server", c.kexes, 0)
    <3>1. x.m = KexMsg(Peer("client"), ReadPlace(c).k, ReadPlace(c).j)
      BY <1>1, KexArrives
    <3>2. Peer("client") = "server"
      BY DEF Peer
    <3> QED
      BY <2>2, <3>1, <3>2
  <2>4. x.m = KexInit("server", c.kexes)
    BY <2>3 DEF KexMsg
  <2>5. x.m.t = "KEXINIT" /\ x.m.cookie = c.kexes
    BY <2>4 DEF KexInit
  <2>6. 1 \in 1 .. Len(A) /\ Late(A[1]) /\ \A j : j \notin 1 .. 1 - 1
    BY <2>1, <2>2, <2>5 DEF Late
  <2> QED
    BY <1>4, <2>6 DEF Order
<1> HIDE DEF d
<1>6. d.error = "no" /\ d.authed = c.authed
  BY <1>2, <1>3 DEF KexStep
<1>7. d.kexes > 1 => d.authed
  BY <1>2, <1>4, <1>5, <1>6 DEF KexStep, Order
<1>8. ~Won(x)
  BY DEF Won, KexMsgs
<1>9. Order(d, p, Tail(A), B)
  <2>1. d.kexes > 1 /\ d.kex # None => d.kex.theirs # None
    BY <1>2 DEF KexStep
  <2> HIDE DEF x, B
  <2> QED
    BY <1>3, <1>4, <1>6, <1>7, <1>8, <2>1, ClientTakes DEF x
<1>10. Order(d, p, Tail(A), N \o d.write_q) /\ Keeps(B, N \o d.write_q)
  <2>1. CASE d.write_q = w
    BY <1>9, <2>1 DEF Keeps
  <2>2. ASSUME NEW y, d.write_q = Append(w, y),
               y.m.t \in {"ECDH_INIT", "NEWKEYS", "SERVICE_REQUEST", "EXT_INFO"}
        PROVE  Order(d, p, Tail(A), N \o d.write_q) /\ Keeps(B, N \o d.write_q)
    <3>1. N \o d.write_q = Append(B, y) /\ Keeps(B, N \o d.write_q)
      BY <1>3, <2>2, AppendKeeps
    <3>2. y.m.t \notin LateTypes
      BY <2>2 DEF LateTypes
    <3> HIDE DEF B
    <3>3. Order(d, p, Tail(A), Append(B, y))
      BY <1>4, <1>9, <3>2, ClientSends
    <3> QED
      BY <3>1, <3>3
  <2>3. ASSUME NEW y, NEW z, d.write_q = Append(Append(w, y), z),
               y.m.t \in {"KEXINIT", "ECDH_REPLY"},
               z.m.t \in {"ECDH_INIT", "NEWKEYS"}
        PROVE  Order(d, p, Tail(A), N \o d.write_q) /\ Keeps(B, N \o d.write_q)
    <3> DEFINE C == Append(B, y)
    <3>1. N \o d.write_q = Append(C, z) /\ IsSeq(C) /\ Keeps(B, Append(C, z))
      <4>1. N \o Append(Append(w, y), z) = Append(C, z)
        <5>1. IsSeq(w)
          BY <1>3
        <5> HIDE DEF w
        <5>2. N \o Append(Append(w, y), z) = Append(Append(N \o w, y), z)
          BY <5>1, AppendTwice
        <5> QED
          BY <5>2 DEF w
      <4>2. IsSeq(C)
        BY Zenon, <1>3, AppendTwice
      <4>3. Keeps(B, Append(C, z))
        BY Zenon, <1>3, AppendTwice
      <4> QED
        BY Zenon, <2>3, <4>1, <4>2, <4>3
    <3>2. y.m.t \notin LateTypes /\ z.m.t \notin LateTypes
      BY <2>3 DEF LateTypes
    <3> HIDE DEF B
    <3>3. Order(d, p, Tail(A), C)
      BY <1>4, <1>9, <3>1, <3>2, ClientSends
    <3> HIDE DEF C
    <3>4. Order(d, p, Tail(A), Append(C, z))
      BY <3>1, <3>2, <3>3, ClientSends
    <3> QED
      BY <3>1, <3>4
  <2> QED
    BY <1>1, <1>2, <2>1, <2>2, <2>3 DEF KexStep, Answers
<1> QED
  BY <1>1, <1>2, <1>10 DEF Outcome, KexStep, d

\* The server and the key exchange.
LEMMA ServerKexOutcome ==
  ASSUME client \in Clients, Agreed, NEW c, NEW p, NEW A, NEW N,
         IsSeq(N), Sound("server", c, p, A, N \o c.write_q), A # << >>,
         c.ident_in_done, c.error = "no", Head(A).m.t \in KexMsgs
  PROVE  Outcome("server", c, HandlePayload("server", Received(c, Head(A)), Head(A).m),
                 p, A, N)
<1> DEFINE x == Head(A)
           d == HandlePayload("server", Received(c, x), x.m)
           B == N \o c.write_q
           w == c.write_q
<1>1. "server" \in Ends /\ "client" # "server"
  BY DEF Ends
<1>2. c.kex # None
  BY ServerNotAsked
<1>3. KexStep("server", c, d, p, A, N)
  BY <1>1, <1>2, KexStepped
<1>4. IsSeq(A) /\ IsSeq(Tail(A)) /\ IsSeq(w)
  BY <1>1, Arrives, Behind DEF Half, Shape
<1>5. Order(p, c, B, A) /\ Local("server", c) /\ IsSeq(B)
  BY <1>1 DEF Sound, Good, StreamInv
<1> HIDE DEF d
<1>6. d.error = "no" /\ d.authed = c.authed /\ d.kexes = c.kexes
  BY <1>2, <1>3, <1>4 DEF KexStep
<1>7. d.kexes > 1 => d.authed
  BY <1>5, <1>6 DEF Order
<1>8. Order(p, d, B, Tail(A))
  <2> HIDE DEF B
  <2> QED
    BY <1>4, <1>5, <1>6, <1>7, ServerTakes
<1>9. ASSUME NEW y, y.m.t \in {"ECDH_INIT", "ECDH_REPLY", "NEWKEYS", "SERVICE_REQUEST",
                               "EXT_INFO"}
      PROVE  ~Won(y) /\ ~Late(y)
  BY <1>9 DEF Won, Late, LateTypes
<1>10. Order(p, d, N \o d.write_q, Tail(A)) /\ Keeps(B, N \o d.write_q)
  <2>1. CASE d.write_q = w
    BY <1>8, <2>1 DEF Keeps
  <2>2. ASSUME NEW y, d.write_q = Append(w, y),
               y.m.t \in {"ECDH_INIT", "NEWKEYS", "SERVICE_REQUEST", "EXT_INFO"}
        PROVE  Order(p, d, N \o d.write_q, Tail(A)) /\ Keeps(B, N \o d.write_q)
    <3>1. N \o d.write_q = Append(B, y) /\ Keeps(B, N \o d.write_q)
      BY <1>4, <2>2, AppendKeeps
    <3>2. ~Won(y) /\ ~Late(y)
      BY <1>9, <2>2
    <3> HIDE DEF B
    <3>3. Order(p, d, Append(B, y), Tail(A))
      BY <1>5, <1>8, <3>2, ServerSends
    <3> QED
      BY <3>1, <3>3
  <2>3. ASSUME NEW y, NEW z, d.write_q = Append(Append(w, y), z),
               y.m.t = "ECDH_REPLY", z.m.t \in {"ECDH_INIT", "NEWKEYS"}
        PROVE  Order(p, d, N \o d.write_q, Tail(A)) /\ Keeps(B, N \o d.write_q)
    <3> DEFINE C == Append(B, y)
    <3>1. N \o d.write_q = Append(C, z) /\ IsSeq(C) /\ Keeps(B, Append(C, z))
      <4>1. N \o Append(Append(w, y), z) = Append(C, z)
        <5>1. IsSeq(w)
          BY <1>4
        <5> HIDE DEF w
        <5>2. N \o Append(Append(w, y), z) = Append(Append(N \o w, y), z)
          BY <5>1, AppendTwice
        <5> QED
          BY <5>2 DEF w
      <4>2. IsSeq(C)
        BY Zenon, <1>4, AppendTwice
      <4>3. Keeps(B, Append(C, z))
        BY Zenon, <1>4, AppendTwice
      <4> QED
        BY Zenon, <2>3, <4>1, <4>2, <4>3
    <3>2. ~Won(y) /\ ~Late(y) /\ ~Won(z) /\ ~Late(z)
      BY <1>9, <2>3
    <3> HIDE DEF B
    <3>3. Order(p, d, C, Tail(A))
      BY <1>5, <1>8, <3>2, ServerSends
    <3> HIDE DEF C
    <3>4. Order(p, d, Append(C, z), Tail(A))
      BY <3>1, <3>2, <3>3, ServerSends
    <3> QED
      BY <3>1, <3>4
  <2> QED
    BY <1>1, <1>3, <2>1, <2>2, <2>3 DEF KexStep, Answers
<1> QED
  BY <1>1, <1>3, <1>10 DEF Outcome, KexStep, d

\* The identification line arrives; KEXINIT has been sent already.
LEMMA LineOutcome ==
  ASSUME NEW e \in Ends, NEW c, NEW p, NEW A, NEW N,
         IsSeq(N), Sound(e, c, p, A, N \o c.write_q), A # << >>, ~c.ident_in_done,
         c.error = "no"
  PROVE  Outcome(e, c, Handle(e, c, Head(A)), p, A, N)
<1> DEFINE x == Head(A)
           d == [c EXCEPT !.ident_in_done = TRUE]
           B == N \o c.write_q
<1>1. IsSeq(A) /\ IsSeq(Tail(A)) /\ x = A[1]
  BY Behind, TailOf
<1>2. x.m.t = "IDENT" /\ ~Won(x)
  BY <1>1 DEF Sound, LineFirst, Won
<1>3. /\ Shape(c) /\ Local(e, c) /\ Nonces(e, c, SendPlace(e, c).k)
      /\ Leads(e, ReadPlace(p), B, SendPlace(e, c)) /\ Single(A)
  BY DEF Sound, Good, AuthInv, Ends
<1>4. /\ DOMAIN d = Fields /\ d.ident_in_done /\ d.write_q = c.write_q
      /\ \A f \in Fields \ {"ident_in_done"} : d[f] = c[f]
  BY <1>3 DEF Shape, Fields
<1>5. c.sent_kexinit
  BY <1>3 DEF Local, Fresh
<1>6. d.sent_kexinit
  BY <1>4, <1>5 DEF Fields
<1>7. Handle(e, c, x) = d
  BY <1>2, <1>6 DEF Handle, MaybeStartKex
<1> HIDE DEF d, B
<1>8. /\ d.kex = c.kex /\ d.pending_keys = c.pending_keys /\ d.kexes = c.kexes
      /\ d.strict_kex = c.strict_kex /\ d.session_id = c.session_id
      /\ d.sent_kexinit = c.sent_kexinit /\ d.sent_newkeys = c.sent_newkeys
      /\ d.recv_newkeys = c.recv_newkeys /\ d.first_kex_done = c.first_kex_done
      /\ SameSent(c, d) /\ d.recv_cipher = c.recv_cipher /\ d.recv_seq = c.recv_seq
      /\ d.packets_io = c.packets_io /\ d.kex_blocks_app = c.kex_blocks_app
      /\ d.authed = c.authed /\ d.error = c.error
  BY <1>4 DEF SameSent, Fields
<1>9. Shape(d)
  BY <1>3, <1>4, <1>8 DEF Shape, SameSent
<1>10. ReadPlace(d) = ReadPlace(c) /\ SendPlace(e, d) = SendPlace(e, c)
  BY <1>8 DEF ReadPlace, SendPlace, SameSent
<1>11. KexLocal(e, c) => KexLocal(e, d)
  BY <1>8 DEF KexLocal
<1>12. Local(e, d)
  <2>1. Numbers(d) /\ (Fresh(d) <=> Fresh(c))
    BY <1>3, <1>8 DEF Local, Numbers, Fresh, SameSent
  <2> QED
    BY <1>3, <1>4, <1>8, <1>11, <2>1 DEF Local
<1>13. Half(e, d, N, ReadPlace(p))
  BY <1>3, <1>4, <1>8, <1>9, <1>10, <1>12, NoncesSame DEF Half, B
<1>14. ReadPlace(d) = Pass(Peer(e), ReadPlace(c), x)
  BY <1>2, <1>10 DEF Pass
<1>15. e = "client" => Order(d, p, Tail(A), B)
  <2> SUFFICES ASSUME e = "client" PROVE Order(d, p, Tail(A), B)
    OBVIOUS
  <2>1. Order(c, p, A, B)
    BY DEF Sound, B
  <2>2. (d.kexes > 1 => d.authed) /\ (d.kexes > 1 /\ d.kex # None => d.kex.theirs # None)
    BY <1>8, <2>1 DEF Order
  <2>3. d.error = "no"
    BY <1>8
  <2> QED
    BY <1>1, <1>2, <1>3, <1>8, <2>1, <2>2, <2>3, ClientTakes
<1>16. e = "server" => Order(p, d, B, Tail(A))
  <2> SUFFICES ASSUME e = "server" PROVE Order(p, d, B, Tail(A))
    OBVIOUS
  <2>1. Order(p, c, B, A)
    BY DEF Sound, B
  <2>2. d.kexes > 1 => d.authed
    BY <1>8, <2>1 DEF Order
  <2>3. d.error = "no"
    BY <1>8
  <2> QED
    BY <1>1, <1>8, <2>1, <2>2, <2>3, ServerTakes
<1>17. N \o d.write_q = B /\ Keeps(B, B)
  BY <1>4 DEF Keeps, B
<1>18. Outcome(e, c, d, p, A, N)
  BY <1>4, <1>13, <1>14, <1>15, <1>16, <1>17 DEF Outcome, B
<1> QED
  BY <1>7, <1>18

\* Only the server counts failures.
Counts(c, d) == "auth_fails" \in DOMAIN d /\ d.auth_fails = c.auth_fails

\* A client counts no failures: that is the server's part of on_userauth.
Uncounted(e, c, d) == e = "client" => d.auth_fails = c.auth_fails

\* No handler of the client's counts a failure.
LEMMA ClientCounts ==
  ASSUME NEW c, "auth_fails" \in DOMAIN c, NEW x, x.m.t \in Types,
         c.ident_in_done => x.m.t # "IDENT"
  PROVE  Counts(c, Handle("client", c, x))
<1> DEFINE D(a) == "auth_fails" \in DOMAIN a
<1>1. ASSUME NEW a, D(a), NEW m PROVE Counts(a, Queue(a, m))
  BY <1>1 DEF Queue, Counts
<1>2. ASSUME NEW a, D(a) PROVE Counts(a, StartKex("client", a))
  <2> DEFINE o == KexInit("client", a.kexes)
             q == Queue(a, o)
  <2>1. Counts(a, q)
    BY <1>1, <1>2
  <2> HIDE DEF q, o
  <2> QED
    BY <2>1 DEF StartKex, Counts, q, o
<1>3. ASSUME NEW a, D(a) PROVE Counts(a, TryCompleteKex("client", a))
  <2> DEFINE d == [a EXCEPT !.kex = None, !.sent_kexinit = FALSE,
                            !.pending_keys = None, !.packets_io = 0]
             f == [d EXCEPT !.first_kex_done = TRUE]
             g == [d EXCEPT !.kex_blocks_app = FALSE]
             h == Queue(f, Msg("SERVICE_REQUEST"))
  <2>1. D(d) /\ D(f) /\ D(g) /\ f.auth_fails = a.auth_fails /\ g.auth_fails = a.auth_fails
    BY <1>3
  <2>2. Counts(f, h)
    BY <1>1, <2>1
  <2>3. TryCompleteKex("client", a) \in {a, g, h}
    BY DEF TryCompleteKex, SendServiceRequest
  <2> HIDE DEF f, g, h
  <2> QED
    BY <1>3, <2>1, <2>2, <2>3 DEF Counts
<1>4. ASSUME NEW a, D(a) PROVE Counts(a, SendNewkeys("client", a))
  <2> DEFINE q == Queue(a, Msg("NEWKEYS"))
             k == IF q.pending_keys = None THEN q
                  ELSE [q EXCEPT !.send_cipher = q.pending_keys.send,
                                 !.pending_keys.send = Clear]
             s == [k EXCEPT !.sent_newkeys = TRUE,
                            !.send_seq = IF a.strict_kex THEN 0 ELSE @]
  <2>1. Counts(a, q)
    BY <1>1, <1>4
  <2>2. SendNewkeys("client", a) = TryCompleteKex("client", s)
    BY DEF SendNewkeys
  <2> HIDE DEF q
  <2>3. Counts(a, s)
    BY <2>1 DEF Counts
  <2> HIDE DEF s
  <2>4. Counts(s, TryCompleteKex("client", s))
    BY <1>3, <2>3 DEF Counts
  <2> QED
    BY <2>2, <2>3, <2>4 DEF Counts
<1>5. ASSUME NEW a, D(a), NEW m PROVE Counts(a, OnKexinit("client", a, m))
  <2> DEFINE k == IF a.kex = None THEN StartKex("client", a) ELSE a
  <2>1. Counts(a, k)
    BY <1>2, <1>5 DEF Counts
  <2> DEFINE c2s == CipherFor("client", k.kex.ours.enc_c2s, m.enc_c2s)
             s2c == CipherFor("client", k.kex.ours.enc_s2c, m.enc_s2c)
             n == [k EXCEPT !.kex.theirs = m, !.kex.c2s = c2s, !.kex.s2c = s2c,
                            !.strict_kex = @ \/ (m.strict /\ k.kex.ours.strict),
                            !.peer_ext_info = m.ext]
             q == Queue(n, [t |-> "ECDH_INIT", q_c |-> n.kex.secret])
             f == Fail(k, "protocol")
  <2>2. OnKexinit("client", a, m) \in {f, q}
    BY DEF OnKexinit
  <2> HIDE DEF k, c2s, s2c
  <2>3. Counts(a, n) /\ Counts(a, f)
    BY <2>1 DEF Counts, Fail
  <2> HIDE DEF n, f
  <2>4. Counts(n, q)
    BY <1>1, <2>3 DEF Counts
  <2> HIDE DEF q
  <2> QED
    BY <2>2, <2>3, <2>4 DEF Counts
<1>6. ASSUME NEW a, D(a), NEW m PROVE Counts(a, OnEcdhReply("client", a, m))
  <2> DEFINE f == FinishKex("client", a, a.kex.secret, m.q_s)
             g == [f EXCEPT !.kex.secret = None]
             s == SendNewkeys("client", g)
             h == Fail(a, "protocol")
  <2>1. OnEcdhReply("client", a, m) \in {h, s}
    BY DEF OnEcdhReply
  <2>2. Counts(a, h) /\ Counts(a, f)
    BY <1>6 DEF Counts, Fail, FinishKex
  <2> HIDE DEF f, h
  <2>3. Counts(a, g)
    BY <2>2 DEF Counts
  <2> HIDE DEF g
  <2>4. Counts(g, s)
    BY <1>4, <2>3 DEF Counts
  <2> HIDE DEF s
  <2> QED
    BY <2>1, <2>2, <2>3, <2>4 DEF Counts
<1>7. ASSUME NEW a, D(a) PROVE Counts(a, OnNewkeys("client", a))
  <2> DEFINE k == [a EXCEPT
                     !.recv_cipher = a.pending_keys.recv,
                     !.pending_keys = IF a.sent_newkeys THEN None
                                      ELSE [a.pending_keys EXCEPT !.recv = Clear],
                     !.recv_newkeys = TRUE]
             t == TryCompleteKex("client", k)
             h == Fail(a, "protocol")
  <2>1. OnNewkeys("client", a) \in {h, t}
    BY DEF OnNewkeys
  <2>2. Counts(a, h) /\ Counts(a, k)
    BY <1>7 DEF Counts, Fail
  <2> HIDE DEF k, h
  <2>3. Counts(k, t)
    BY <1>3, <2>2 DEF Counts
  <2> HIDE DEF t
  <2> QED
    BY <2>1, <2>2, <2>3 DEF Counts
<1>8. ASSUME NEW a, D(a) PROVE Counts(a, SendAuth(a))
  <2> DEFINE g == [a EXCEPT !.attempts = @ + 1]
             m == [t |-> "USERAUTH_REQUEST", try |-> client.tries[a.attempts + 1]]
  <2>1. SendAuth(a) = Queue(g, m) /\ Counts(a, g)
    BY <1>8 DEF SendAuth, Counts
  <2> HIDE DEF g, m
  <2> QED
    BY <1>1, <2>1 DEF Counts
<1>9. ASSUME NEW a, D(a) PROVE Counts(a, OnUserauthFailure(a))
  <2> DEFINE g == [a EXCEPT !.refused = @ + 1]
  <2>1. OnUserauthFailure(a) \in {SendAuth(g), g, Fail(g, "auth")}
    BY DEF OnUserauthFailure
  <2>2. Counts(a, g) /\ D(g)
    BY <1>9 DEF Counts
  <2> HIDE DEF g
  <2>3. Counts(g, SendAuth(g)) /\ Counts(g, Fail(g, "auth"))
    BY <1>8, <2>2 DEF Counts, Fail
  <2> QED
    BY <2>1, <2>2, <2>3 DEF Counts
<1>10. ASSUME NEW a, D(a), NEW m, m.t \in Types \ {"IDENT"}
      PROVE  Counts(a, HandlePayload("client", a, m))
  <2> DEFINE d == HandlePayload("client", a, m)
  <2>1. /\ Counts(a, a) /\ Counts(a, [a EXCEPT !.closed = TRUE])
        /\ \A why : Counts(a, Fail(a, why))
        /\ Counts(a, [a EXCEPT !.authed = TRUE, !.kex_blocks_app = FALSE])
    BY <1>10 DEF Counts, Fail
  <2>2. Counts(a, OnKexinit("client", a, m)) /\ Counts(a, OnEcdhReply("client", a, m))
        /\ Counts(a, OnNewkeys("client", a)) /\ Counts(a, SendAuth(a))
        /\ Counts(a, Queue(a, Msg("REPLY"))) /\ Counts(a, OnUserauthFailure(a))
    BY <1>1, <1>5, <1>6, <1>7, <1>8, <1>9, <1>10
  <2>3. /\ OnEcdhInit("client", a, m) = Fail(a, "protocol")
        /\ OnServiceRequest("client", a) = a /\ OnUserauthRequest("client", a, m) = a
        /\ OnServiceAccept("client", a) = SendAuth(a)
        /\ OnUserauthSuccess(a) = [a EXCEPT !.authed = TRUE, !.kex_blocks_app = FALSE]
        /\ OnChannelMsg(a) \in {a, Fail(a, "protocol")}
        /\ OnGlobalRequest(a) = Queue(a, Msg("REPLY"))
    BY DEF OnEcdhInit, OnServiceRequest, OnUserauthRequest, OnServiceAccept,
           OnUserauthSuccess, OnChannelMsg, OnGlobalRequest
  <2> QED
    BY <1>10, <2>1, <2>2, <2>3 DEF HandlePayload, Types, InClear, KexMsgs, Others,
                                  ToServerTalk, ToClientTalk
<1> DEFINE b == [c EXCEPT !.ident_in_done = TRUE]
           r == [c EXCEPT !.recv_cipher = IncIv(@), !.packets_io = Inc(@),
                          !.recv_seq = IF x.m.t = "NEWKEYS" /\ c.strict_kex
                                         THEN 0 ELSE Inc(@)]
<1>11. Counts(c, b) /\ Counts(c, r) /\ \A why : Counts(c, Fail(c, why))
  BY DEF Counts, Fail
<1>12. \/ Handle("client", c, x) \in {c, MaybeStartKex("client", b),
                                      Fail(c, "protocol"), Fail(c, "crypto")}
       \/ Handle("client", c, x) = HandlePayload("client", r, x.m) /\ c.ident_in_done
  BY DEF Handle, TryOnePacket
<1> HIDE DEF b, r
<1>13. Counts(c, MaybeStartKex("client", b))
  BY <1>2, <1>11 DEF MaybeStartKex, Counts
<1>14. c.ident_in_done => Counts(c, HandlePayload("client", r, x.m))
  <2>1. D(r) /\ r.auth_fails = c.auth_fails
    BY <1>11 DEF Counts
  <2>2. c.ident_in_done => x.m.t \in Types \ {"IDENT"}
    OBVIOUS
  <2> QED
    BY <1>10, <2>1, <2>2 DEF Counts
<1>15. Counts(c, c)
  BY DEF Counts
<1> QED
  BY <1>11, <1>12, <1>13, <1>14, <1>15

-----------------------------------------------------------------------------
(* All the packets a read completes.                                       *)

\* process_in's next turn.
LEMMA HandleSound ==
  ASSUME NEW e \in Ends, client \in Clients, Agreed, NEW c, NEW p, NEW A, NEW N,
         IsSeq(N), Sound(e, c, p, A, N \o c.write_q), A # << >>, c.error = "no"
  PROVE  LET d == Handle(e, c, Head(A))
         IN Sound(e, d, p, Tail(A), N \o d.write_q) /\ Uncounted(e, c, d)
<1> DEFINE x == Head(A)
           d == Handle(e, c, x)
<1>1. Good(e, d, p, Tail(A), N \o d.write_q)
  <2>1. Good(e, c, p, A, N \o c.write_q)
    BY DEF Sound
  <2> QED
    BY <2>1, HandleGood
<1>2. Outcome(e, c, d, p, A, N)
  <2>1. CASE ~c.ident_in_done
    BY <2>1, LineOutcome
  <2>2. CASE c.ident_in_done
    <3>1. x.m.t \in Types /\ x.m.t # "IDENT" /\ d = HandlePayload(e, Received(c, x), x.m)
      BY <2>2, Arrives
    <3> HIDE DEF d
    <3> SUFFICES Outcome(e, c, HandlePayload(e, Received(c, x), x.m), p, A, N)
      BY <3>1
    <3>2. CASE x.m.t \in KexMsgs
      <4>1. CASE e = "client"
        BY <2>2, <3>2, <4>1, ClientKexOutcome
      <4>2. CASE e = "server"
        BY <2>2, <3>2, <4>2, ServerKexOutcome
      <4> QED
        BY <4>1, <4>2 DEF Ends
    <3>3. CASE Talk(x)
      <4>1. CASE e = "client"
        BY <2>2, <3>3, <4>1, ClientTalkOutcome
      <4>2. CASE e = "server"
        BY <2>2, <3>3, <4>2, ServerTalkOutcome
      <4> QED
        BY <4>1, <4>2 DEF Ends
    <3>4. CASE x.m.t \in Others
      BY <2>2, <3>4, OthersOutcome
    <3> QED
      BY <3>1, <3>2, <3>3, <3>4 DEF Types, InClear, Talk
  <2> QED
    BY <2>1, <2>2
<1> HIDE DEF d
<1>3. Sound(e, d, p, Tail(A), N \o d.write_q)
  BY <1>1, <1>2, OutcomeSound
<1>4. Uncounted(e, c, d)
  <2>1. Good(e, c, p, A, N \o c.write_q) /\ Shape(c) /\ StreamInv(c, A)
    BY DEF Sound, Good
  <2>2. x \in Elems(A) /\ (c.ident_in_done => x.m.t # "IDENT")
    BY <2>1, TakeGood, TailElems DEF StreamInv
  <2>3. "auth_fails" \in DOMAIN c /\ x.m.t \in Types
    BY <2>1, <2>2 DEF Shape, Fields, StreamInv
  <2> QED
    BY <2>2, <2>3, ClientCounts DEF Counts, Uncounted, d
<1> QED
  BY <1>3, <1>4 DEF d

\* Of the first k packets of q none but the last fails.
Clean(e, c, q, k) ==
  \A i \in 1 .. k - 1 : HF!Fold(e, c, SubSeq(q, 1, i)).error = "no"

\* All the packets a read completes, none of which but the last fails; W is
\* what the peer has not yet written.
LEMMA BatchSound ==
  ASSUME NEW e \in Ends, client \in Clients, Agreed, NEW c, NEW p, NEW q, NEW W,
         NEW N, IsSeq(N), IsSeq(q), IsSeq(W), NEW k \in 0 .. Len(q),
         Sound(e, c, p, q \o W, N \o c.write_q), c.error = "no",
         Clean(e, c, q, k)
  PROVE  LET d == HF!Fold(e, c, SubSeq(q, 1, k))
         IN /\ Sound(e, d, p, SubSeq(q, k + 1, Len(q)) \o W, N \o d.write_q)
            /\ Uncounted(e, c, d)
<1> DEFINE S == Elems(q)
           s == SubSeq(q, 1, k)
           R(i) == SubSeq(q, i + 1, Len(q))
<1>1. q \in Seq(S) /\ Len(q) \in Nat /\ k \in Nat
  BY DEF IsSeq
<1>2. DOMAIN s = 1 .. k /\ \A i \in 1 .. k : s[i] = q[i]
  BY <1>1
<1>3. R(0) = q
  BY <1>1
<1>4. ASSUME NEW i \in 1 .. k
      PROVE  /\ IsSeq(R(i - 1)) /\ R(i - 1) # << >>
             /\ Head(R(i - 1)) = q[i] /\ Tail(R(i - 1)) = R(i)
  <2> HIDE DEF S
  <2>1. i \in 1 .. Len(q) /\ (i - 1) + 1 = i
    BY <1>1
  <2>2. SubSeq(q, (i - 1) + 1, Len(q)) = SubSeq(q, i, Len(q))
    BY <2>1
  <2> QED
    BY <1>1, <2>1, <2>2, RestStep, SeqOfElems
<1> HIDE DEF s, R, S
<1>5. PICK g : HF!IsChain(g, e, c, s, k) /\ HF!Fold(e, c, s) = g[k]
  BY <1>1, <1>2, HF!FoldChain
<1>6. g[0] = c /\ \A i \in 1 .. k : g[i] = Handle(e, g[i - 1], q[i])
  BY <1>1, <1>2, <1>5 DEF HF!IsChain
<1>7. ASSUME NEW i \in 0 .. k - 1 PROVE g[i].error = "no"
  <2>1. CASE i = 0
    BY <1>6, <2>1
  <2>2. CASE i \in 1 .. k - 1
    <3> DEFINE b == SubSeq(q, 1, i)
    <3>1. i \in Nat /\ i <= k /\ i \in 0 .. Len(q)
      BY <1>1, <2>2
    <3>2. DOMAIN b = 1 .. i /\ \A l \in 1 .. i : b[l] = q[l]
      BY <1>1, <3>1
    <3>3. \A l \in 1 .. i : b[l] = s[l]
      BY <1>1, <1>2, <3>1, <3>2
    <3>4. HF!Fold(e, c, b).error = "no"
      BY <2>2 DEF Clean
    <3> HIDE DEF b
    <3>5. PICK h : HF!IsChain(h, e, c, b, i) /\ HF!Fold(e, c, b) = h[i]
      BY <3>1, <3>2, HF!FoldChain
    <3>6. h[i] = g[i]
      <4>1. /\ i \in Nat /\ k \in Nat /\ i <= k
            /\ HF!IsChain(h, e, c, b, i) /\ HF!IsChain(g, e, c, s, k)
        BY <1>1, <1>5, <3>1, <3>5
      <4> QED
        BY <3>3, <4>1, HF!ChainPrefix
    <3> QED
      BY <3>4, <3>5, <3>6
  <2> QED
    BY <1>1, <2>1, <2>2
<1> DEFINE T == {i \in 0 .. k : /\ Sound(e, g[i], p, R(i) \o W, N \o g[i].write_q)
                               /\ Uncounted(e, c, g[i])}
<1>8. 0 \in T
  <2>1. Uncounted(e, c, g[0])
    BY <1>6 DEF Uncounted
  <2> QED
    BY <1>1, <1>3, <1>6, <2>1
<1>9. ASSUME NEW i \in 1 .. k, i - 1 \in T PROVE i \in T
  <2> DEFINE a == g[i - 1]
             h == R(i - 1)
  <2>1. /\ Sound(e, a, p, h \o W, N \o a.write_q)
        /\ Uncounted(e, c, a) /\ a.error = "no"
    <3>1. i - 1 \in 0 .. k - 1
      BY <1>1
    <3> QED
      BY <1>7, <1>9, <3>1
  <2>2. /\ IsSeq(h) /\ h # << >> /\ Head(h) = q[i] /\ Tail(h) = R(i)
        /\ g[i] = Handle(e, a, q[i])
    BY <1>4, <1>6
  <2> HIDE DEF a, h
  <2>3. /\ h \o W # << >> /\ Head(h \o W) = q[i]
        /\ Tail(h \o W) = R(i) \o W
    <3>1. /\ h \o W # << >> /\ Head(h \o W) = Head(h)
          /\ Tail(h \o W) = Tail(h) \o W
      BY <2>2, ConcatFront
    <3>2. Head(h) = q[i] /\ Tail(h) = R(i)
      BY <2>2
    <3> HIDE DEF R
    <3>3. QED  BY <3>1, <3>2
  <2>4. /\ Sound(e, g[i], p, R(i) \o W, N \o g[i].write_q)
        /\ Uncounted(e, a, g[i])
    BY <2>1, <2>2, <2>3, HandleSound
  <2>5. Uncounted(e, c, g[i])
    BY <2>1, <2>4 DEF Uncounted
  <2> QED
    BY <1>1, <2>4, <2>5
<1> HIDE DEF T
<1>10. k \in T
  BY SMTT(30), <1>1, <1>8, <1>9, IntervalInduction
<1> QED
  BY <1>5, <1>10 DEF T, s, R

\* The invariant of one side is that of the other.
LEMMA SoundMirror ==
  ASSUME NEW e \in Ends, NEW c, NEW p, NEW A, NEW B, Sound(e, c, p, A, B)
  PROVE  Sound(Peer(e), p, c, B, A)
<1>1. Good(Peer(e), p, c, B, A)
  BY GoodMirror DEF Sound
<1>2. Peer(Peer(e)) = e /\ (e = "client" <=> Peer(e) = "server")
      /\ (e = "server" <=> Peer(e) = "client")
  BY PeerFacts
<1> QED
  BY <1>1, <1>2 DEF Sound

-----------------------------------------------------------------------------
(* Sending.                                                                *)

\* A side that is authenticated sends something, or the client an attempt.
LEMMA SendSound ==
  ASSUME NEW e \in Ends, NEW c, NEW d, NEW p, NEW A, NEW N, IsSeq(N),
         Sound(e, c, p, A, N \o c.write_q), Good(e, d, p, A, N \o d.write_q),
         Half(e, d, N, ReadPlace(p)), ReadPlace(d) = ReadPlace(c),
         NEW y, d.write_q = Append(c.write_q, y), ~Won(y),
         d.authed = c.authed, d.error = c.error, d.ident_in_done = c.ident_in_done,
         e = "client" => d.kexes = c.kexes /\ d.kex = c.kex,
         c.authed \/ (e = "client" /\ ~Late(y))
  PROVE  Sound(e, d, p, A, N \o d.write_q)
<1> DEFINE B == N \o c.write_q
<1>1. N \o d.write_q = Append(B, y) /\ IsSeq(B) /\ IsSeq(A)
  <2>1. IsSeq(c.write_q) /\ IsSeq(A)
    BY DEF Sound, Good, Shape, StreamInv
  <2>2. IsSeq(N \o c.write_q)
    BY <2>1, AppendKeeps
  <2>3. N \o Append(c.write_q, y) = Append(N \o c.write_q, y)
    BY <2>1, AppendKeeps
  <2> QED
    BY <2>1, <2>2, <2>3
<1>2. Keeps(B, N \o d.write_q)
  BY AppendKeeps DEF Sound, Good, Shape
<1>3. e = "client" => Order(d, p, A, N \o d.write_q)
  <2> SUFFICES ASSUME e = "client" PROVE Order(d, p, A, Append(B, y))
    BY <1>1
  <2>1. Order(c, p, A, B) /\ (c.authed => p.authed)
    BY DEF Sound, Good, AuthInv, B
  <2>2. Order(d, p, A, B)
    BY <2>1 DEF Order
  <2>3. y.m.t \in LateTypes => p.authed
    BY <2>1 DEF Late
  <2> HIDE DEF B
  <2> QED
    BY <1>1, <2>2, <2>3, ClientSends
<1>4. e = "server" => Order(p, d, N \o d.write_q, A)
  <2> SUFFICES ASSUME e = "server" PROVE Order(p, d, Append(B, y), A)
    BY <1>1
  <2>1. Order(p, c, B, A)
    BY DEF Sound, B
  <2>2. Order(p, d, B, A)
    BY <2>1 DEF Order
  <2> HIDE DEF B
  <2> QED
    BY <1>1, <2>2, ServerSends
<1>5. LineFirst(d, A) /\ LineFirst(p, N \o d.write_q)
  BY <1>2 DEF Sound, LineFirst, Keeps, B
<1> QED
  BY <1>3, <1>4, <1>5 DEF Sound, Half

\* maybe_rekey.
LEMMA MaybeRekeySound ==
  ASSUME NEW e \in Ends, client \in Clients, Agreed, NEW c, NEW p, NEW A, NEW N,
         IsSeq(N), Sound(e, c, p, A, N \o c.write_q)
  PROVE  Sound(e, MaybeRekey(e, c), p, A, N \o MaybeRekey(e, c).write_q)
<1>1. CASE MaybeRekey(e, c) = c
  BY <1>1
<1>2. CASE MaybeRekey(e, c) # c
  <2> DEFINE d == StartKex(e, c)
             y == Sealed(c, KexInit(e, c.kexes))
  <2>1. MaybeRekey(e, c) = d /\ e = "server" /\ c.authed /\ c.kex = None
    BY <1>2 DEF MaybeRekey
  <2>2. Good(e, d, p, A, N \o d.write_q)
    <3>1. Good(e, c, p, A, N \o c.write_q)
      BY DEF Sound
    <3> QED
      BY <2>1, <3>1, MaybeKexGood
  <2>3. Half(e, c, N, ReadPlace(p)) /\ Suite(e) \in {"chacha"} \union Gcm
    BY <2>1, SuiteFacts DEF Sound, Half, Good
  <2>4. /\ Half(e, d, N, ReadPlace(p)) /\ ReadPlace(d) = ReadPlace(c)
        /\ d.write_q = Append(c.write_q, y)
        /\ d.authed = c.authed /\ d.error = c.error
        /\ d.ident_in_done = c.ident_in_done
    BY <2>1, <2>3, StartKexHalf
  <2>5. ~Won(y)
    BY DEF Won, Sealed, KexInit
  <2>6. e # "client"
    BY <2>1
  <2> HIDE DEF d, y
  <2>7. Sound(e, d, p, A, N \o d.write_q)
    BY <2>1, <2>2, <2>4, <2>5, <2>6, SendSound
  <2> QED
    BY <2>1, <2>7
<1> QED
  BY <1>1, <1>2

\* A channel packet or a request.
LEMMA AppSound ==
  ASSUME NEW e \in Ends, client \in Clients, Agreed, NEW c, NEW p, NEW A, NEW N,
         IsSeq(N), Sound(e, c, p, A, N \o c.write_q), c.authed,
         NEW m, m.t \in {"DATA", "CONTROL", "REQUEST"}
  PROVE  Sound(e, Queue(c, m), p, A, N \o Queue(c, m).write_q)
<1> DEFINE d == Queue(c, m)
           y == Sealed(c, m)
<1>1. Good(e, c, p, A, N \o c.write_q) /\ Shape(c)
  BY DEF Sound, Good
<1>2. Good(e, d, p, A, N \o d.write_q)
  <2>1. Keyed(c) /\ Keyed(p)
    BY <1>1, GoodFacts
  <2>2. m.t \in Others /\ m.t \notin KexMsgs \union {"EXT_INFO", "NEWKEYS"}
    BY DEF Others, KexMsgs
  <2> QED
    BY <1>1, <2>1, <2>2, QueueGood
<1>3. Half(e, c, N, ReadPlace(p)) /\ Suite(e) \in {"chacha"} \union Gcm
  BY SuiteFacts DEF Sound, Half, Good, Ends
<1>4. m.t \notin KexMsgs \union {"IDENT"} /\ ~Won(y)
  BY DEF KexMsgs, Won, Sealed
<1>5. Half(e, d, N, ReadPlace(p)) /\ ReadPlace(d) = ReadPlace(c)
  BY <1>3, <1>4, QueueHalf
<1>6. d.write_q = Append(c.write_q, y)
  BY <1>1, QueueFields DEF Sealed
<1>7. \A f \in Fields \ QueueTouches : d[f] = c[f]
  BY <1>1, QueueDoes
<1> HIDE DEF d, y
<1>8. /\ d.authed = c.authed /\ d.error = c.error /\ d.ident_in_done = c.ident_in_done
      /\ d.kexes = c.kexes /\ d.kex = c.kex
  BY <1>7 DEF Fields, QueueTouches
<1>9. Sound(e, d, p, A, N \o d.write_q)
  BY <1>2, <1>4, <1>5, <1>6, <1>8, SendSound
<1> QED
  BY <1>9 DEF d

\* The client's next attempt, sent without waiting.
LEMMA AheadSound ==
  ASSUME client \in Clients, Agreed, NEW c, NEW p, NEW A, NEW N, IsSeq(N),
         Sound("client", c, p, A, N \o c.write_q),
         Good("client", SendAuth(c), p, A, N \o SendAuth(c).write_q)
  PROVE  Sound("client", SendAuth(c), p, A, N \o SendAuth(c).write_q)
<1> DEFINE g == [c EXCEPT !.attempts = @ + 1]
           m == [t |-> "USERAUTH_REQUEST", try |-> client.tries[c.attempts + 1]]
           d == Queue(g, m)
           y == Sealed(g, m)
<1>1. SendAuth(c) = d /\ "client" \in Ends
  BY DEF SendAuth, Ends
<1>2. /\ Half("client", c, N, ReadPlace(p)) /\ Shape(c) /\ Local("client", c)
      /\ Suite("client") \in {"chacha"} \union Gcm
  BY SuiteFacts DEF Sound, Half, Good
<1>3. DOMAIN g = Fields /\ \A f \in Fields \ {"attempts"} : g[f] = c[f]
  BY <1>2 DEF Shape, Fields
<1>4. m.t \notin KexMsgs \union {"IDENT"} /\ ~Won(y) /\ ~Late(y)
  BY DEF KexMsgs, Won, Late, LateTypes, Sealed
<1> HIDE DEF g, m
<1>5. /\ SameKex(c, g) /\ SameSent(c, g) /\ g.write_q = c.write_q
      /\ g.kex_blocks_app = c.kex_blocks_app /\ g.recv_cipher = c.recv_cipher
      /\ g.recv_seq = c.recv_seq /\ g.packets_io = c.packets_io
      /\ g.authed = c.authed /\ g.error = c.error /\ g.kexes = c.kexes
      /\ g.kex = c.kex /\ g.ident_in_done = c.ident_in_done
  BY <1>3 DEF SameKex, SameSent, Fields
<1>6. Shape(g)
  BY <1>2, <1>3, <1>5 DEF Shape, SameSent
<1>7. /\ Numbers(g) /\ (c.kex # None => g.kex_blocks_app)
      /\ (Fresh(c) => g.recv_cipher = Clear)
  BY <1>2, <1>5 DEF Local, KexLocal, Numbers, SameSent
<1>8. /\ Half("client", g, N, ReadPlace(p))
      /\ ReadPlace(g) = Place(g.recv_cipher, g.recv_seq, ReadPlace(c).k, ReadPlace(c).j)
  BY <1>1, <1>2, <1>5, <1>6, <1>7, StayHalf
<1>9. ReadPlace(g) = ReadPlace(c)
  BY <1>5, <1>8, PlaceParts DEF ReadPlace
<1>10. Half("client", d, N, ReadPlace(p)) /\ ReadPlace(d) = ReadPlace(g)
  BY <1>1, <1>2, <1>4, <1>8, QueueHalf
<1>11. /\ d.write_q = Append(g.write_q, y)
       /\ \A f \in Fields \ QueueTouches : d[f] = g[f]
  BY <1>6, QueueFields DEF Sealed, QueueTouches
<1> HIDE DEF d, y
<1>12. /\ d.authed = g.authed /\ d.error = g.error /\ d.kexes = g.kexes
       /\ d.kex = g.kex /\ d.ident_in_done = g.ident_in_done
  BY <1>11 DEF Fields, QueueTouches
<1>13. Sound("client", d, p, A, N \o d.write_q)
  BY <1>1, <1>4, <1>5, <1>9, <1>10, <1>11, <1>12, SendSound
<1> QED
  BY <1>1, <1>13

\* A packet goes to the network; after the line, KEXINIT has been sent already.
LEMMA WriteSound ==
  ASSUME NEW e \in Ends, NEW c, NEW p, NEW A, NEW N, NEW K,
         IsSeq(N), Sound(e, c, p, A, N \o c.write_q), c.write_q # << >>,
         IsSeq(K), K \o Tail(c.write_q) = N \o c.write_q
  PROVE  LET b == [c EXCEPT !.write_q = Tail(@)]
             d == IF Head(c.write_q).m.t = "IDENT" THEN MaybeStartKex(e, b) ELSE b
         IN Sound(e, d, p, A, K \o d.write_q) /\ d.auth_fails = c.auth_fails
<1> DEFINE x == Head(c.write_q)
           b == [c EXCEPT !.write_q = Tail(@)]
           d == IF x.m.t = "IDENT" THEN MaybeStartKex(e, b) ELSE b
           B == N \o c.write_q
<1>1. Shape(c) /\ IsSeq(c.write_q) /\ Good(e, c, p, A, B) /\ Local(e, c) /\ Local(Peer(e), p)
  BY DEF Sound, Good, Shape
<1>2. /\ DOMAIN b = Fields /\ b.write_q = Tail(c.write_q)
      /\ \A f \in Fields \ {"write_q"} : b[f] = c[f]
  BY <1>1 DEF Shape, Fields
<1> HIDE DEF b, B
<1>3. /\ SameKex(c, b) /\ SameSent(c, b) /\ b.recv_cipher = c.recv_cipher
      /\ b.recv_seq = c.recv_seq /\ b.packets_io = c.packets_io
      /\ b.kex_blocks_app = c.kex_blocks_app
      /\ b.authed = c.authed /\ b.error = c.error /\ b.ident_in_done = c.ident_in_done
      /\ b.kexes = c.kexes /\ b.kex = c.kex /\ b.attempts = c.attempts
      /\ b.auth_fails = c.auth_fails /\ b.send_cipher = c.send_cipher
      /\ b.sent_kexinit = c.sent_kexinit /\ b.pending_keys = c.pending_keys
      /\ b.closed = c.closed
  BY <1>2 DEF SameKex, SameSent, Fields
<1>4. Shape(b)
  BY <1>1, <1>2, <1>3, TailElems DEF Shape
<1>5. Moves(c, b, p)
  BY <1>1, <1>3, <1>4, GoodFacts DEF Moves, Keyed, SameKex
<1>6. Good(e, b, p, A, B)
  BY <1>1, <1>5, MoveGood
<1>7. ReadPlace(b) = ReadPlace(c) /\ SendPlace(e, b) = SendPlace(e, c)
  BY <1>3 DEF ReadPlace, SendPlace, SameSent
<1>8. Local(e, b)
  <2>1. /\ Numbers(b) /\ (c.kex # None => b.kex_blocks_app)
        /\ (Fresh(c) => b.recv_cipher = Clear)
    BY <1>1, <1>3 DEF Local, KexLocal, Numbers, SameSent
  <2> QED
    BY <1>1, <1>3, <2>1, LocalSame
<1>9. Nonces(e, b, SendPlace(e, b).k)
  BY <1>3, <1>7, NoncesSame DEF Sound
<1>10. e = "client" => Order(b, p, A, B)
  BY <1>3 DEF Sound, Order, B
<1>11. e = "server" => Order(p, b, B, A)
  BY <1>3 DEF Sound, Order, B
<1>12. LineFirst(b, A) /\ LineFirst(p, B)
  BY <1>3 DEF Sound, LineFirst, B
<1>13. Sound(e, b, p, A, B)
  BY <1>6, <1>7, <1>8, <1>9, <1>10, <1>11, <1>12 DEF Sound, B
<1>14. x.m.t = "IDENT" => c.sent_kexinit
  <2> SUFFICES ASSUME x.m.t = "IDENT" PROVE c.kex # None
    BY <1>1 DEF Local
  <2> SUFFICES ASSUME c.kex = None PROVE FALSE
    OBVIOUS
  <2>1. \E i \in 1 .. Len(B) : B[i] = x
    <3>1. /\ c.write_q \in Seq(Elems(c.write_q)) /\ N \in Seq(Elems(N))
          /\ Len(c.write_q) \in Nat /\ Len(c.write_q) > 0 /\ x = c.write_q[1]
      BY <1>1, TailElems DEF IsSeq
    <3> DEFINE w == c.write_q
               F == Elems(w) \union Elems(N)
    <3>2. w \in Seq(F) /\ N \in Seq(F)
      BY <3>1, SeqDef
    <3>3. Len(B) = Len(N) + Len(w) /\ Len(N) \in Nat /\ B[Len(N) + 1] = w[1]
      BY <3>1, <3>2 DEF B
    <3> QED
      BY <3>1, <3>3
  <2>2. ~p.ident_in_done
    BY <1>1, <2>1 DEF Good, StreamInv
  <2>3. p.kexes = 1 /\ p.kex # None /\ p.kex.theirs = None
    BY <1>1, <2>2 DEF Local, Fresh
  <2>4. Peer(e) \in Ends
    BY PeerFacts
  <2> DEFINE u == ReadPlace(c)
             v == SendPlace(Peer(e), p)
  <2>5. IsPlace(u) /\ u.k = c.kexes /\ u.j = 0 /\ c.kexes \in Nat /\ c.kexes > 0
    BY <1>1, Phases
  <2>6. v.k = 0 /\ v.j = 1
    BY <1>1, <2>3, <2>4, Phases
  <2>7. Leads(Peer(e), u, A, v) /\ IsSeq(A)
    BY <1>1 DEF Sound, Good, StreamInv
  <2> HIDE DEF u, v
  <2>8. Rank(u) <= Rank(v)
    BY <2>5, <2>7, LeadsOrder
  <2> QED
    BY <2>5, <2>6, <2>8 DEF Rank
<1>15. d = b
  BY <1>3, <1>14 DEF MaybeStartKex
<1>16. K \o b.write_q = B
  BY <1>2 DEF B
<1>17. Sound(e, d, p, A, K \o d.write_q)
  BY <1>13, <1>15, <1>16
<1> QED
  BY <1>3, <1>15, <1>17 DEF b

-----------------------------------------------------------------------------
(* The two connections and the network.                                    *)

\* The invariant for both sides, with what is still in a write queue counted
\* as on its way.
Sounds ==
  /\ \A e \in Ends : Sound(e, conn[e], conn[Peer(e)], Toward(e), Toward(Peer(e)))
  /\ conn["client"].auth_fails = 0

\* The inductive invariant.
KInv == IInv /\ Agreed /\ apps \in [Ends -> 0 .. client.apps] /\ Sounds

\* Nothing of this is about anything that changes, but for the two connections
\* and the streams between them.
LEMMA SoundLater ==
  ASSUME client' = client, NEW f, NEW a, NEW b, NEW A, NEW B, Sound(f, a, b, A, B)
  PROVE  Sound(f, a, b, A, B)'
<1>1. \A c, r, C, D : AuthInv(c, r, C, D) => AuthInv(c, r, C, D)'
  BY DEF AuthInv
<1>2. Good(f, a, b, A, B)'
  BY <1>1 DEF Sound, Good
<1>3. \A e, k : KexInit(e, k)' = KexInit(e, k)
  BY DEF KexInit
<1>4. \A e : Suite(e)' = Suite(e)
  BY DEF Suite, CipherFor
<1>5. \A e, k : KeyOf(e, k)' = KeyOf(e, k)
  BY <1>4 DEF KeyOf
<1>6. \A e, k, j : KexMsg(e, k, j)' = KexMsg(e, k, j)
  BY <1>3 DEF KexMsg
<1>7. \A e, c : Local(e, c) => Local(e, c)'
  <2>1. \A e, c : KexLocal(e, c) => KexLocal(e, c)'
    BY <1>3, <1>4, <1>5 DEF KexLocal
  <2> QED
    BY <2>1 DEF Local
<1>8. \A e, c, k : Nonces(e, c, k) => Nonces(e, c, k)'
  BY <1>4, <1>5 DEF Nonces
<1>9. \A e, u, C, v : Leads(e, u, C, v) => Leads(e, u, C, v)'
  <2>1. \A e, u, x : Fits(e, u, x) => Fits(e, u, x)'
    BY <1>6 DEF Fits
  <2>2. \A e, u, x : Pass(e, u, x)' = Pass(e, u, x)
    BY <1>5 DEF Pass
  <2>3. \A e, g, C : Walk(e, g, C) => Walk(e, g, C)'
    BY <2>1, <2>2 DEF Walk
  <2> QED
    BY <2>3 DEF Leads
<1> QED
  BY <1>2, <1>7, <1>8, <1>9 DEF Sound

\* A step of side e: what it has read is gone from the network.
LEMMA SoundStep ==
  ASSUME IInv, NEW e \in Ends, NEW d, NEW N, NEW M,
         client' = client,
         conn' = [conn EXCEPT ![e] = d],
         DOMAIN net' = Ends, net'[e] = M, net'[Peer(e)] = N,
         Sound(e, d, conn[Peer(e)], M \o conn[Peer(e)].write_q, N \o d.write_q),
         conn["client"].auth_fails = 0,
         e = "client" => d.auth_fails = conn[e].auth_fails
  PROVE  Sounds'
<1> DEFINE o == Peer(e)
           p == conn[o]
<1>1. /\ o \in Ends /\ o # e /\ Peer(o) = e
      /\ \A f \in Ends : f = e \/ f = o
  BY PeerFacts
<1>2. DOMAIN conn' = Ends /\ conn'[e] = d /\ conn'[o] = p
  BY <1>1 DEF IInv
<1>3. /\ Toward(e)' = M \o p.write_q /\ Toward(o)' = N \o d.write_q
  BY <1>1, <1>2 DEF Toward
<1>4. Sound(e, d, p, M \o p.write_q, N \o d.write_q)
  OBVIOUS
<1>5. Sound(o, p, d, N \o d.write_q, M \o p.write_q)
  BY <1>4, SoundMirror
<1>6. \A f, a, b, A, B : Sound(f, a, b, A, B) => Sound(f, a, b, A, B)'
  BY SoundLater
<1>7. conn'["client"].auth_fails = 0
  <2>1. "client" \in Ends
    BY DEF Ends
  <2> QED
    BY <1>1, <1>2, <2>1
<1> QED
  BY <1>1, <1>2, <1>3, <1>4, <1>5, <1>6, <1>7 DEF Sounds

\* The invariant as side e sees it.
LEMMA SoundAt ==
  ASSUME KInv, NEW e \in Ends
  PROVE  LET c == conn[e]
             p == conn[Peer(e)]
         IN /\ Sound(e, c, p, net[e] \o p.write_q, net[Peer(e)] \o c.write_q)
            /\ IsSeq(net[e]) /\ IsSeq(net[Peer(e)])
            /\ IsSeq(c.write_q) /\ IsSeq(p.write_q)
            /\ Peer(e) \in Ends /\ Peer(e) # e
            /\ client \in Clients /\ Agreed /\ IInv /\ DOMAIN net = Ends
            /\ conn["client"].auth_fails = 0
<1>1. Peer(e) \in Ends /\ Peer(e) # e /\ Peer(Peer(e)) = e
  BY PeerFacts
<1>2. Sound(e, conn[e], conn[Peer(e)], Toward(e), Toward(Peer(e)))
  BY DEF KInv, Sounds
<1>3. /\ Toward(e) = net[e] \o conn[Peer(e)].write_q
      /\ Toward(Peer(e)) = net[Peer(e)] \o conn[e].write_q
  BY <1>1 DEF Toward
<1>4. IInv /\ Agreed /\ conn["client"].auth_fails = 0
  BY DEF KInv, Sounds
<1> QED
  BY <1>1, <1>2, <1>3, <1>4, InvAt

-----------------------------------------------------------------------------
(* The invariant holds at first.                                           *)

\* A fresh connection that has queued its line and its KEXINIT.
LEMMA FirstHalf ==
  ASSUME NEW e \in Ends, Suite(e) \in {"chacha"} \union Gcm
  PROVE  LET d == StartKex(e, Connection)
             u == Place(Clear, 0, 0, 0)
             y == Sealed(Connection, KexInit(e, 0))
         IN /\ Half(e, d, << >>, u) /\ ReadPlace(d) = u
            /\ d.write_q = Append(<<Ident>>, y)
            /\ ~d.authed /\ d.error = "no" /\ d.kexes = 1 /\ d.auth_fails = 0
<1> DEFINE c == Connection
           m == KexInit(e, 0)
           q == Queue(c, m)
           k == [ours |-> m, theirs |-> None, c2s |-> "", s2c |-> "",
                 secret |-> IF e = "client" THEN <<0>> ELSE None]
           d == StartKex(e, c)
           u == Place(Clear, 0, 0, 0)
           y == Sealed(c, m)
<1>1. /\ DOMAIN c = Fields /\ c.kexes = 0 /\ c.write_q = <<Ident>>
      /\ c.send_cipher = Clear /\ c.send_seq = 0 /\ c.recv_cipher = Clear
      /\ c.recv_seq = 0 /\ c.packets_io = 0 /\ c.used = {} /\ c.reused = FALSE
      /\ c.strict_kex = FALSE /\ c.session_id = None /\ c.pending_keys = None
      /\ c.authed = FALSE /\ c.error = "no" /\ c.first_kex_done = FALSE
      /\ c.ident_in_done = FALSE /\ c.auth_fails = 0
  BY DEF Connection, Fields
<1>2. IsSeq(<< >>) /\ IsSeq(<<Ident>>) /\ <<Ident>> = Append(<< >>, Ident)
      /\ << >> \o <<Ident>> = <<Ident>>
  <2> DEFINE i == Ident
  <2> HIDE DEF i
  <2>1. << >> \in Seq({}) /\ <<i>> \in Seq({i}) /\ <<i>> = Append(<< >>, i)
        /\ << >> \o <<i>> = <<i>>
    OBVIOUS
  <2> QED
    BY <2>1, SeqOfElems DEF i
<1>3. Clear.key = None /\ DOMAIN Clear = {"key", "kind", "iv"}
  BY DEF Clear
<1>4. Shape(c)
  BY <1>1, <1>2, <1>3 DEF Shape
<1> HIDE DEF c, m
<1>5. /\ Shape(q) /\ q.send_cipher = IncIv(Clear) /\ q.send_seq = Inc(0)
      /\ q.packets_io = Inc(0)
      /\ q.reused = (c.reused \/ <<c.send_cipher.key, Nonce(c.send_cipher, c.send_seq)>> \in c.used)
      /\ q.used = c.used
      /\ \A f \in Fields \ QueueTouches : q[f] = c[f]
  <2> HIDE DEF k
  <2>1. /\ Shape(q) /\ q.send_cipher = IncIv(c.send_cipher)
        /\ q.send_seq = Inc(c.send_seq) /\ q.packets_io = Inc(c.packets_io)
        /\ \A f \in Fields \ QueueTouches : q[f] = c[f]
    BY <1>4, QueueDoes
  <2>2. q.reused = (c.reused \/ <<c.send_cipher.key, Nonce(c.send_cipher, c.send_seq)>> \in c.used)
    BY <1>4, QueueDoes
  <2>3. q.used = IF c.send_cipher.key = None THEN c.used
                 ELSE c.used \union {<<c.send_cipher.key, Nonce(c.send_cipher, c.send_seq)>>}
    BY <1>4, QueueDoes
  <2> HIDE DEF q
  <2> QED
    BY <1>1, <1>3, <2>1, <2>2, <2>3
<1>6. q.write_q = Append(<<Ident>>, y)
  BY <1>1, <1>4, QueueFields DEF Sealed
<1>7. q.send_cipher = Clear
  BY <1>5 DEF IncIv, Clear, Gcm
<1>8. q.used = {} /\ ~q.reused
  BY <1>1, <1>5
<1>9. /\ m.t = "KEXINIT" /\ m # None /\ m = KexMsg(e, 0, 0)
  BY RecordNotNone DEF KexInit, KexMsg, m
<1>10. /\ DOMAIN k = {"ours", "theirs", "c2s", "s2c", "secret"} /\ k # None
       /\ k.ours = m /\ k.theirs = None
       /\ k.secret = IF e = "client" THEN <<0>> ELSE None
  BY RecordNotNone
<1>11. u.ci = Clear /\ u.sq = 0 /\ u.k = 0 /\ u.j = 0
  BY PlaceParts
<1> HIDE DEF u, y
<1>12. Leads(e, u, << >> \o c.write_q, u)
  <2>1. Leads(e, u, << >>, u)
    BY LeadsEmpty
  <2>2. Ident.m.t = "IDENT"
    BY DEF Ident, Msg
  <2>3. Fits(e, u, Ident) /\ Pass(e, u, Ident) = u
    BY <2>2 DEF Fits, Pass
  <2>4. Leads(e, u, Append(<< >>, Ident), Pass(e, u, Ident))
    BY <1>2, <2>1, <2>3, LeadsAppend
  <2> QED
    BY <1>1, <1>2, <2>3, <2>4
<1>13. Leads(e, u, << >> \o q.write_q, Pass(e, u, y))
  <2>1. m.t # "IDENT" /\ m = KexMsg(e, u.k, u.j)
    BY <1>9, <1>11
  <2> QED
    BY <1>1, <1>2, <1>4, <1>11, <1>12, <2>1, QueueLeads DEF y
<1>14. Pass(e, u, y) = Place(Clear, q.send_seq, 0, 1)
  <2>1. y.m = m
    BY DEF Sealed, y
  <2>2. IncIv(Clear) = Clear
    BY DEF IncIv, Clear, Gcm
  <2> QED
    BY <1>5, <1>9, <1>11, <2>1, <2>2 DEF Pass, KexMsgs
<1>15. d = [q EXCEPT !.kexes = @ + 1, !.sent_kexinit = TRUE,
                     !.sent_newkeys = FALSE, !.recv_newkeys = FALSE,
                     !.kex_blocks_app = TRUE, !.kex = k]
  BY <1>1 DEF StartKex, m
<1> HIDE DEF q, k, d
<1>16. /\ DOMAIN d = Fields /\ d.kexes = q.kexes + 1 /\ d.sent_kexinit = TRUE
       /\ d.sent_newkeys = FALSE /\ d.recv_newkeys = FALSE
       /\ d.kex_blocks_app = TRUE /\ d.kex = k
       /\ \A f \in Fields \ {"kexes", "sent_kexinit", "sent_newkeys",
                             "recv_newkeys", "kex_blocks_app", "kex"} : d[f] = q[f]
  BY <1>5, <1>15 DEF Shape, Fields
<1>17. /\ q.kexes = 0 /\ q.pending_keys = None /\ q.session_id = None
       /\ q.strict_kex = FALSE /\ q.first_kex_done = FALSE /\ q.ident_in_done = FALSE
       /\ q.recv_cipher = Clear /\ q.recv_seq = 0
       /\ q.authed = FALSE /\ q.error = "no" /\ q.auth_fails = 0
  BY <1>1, <1>5 DEF Fields, QueueTouches
<1>18. SameSent(q, d) /\ d.write_q = q.write_q /\ d.packets_io = q.packets_io
  BY <1>16 DEF SameSent, Fields
<1>19. /\ d.kexes = 1 /\ d.pending_keys = None /\ d.session_id = None
       /\ d.strict_kex = FALSE /\ d.first_kex_done = FALSE /\ d.ident_in_done = FALSE
       /\ d.recv_cipher = Clear /\ d.recv_seq = 0
       /\ d.authed = FALSE /\ d.error = "no" /\ d.auth_fails = 0
  BY <1>16, <1>17 DEF Fields
<1>20. Shape(d)
  BY <1>5, <1>16, <1>18 DEF Shape, SameSent
<1>21. Numbers(d)
  <2>1. 0 \in 0 .. SeqSpace - 1
    BY TransportAssumptions
  <2>2. Inc(0) \in 0 .. SeqSpace - 1
    BY <2>1, IncNumber
  <2> QED
    BY <1>5, <1>18, <1>19, <2>1, <2>2 DEF Numbers, SameSent
<1>22. d.kexes - 1 = 0 /\ d.kex # None /\ d.kex.theirs = None /\ Fresh(d)
  BY <1>10, <1>16, <1>19 DEF Fresh
<1>23. KexLocal(e, d)
  BY <1>10, <1>16, <1>19, <1>22 DEF KexLocal, m
<1>24. Local(e, d)
  BY <1>16, <1>19, <1>21, <1>22, <1>23 DEF Local
<1>25. ReadPlace(d) = u
  BY <1>19, <1>22 DEF ReadPlace, u
<1>26. SendPlace(e, d) = Place(Clear, q.send_seq, 0, 1)
  BY <1>7, <1>18, <1>19, <1>22 DEF SendPlace, SameSent
<1>27. Nonces(e, d, SendPlace(e, d).k)
  <2>1. SendPlace(e, d).k = 0
    BY <1>26, PlaceParts
  <2>2. d.send_cipher = Clear /\ d.used = {} /\ ~d.reused
    BY <1>7, <1>8, <1>18 DEF SameSent
  <2>3. Nonces(e, d, 0)
    BY <2>2 DEF Nonces
  <2> QED
    BY <2>1, <2>3
<1>28. Half(e, d, << >>, u)
  BY <1>13, <1>14, <1>18, <1>20, <1>24, <1>26, <1>27 DEF Half
<1> QED
  BY <1>6, <1>18, <1>19, <1>25, <1>28 DEF d, c, u, y, m

\* Between two fresh connections there is nothing but their lines and KEXINITs.
LEMMA FirstOrder ==
  ASSUME NEW c, NEW s, NEW A, NEW B, NEW x, NEW y,
         A = << >> \o Append(<<Ident>>, x), B = << >> \o Append(<<Ident>>, y),
         x.m.t = "KEXINIT", x.m.cookie = 0, y.m.t = "KEXINIT",
         ~c.authed, ~s.authed, c.kexes = 1, s.kexes = 1, c.error = "no", s.error = "no"
  PROVE  /\ Order(c, s, A, B)
         /\ LineFirst(c, A) /\ LineFirst(s, B)
<1> DEFINE i == Ident
<1>1. i.m.t = "IDENT"
  BY DEF Ident, Msg
<1> HIDE DEF i
<1>2. ASSUME NEW z
      PROVE  LET C == << >> \o Append(<<i>>, z)
             IN /\ Len(C) = 2 /\ C[1] = i /\ C[2] = z /\ C # << >>
                /\ 1 .. Len(C) = {1, 2} /\ Elems(C) = {i, z}
  <2> DEFINE D == Append(<<i>>, z)
  <2>1. <<i>> \in Seq({i}) /\ Len(<<i>>) = 1 /\ <<i>>[1] = i
    OBVIOUS
  <2>2. IsSeq(<<i>>) /\ Elems(<<i>>) = {i}
    <3> DEFINE v == <<i>>
    <3>1. v \in Seq({i}) /\ Len(v) = 1 /\ v[1] = i
      BY <2>1
    <3> HIDE DEF v
    <3>2. IsSeq(v)
      BY <3>1, SeqOfElems
    <3>3. Elems(v) = {i}
      BY <3>1 DEF Elems
    <3> QED
      BY <3>2, <3>3 DEF v
  <2>3. /\ IsSeq(D) /\ Elems(D) = {i} \union {z} /\ Len(D) = 2
        /\ D[2] = z /\ D[1] = i
    BY <2>1, <2>2, AppendElems
  <2> HIDE DEF D
  <2>4. << >> \o D = D /\ D # << >>
    <3> DEFINE S == Elems(D)
    <3> HIDE DEF S
    <3>1. D \in Seq(S) /\ Len(D) = 2
      BY <2>3 DEF IsSeq, S
    <3>2. D # << >>
      <4>1. Len(<< >>) # 2
        OBVIOUS
      <4> QED
        BY Zenon, <3>1, <4>1
    <3>3. << >> \o D = D
      BY <3>1
    <3> QED
      BY <3>2, <3>3
  <2>5. 1 .. 2 = {1, 2}
    OBVIOUS
  <2> QED
    BY <2>3, <2>4, <2>5 DEF D
<1>3. /\ Len(A) = 2 /\ A[1] = i /\ A[2] = x /\ A # << >>
      /\ 1 .. Len(A) = {1, 2} /\ Elems(A) = {i, x}
  BY <1>2 DEF i
<1>4. /\ B # << >> /\ B[1] = i /\ Elems(B) = {i, y}
  BY <1>2 DEF i
<1>5. /\ ~Late(i) /\ ~Late(x) /\ ~Won(i) /\ ~Won(x)
      /\ i.m.t \notin LateTypes /\ y.m.t \notin LateTypes
  BY <1>1 DEF Late, LateTypes, Won
<1>6. LineFirst(c, A) /\ LineFirst(s, B)
  BY <1>1, <1>3, <1>4 DEF LineFirst
<1>7. \A j \in 1 .. Len(A) : ~Late(A[j])
  BY <1>3, <1>5
<1>8. \A z \in Elems(A) : ~Won(z)
  BY <1>3, <1>5
<1>9. \A z \in Elems(B) : z.m.t \notin LateTypes
  BY <1>4, <1>5
<1>10. Order(c, s, A, B)
  BY <1>7, <1>8, <1>9 DEF Order
<1> QED
  BY <1>6, <1>10

\* The two connections a session starts with.
LEMMA InitKInv == Init /\ Agreed => KInv
<1> SUFFICES ASSUME Init, Agreed PROVE KInv
  OBVIOUS
<1> DEFINE c == StartKex("client", Connection)
           s == StartKex("server", Connection)
           u == Place(Clear, 0, 0, 0)
           x == Sealed(Connection, KexInit("server", 0))
           y == Sealed(Connection, KexInit("client", 0))
           A == << >> \o s.write_q
           B == << >> \o c.write_q
<1>1. IInv /\ client \in Clients
  BY InitIInv DEF Init
<1>2. apps \in [Ends -> 0 .. client.apps]
  <2>1. client.apps \in Nat
    BY <1>1, TransportAssumptions
  <2> QED
    BY <2>1 DEF Init
<1>3. /\ "client" \in Ends /\ "server" \in Ends /\ "client" # "server"
      /\ Peer("client") = "server" /\ Peer("server") = "client"
      /\ \A e \in Ends : e = "client" \/ e = "server"
  BY DEF Ends, Peer
<1>4. Suite("client") \in {"chacha"} \union Gcm /\ Suite("server") \in {"chacha"} \union Gcm
  BY <1>1, SuiteFacts
<1>5. /\ Half("client", c, << >>, u) /\ ReadPlace(c) = u
      /\ c.write_q = Append(<<Ident>>, y)
      /\ ~c.authed /\ c.error = "no" /\ c.kexes = 1 /\ c.auth_fails = 0
  BY <1>3, <1>4, FirstHalf
<1>6. /\ Half("server", s, << >>, u) /\ ReadPlace(s) = u
      /\ s.write_q = Append(<<Ident>>, x)
      /\ ~s.authed /\ s.error = "no" /\ s.kexes = 1
  BY <1>3, <1>4, FirstHalf
<1>7. x.m.t = "KEXINIT" /\ x.m.cookie = 0 /\ y.m.t = "KEXINIT"
  BY DEF Sealed, KexInit
<1>8. /\ conn["client"] = c /\ conn["server"] = s
      /\ net["client"] = << >> /\ net["server"] = << >>
  BY <1>3 DEF Init
<1>9. Toward("client") = A /\ Toward("server") = B
  BY <1>3, <1>8 DEF Toward
<1> HIDE DEF c, s, u, x, y
<1>10. Good("client", c, s, A, B)
  <2>1. Good("client", conn["client"], conn[Peer("client")], Toward("client"), Toward(Peer("client")))
    BY <1>1, <1>3 DEF IInv
  <2> QED
    BY <1>3, <1>8, <1>9, <2>1
<1>11. Order(c, s, A, B) /\ LineFirst(c, A) /\ LineFirst(s, B)
  BY <1>5, <1>6, <1>7, FirstOrder
<1>12. /\ Local("client", c) /\ Nonces("client", c, SendPlace("client", c).k)
       /\ Leads("client", u, B, SendPlace("client", c))
       /\ Local("server", s) /\ Nonces("server", s, SendPlace("server", s).k)
       /\ Leads("server", u, A, SendPlace("server", s))
  BY <1>5, <1>6 DEF Half
<1> HIDE DEF A, B
<1>13. Sound("client", c, s, A, B)
  BY <1>3, <1>5, <1>6, <1>10, <1>11, <1>12 DEF Sound
<1>14. Sound("server", s, c, B, A)
  BY <1>3, <1>13, SoundMirror
<1>15. Sounds
  BY <1>3, <1>5, <1>8, <1>9, <1>13, <1>14 DEF Sounds
<1> QED
  BY <1>1, <1>2, <1>15 DEF KInv

-----------------------------------------------------------------------------
(* The actions.                                                            *)

\* peek_out and consume_out.
LEMMA WriteKeeps ==
  ASSUME KInv, NEW e \in Ends, Write(e)
  PROVE  Sounds'
<1> DEFINE c == conn[e]
           p == conn[Peer(e)]
           M == net[e]
           N == net[Peer(e)]
           A == M \o p.write_q
           x == Head(c.write_q)
           K == Append(N, x)
           b == [c EXCEPT !.write_q = Tail(@)]
           d == IF x.m.t = "IDENT" THEN MaybeStartKex(e, b) ELSE b
<1>1. /\ Sound(e, c, p, A, N \o c.write_q)
      /\ IsSeq(M) /\ IsSeq(N) /\ IsSeq(c.write_q)
      /\ Peer(e) \in Ends /\ Peer(e) # e /\ IInv /\ DOMAIN net = Ends
      /\ conn["client"].auth_fails = 0
  BY SoundAt
<1>2. /\ c.write_q # << >> /\ net' = [net EXCEPT ![Peer(e)] = K]
      /\ conn' = [conn EXCEPT ![e] = d] /\ client' = client
  BY <1>1 DEF Write
<1>3. DOMAIN net' = Ends /\ net'[e] = M /\ net'[Peer(e)] = K
  BY <1>1, <1>2
<1>4. IsSeq(K) /\ IsSeq(Tail(c.write_q)) /\ K \o Tail(c.write_q) = N \o c.write_q
  <2>1. IsSeq(K)
    BY <1>1, AppendElems
  <2>2. IsSeq(Tail(c.write_q))
    BY <1>1, <1>2, TailElems
  <2>3. K \o Tail(c.write_q) = N \o c.write_q
    BY <1>1, <1>2, ConcatElems
  <2> QED
    BY <2>1, <2>2, <2>3
<1> HIDE DEF A, K, M, N, p
<1>5. Sound(e, d, p, A, K \o d.write_q) /\ d.auth_fails = conn[e].auth_fails
  BY <1>1, <1>2, <1>4, WriteSound
<1> HIDE DEF d, c
<1> QED
  BY <1>1, <1>2, <1>3, <1>5, SoundStep DEF A, p

\* poll_ssh_read that completes packets.
LEMMA ReadKeeps ==
  ASSUME KInv, NEW e \in Ends, Read(e)
  PROVE  Sounds'
<1> DEFINE c == conn[e]
           p == conn[Peer(e)]
           M == net[e]
           N == net[Peer(e)]
           W == p.write_q
<1>1. /\ Sound(e, c, p, M \o W, N \o c.write_q)
      /\ IsSeq(M) /\ IsSeq(N) /\ IsSeq(W) /\ client \in Clients /\ Agreed
      /\ Peer(e) \in Ends /\ Peer(e) # e /\ IInv /\ DOMAIN net = Ends
      /\ conn["client"].auth_fails = 0
  BY SoundAt
<1>2. PICK k \in 1 .. Len(M) :
        LET f == FoldLeft(LAMBDA a, x : Handle(e, a, x), c, SubSeq(M, 1, k))
        IN /\ c.error = "no"
           /\ \A i \in 1 .. k - 1 :
                FoldLeft(LAMBDA a, x : Handle(e, a, x), c, SubSeq(M, 1, i)).error = "no"
           /\ Take(e, k)
           /\ conn' = [conn EXCEPT ![e] = IF f.error = "no" THEN MaybeRekey(e, f)
                                                            ELSE f]
           /\ UNCHANGED <<client, apps>>
  BY DEF Read, After
<1> DEFINE f == HF!Fold(e, c, SubSeq(M, 1, k))
           d == IF f.error = "no" THEN MaybeRekey(e, f) ELSE f
           L == SubSeq(M, k + 1, Len(M))
<1>3. FoldLeft(LAMBDA a, x : Handle(e, a, x), c, SubSeq(M, 1, k)) = f
  BY ProcessInFold
<1>4. c.error = "no" /\ Clean(e, c, M, k)
  <2>1. ASSUME NEW i \in 1 .. k - 1
        PROVE  HF!Fold(e, c, SubSeq(M, 1, i)).error = "no"
    <3>1. FoldLeft(LAMBDA a, x : Handle(e, a, x), c, SubSeq(M, 1, i))
            = HF!Fold(e, c, SubSeq(M, 1, i))
      BY ProcessInFold
    <3> QED
      BY <1>2, <3>1
  <2> QED
    BY <1>2, <2>1 DEF Clean
<1>5. /\ net' = [net EXCEPT ![e] = L] /\ client' = client
      /\ conn' = [conn EXCEPT ![e] = d]
  BY <1>2, <1>3 DEF Take
<1>6. DOMAIN net' = Ends /\ net'[e] = L /\ net'[Peer(e)] = N
  BY <1>1, <1>5
<1>7. k \in 0 .. Len(M)
  BY <1>1 DEF IsSeq
<1> HIDE DEF M, N, W, p
<1>8. /\ Sound(e, f, p, L \o W, N \o f.write_q)
      /\ Uncounted(e, c, f)
  BY <1>1, <1>7, <1>4, BatchSound
<1> HIDE DEF f, L
<1>9. Sound(e, d, p, L \o W, N \o d.write_q)
  BY <1>1, <1>8, MaybeRekeySound
<1>10. e = "client" => d.auth_fails = conn[e].auth_fails
  BY <1>8 DEF MaybeRekey, Uncounted
<1> HIDE DEF d
<1> QED
  BY <1>1, <1>5, <1>6, <1>9, <1>10, SoundStep DEF W, p

\* poll_ssh_read that completes none: only maybe_rekey runs.
LEMMA ReadPartialKeeps ==
  ASSUME KInv, NEW e \in Ends, ReadPartial(e)
  PROVE  Sounds'
<1> DEFINE d == MaybeRekey(e, conn[e])
<1>1. conn' = [conn EXCEPT ![e] = d] /\ net' = net /\ client' = client
  BY DEF ReadPartial
<1>2. Sound(e, d, conn[Peer(e)], net[e] \o conn[Peer(e)].write_q,
            net[Peer(e)] \o d.write_q)
  BY SoundAt, MaybeRekeySound
<1>3. IInv /\ DOMAIN net' = Ends /\ conn["client"].auth_fails = 0
  BY <1>1, SoundAt
<1>4. e = "client" => d.auth_fails = conn[e].auth_fails
  BY DEF MaybeRekey
<1> HIDE DEF d
<1> QED
  BY <1>1, <1>2, <1>3, <1>4, SoundStep

\* A channel packet or a request: its sender is authenticated.
LEMMA AppKeeps ==
  ASSUME KInv, NEW e \in Ends, NEW t \in {"DATA", "CONTROL", "REQUEST"},
         AppSend(e, t)
  PROVE  Sounds' /\ apps' \in [Ends -> 0 .. client.apps] /\ client' = client
<1> DEFINE m == Msg(t)
           d == Queue(conn[e], m)
<1>1. /\ conn' = [conn EXCEPT ![e] = d] /\ net' = net /\ client' = client
      /\ conn[e].authed
  BY DEF AppSend
<1>2. m.t = t
  BY DEF Msg
<1> HIDE DEF m
<1>3. Sound(e, d, conn[Peer(e)], net[e] \o conn[Peer(e)].write_q,
            net[Peer(e)] \o d.write_q)
  BY <1>1, <1>2, SoundAt, AppSound
<1>4. IInv /\ DOMAIN net' = Ends /\ conn["client"].auth_fails = 0
  BY <1>1, SoundAt
<1>5. apps' \in [Ends -> 0 .. client.apps]
  <2>1. client.apps \in Nat /\ apps \in [Ends -> 0 .. client.apps]
    BY TransportAssumptions DEF KInv, IInv
  <2>2. apps' = [apps EXCEPT ![e] = @ + 1] /\ apps[e] < client.apps
    BY DEF AppSend
  <2> QED
    BY <2>1, <2>2
<1>6. d.auth_fails = conn[e].auth_fails
  <2>1. Shape(conn[e])
    BY InvAt DEF KInv
  <2> QED
    BY <2>1 DEF Queue, Shape, Fields
<1> HIDE DEF d
<1> QED
  BY <1>1, <1>3, <1>4, <1>5, <1>6, SoundStep

\* An attempt that does not wait for the answer to the last.
LEMMA AheadKeeps ==
  ASSUME KInv, AuthAhead
  PROVE  Sounds'
<1> DEFINE e == "client"
           d == SendAuth(conn[e])
           p == conn[Peer(e)]
           A == net[e] \o p.write_q
<1>1. /\ e \in Ends /\ client' = client /\ net' = net
      /\ conn' = [conn EXCEPT ![e] = d]
  BY DEF AuthAhead, Ends
<1>2. IInv /\ DOMAIN net' = Ends /\ conn["client"].auth_fails = 0
  BY <1>1, SoundAt DEF KInv
<1>4. Good(e, d, p, A, net[Peer(e)] \o d.write_q)
  BY <1>2, AheadGood
<1>5. Sound(e, d, p, A, net[Peer(e)] \o d.write_q)
  BY <1>1, <1>4, SoundAt, AheadSound
<1>6. d.auth_fails = conn[e].auth_fails
  <2>1. Shape(conn[e])
    BY <1>1, InvAt DEF KInv
  <2> QED
    BY <2>1 DEF SendAuth, Queue, Shape, Fields
<1> HIDE DEF d
<1> QED
  BY <1>1, <1>2, <1>5, <1>6, SoundStep DEF p, A

\* Every action keeps the invariant.
LEMMA NextKInv == KInv /\ [Next]_vars => KInv'
<1> SUFFICES ASSUME KInv, [Next]_vars PROVE KInv'
  OBVIOUS
<1>1. IInv' /\ IInv /\ Sounds /\ apps \in [Ends -> 0 .. client.apps] /\ Agreed
  BY NextIInv DEF KInv
<1>2. client' = client => Agreed'
  BY <1>1 DEF Agreed, CipherFor
<1>3. ASSUME client' = client, apps' \in [Ends -> 0 .. client.apps], Sounds'
      PROVE  KInv'
  <2>1. apps' \in [Ends -> 0 .. client'.apps]
    BY <1>3
  <2> QED
    BY <1>1, <1>2, <1>3, <2>1 DEF KInv
<1>4. CASE UNCHANGED vars
  <2>1. client' = client /\ conn' = conn /\ net' = net /\ apps' = apps
    BY <1>4 DEF vars
  <2>2. \A e : Toward(e)' = Toward(e)
    BY <2>1 DEF Toward
  <2>3. \A f, a, b, A, B : Sound(f, a, b, A, B) => Sound(f, a, b, A, B)'
    BY <2>1, SoundLater
  <2>4. Sounds'
    BY <1>1, <2>1, <2>2, <2>3 DEF Sounds
  <2> QED
    BY <1>1, <1>3, <2>1, <2>4
<1>5. CASE AppRequest
  <2>1. "client" \in Ends
    BY DEF Ends
  <2> QED
    BY <1>3, <1>5, <2>1, AppKeeps DEF AppRequest
<1>6. ASSUME NEW e \in Ends, Write(e) PROVE KInv'
  <2>1. Sounds'
    BY <1>6, WriteKeeps
  <2>2. client' = client /\ apps' = apps
    BY <1>6 DEF Write
  <2> QED
    BY <1>1, <1>3, <2>1, <2>2
<1>7. ASSUME NEW e \in Ends, Read(e) PROVE KInv'
  <2>1. Sounds'
    BY <1>7, ReadKeeps
  <2>2. client' = client /\ apps' = apps
    BY <1>7 DEF Read
  <2> QED
    BY <1>1, <1>3, <2>1, <2>2
<1>8. ASSUME NEW e \in Ends, ReadPartial(e) PROVE KInv'
  <2>1. Sounds'
    BY <1>8, ReadPartialKeeps
  <2>2. client' = client /\ apps' = apps
    BY <1>8 DEF ReadPartial
  <2> QED
    BY <1>1, <1>3, <2>1, <2>2
<1>9. ASSUME NEW e \in Ends, AppData(e) \/ AppControl(e) PROVE KInv'
  BY <1>3, <1>9, AppKeeps DEF AppData, AppControl
<1>10. CASE AuthAhead
  <2>1. Sounds'
    BY <1>10, AheadKeeps
  <2>2. client' = client /\ apps' = apps
    BY <1>10 DEF AuthAhead
  <2> QED
    BY <1>1, <1>3, <2>1, <2>2
<1> QED
  BY <1>4, <1>5, <1>6, <1>7, <1>8, <1>9, <1>10 DEF Next

-----------------------------------------------------------------------------
(* Theorems.                                                               *)

\* The inductive invariant, for every client whose choice of ciphers agrees
\* with the server's: what is on its way leads from where its reader is to
\* where its writer is.
THEOREM KeyExchangeInvariant == Spec /\ Agreed => []KInv
  BY InitKInv, NextKInv, PTL DEF Spec

\* No packet fails at its receiver: through every rekey, with and without
\* strict kex, each opens under the key and number the receiver is at and comes
\* when its handler accepts it (try_one_packet, send_newkeys, on_newkeys).
THEOREM SidesNeverDesynchronize == Spec /\ Agreed => []NoDesync
<1>1. KInv => NoDesync
  <2> SUFFICES ASSUME KInv PROVE NoDesync
    OBVIOUS
  <2>1. "client" \in Ends /\ Peer("client") = "server"
        /\ \A e \in Ends : e = "client" \/ e = "server"
    BY DEF Ends, Peer
  <2>2. Order(conn["client"], conn["server"], Toward("client"), Toward("server"))
    BY <2>1 DEF KInv, Sounds, Sound
  <2> QED
    BY <2>1, <2>2 DEF Order, NoDesync
<1> QED
  BY <1>1, KeyExchangeInvariant, PTL

\* Once a direction is drained the two sides of it agree on key, counter and
\* number, and the session id is the first exchange's on both
\* (finish_kex, send_newkeys, on_newkeys).
THEOREM SidesStayInStep == Spec /\ Agreed => []InStep
<1>1. KInv => InStep
  <2> SUFFICES ASSUME KInv, NEW e \in Ends
               PROVE  /\ Toward(e) = << >> =>
                           /\ conn[e].recv_cipher = conn[Peer(e)].send_cipher
                           /\ conn[e].recv_seq = conn[Peer(e)].send_seq
                      /\ conn[e].session_id \in {None, <<0, 0, <<0>>, <<0>>>>}
    BY DEF InStep
  <2> DEFINE c == conn[e]
             p == conn[Peer(e)]
             u == ReadPlace(c)
             v == SendPlace(Peer(e), p)
  <2>1. Leads(Peer(e), u, Toward(e), v) /\ Local(e, c)
    BY DEF KInv, Sounds, Sound
  <2>2. u.ci = c.recv_cipher /\ u.sq = c.recv_seq /\ v.ci = p.send_cipher /\ v.sq = p.send_seq
    BY PlaceParts DEF ReadPlace, SendPlace
  <2>3. Toward(e) = << >> => u = v
    BY <2>1, LeadsEmpty
  <2>4. c.session_id \in {None, <<0, 0, <<0>>, <<0>>>>}
    BY <2>1 DEF Local, Sid, Hash
  <2> HIDE DEF u, v
  <2> QED
    BY <2>2, <2>3, <2>4
<1> QED
  BY <1>1, KeyExchangeInvariant, PTL

\* Numbers stay below 2^32, the flags of the exchange agree with it, and only
\* the errors of the list are ever raised.
THEOREM KeyExchangeTypes == Spec /\ Agreed => []TypeOK
<1>1. KInv => TypeOK
  <2> SUFFICES ASSUME KInv PROVE TypeOK
    OBVIOUS
  <2>1. /\ "client" \in Ends /\ "server" \in Ends /\ Peer("client") = "server"
        /\ \A e \in Ends : e = "client" \/ e = "server"
    BY DEF Ends, Peer
  <2> DEFINE c == conn["client"]
             s == conn["server"]
  <2>2. /\ Order(c, s, Toward("client"), Toward("server"))
        /\ AuthInv(c, s, Toward("client"), Toward("server"))
    BY <2>1 DEF KInv, Sounds, Sound, Good
  <2>4. \A e \in Ends : /\ conn[e].error \in {"no", "protocol", "crypto", "auth"}
                        /\ conn[e].auth_fails \in Nat
    <3>1. c.auth_fails = 0
      BY DEF KInv, Sounds
    <3>2. s.auth_fails \in Nat
      BY <2>2 DEF AuthInv
    <3>3. c.error \in {"no", "auth"} /\ s.error = "no"
      BY <2>2 DEF Order
    <3> QED
      BY <2>1, <3>1, <3>2, <3>3
  <2>5. ASSUME NEW e \in Ends
        PROVE  LET a == conn[e]
               IN /\ {a.send_seq, a.recv_seq, a.packets_io} \subseteq 0 .. SeqSpace - 1
                  /\ a.sent_kexinit <=> a.kex # None
                  /\ a.kex # None => a.kex_blocks_app
                  /\ a.pending_keys # None => a.kex # None
    <3>1. Local(e, conn[e])
      BY DEF KInv, Sounds, Sound
    <3> QED
      BY <3>1 DEF Local, KexLocal, Numbers
  <2>6. client \in Clients /\ apps \in [Ends -> 0 .. client.apps]
    BY DEF KInv, IInv
  <2> QED
    BY <2>4, <2>5, <2>6 DEF TypeOK
<1> QED
  BY <1>1, KeyExchangeInvariant, PTL

\* A key and a nonce are used twice only when some key has sealed a packet
\* under every number there is: setting send_seq back to zero, which strict kex
\* does at every NEWKEYS, never brings a used pair back (queue_msg).
THEOREM NonceReuseNeedsExhaustion ==
  Spec /\ Agreed => [](\A e \in Ends : conn[e].reused => Exhausted(conn[e]))
<1>1. KInv => \A e \in Ends : conn[e].reused => Exhausted(conn[e])
  BY DEF KInv, Sounds, Sound, Nonces
<1> QED
  BY <1>1, KeyExchangeInvariant, PTL

\* So nonces are fresh for as long as the server rekeys before the numbers of
\* a key run out.
THEOREM NoncesAreFresh ==
  Spec /\ Agreed /\ []~(\E e \in Ends : Exhausted(conn[e])) => []NonceFresh
<1> DEFINE Left == ~(\E e \in Ends : Exhausted(conn[e]))
           Cause == \A e \in Ends : conn[e].reused => Exhausted(conn[e])
<1>1. Left /\ Cause => NonceFresh
  BY DEF NonceFresh
<1>2. Spec /\ Agreed => []Cause
  BY NonceReuseNeedsExhaustion
<1> HIDE DEF Left, Cause
<1>3. Spec /\ Agreed /\ []Left => []NonceFresh
  BY <1>1, <1>2, PTL
<1> QED
  BY <1>3 DEF Left
=============================================================================
