----------------------------- MODULE Transport -----------------------------
(***************************************************************************)
(* The transport and authentication layers of core/conn.rs between a       *)
(* client and a server: identification lines, key exchange and rekeying,   *)
(* sequence numbers and cipher state of both directions, strict kex,       *)
(* service request and password authentication.                            *)
(*                                                                         *)
(* A sealed packet is a record of the key and the nonce it was sealed with *)
(* and its message; it opens only under the same key and nonce.  The       *)
(* exchange hash is the tuple of what is hashed, and a key is the tuple of *)
(* what it is derived from.  Random values (cookies, ephemeral keys) are   *)
(* numbered by the exchange they are drawn for.                            *)
(*                                                                         *)
(* The client is the one of the code unless it is marked foreign: another  *)
(* SSH client, which may offer other ciphers, not know strict kex, retry   *)
(* the password, send its attempts without waiting for the answers, send   *)
(* requests, and which negotiates as RFC 4253 says.  Every client sends    *)
(* only what RFC 4252 and 4253 let a client send, and no attempt after the *)
(* right password.                                                         *)
(* Channel packets are DATA (sent only while kex_blocks_app is off) and    *)
(* CONTROL (answers and opens, which the code sends whenever it is         *)
(* authenticated).                                                         *)
(***************************************************************************)
EXTENDS Naturals, Sequences, SequencesExt

CONSTANTS
  Clients,       \* the clients a session may be with (see below)
  MaxAuthFails,  \* max_auth_fails
  RekeyAfter,    \* rekey_after_packets (rekey_after_bytes has the same effect)
  SeqSpace,      \* 2^32: send_seq, recv_seq and packets_io wrap
  NetCap         \* bound on the packets in flight in one direction

Ends == {"client", "server"}

Peer(e) == IF e = "client" THEN "server" ELSE "client"

(* A client has the lists of ciphers it offers in its order of preference, *)
(* whether it knows strict kex and ext-info, whether it is foreign, the    *)
(* attempts it makes to authenticate, the right password last if at all,   *)
(* and apps, a bound on the channel packets each side of its session sends.*)
ASSUME TransportAssumptions ==
  /\ Clients \subseteq [c2s : Seq(STRING), s2c : Seq(STRING),
                        strict : BOOLEAN, ext : BOOLEAN, foreign : BOOLEAN,
                        tries : Seq({"none", "bad", "good"}) \ {<< >>},
                        apps : Nat]
  /\ \A k \in Clients : \A i \in 1 .. Len(k.tries) :
       k.tries[i] = "good" => i = Len(k.tries)
  /\ {MaxAuthFails, RekeyAfter, SeqSpace, NetCap} \subseteq Nat \ {0}

VARIABLES
  client,        \* the client of this session; it never changes
  conn,          \* the Connection of each side
  net,           \* net[e]: packets on their way to e
  apps           \* channel packets each side has sent

vars == <<client, conn, net, apps>>

-----------------------------------------------------------------------------
(* crypto: direction keys.                                                 *)

None == << >>

\* DirectionKeys::Clear; a key with its AES-GCM invocation counter (inc_iv).
Clear == [key |-> None, kind |-> "clear", iv |-> 0]

\* Slip: derived from the session id alone, the same for every exchange.
MakeKeysStale(kind, h, sid, letter) ==
  [key |-> <<kind, sid, sid, letter>>, kind |-> kind, iv |-> 0]

\* make_keys: derived from K and H (both in h), the session id and a letter.
MakeKeys(kind, h, sid, letter) ==
  [key |-> <<kind, h, sid, letter>>, kind |-> kind, iv |-> 0]

\* ChaCha20-Poly1305 takes its nonce from the sequence number, AES-GCM from
\* its own counter, and cleartext packets have none.
Gcm == {"aes256", "aes128"}

Nonce(cipher, seq) == CASE cipher.kind = "chacha" -> seq
                        [] cipher.kind \in Gcm    -> cipher.iv
                        [] cipher.kind = "clear"  -> 0

IncIv(cipher) ==
  IF cipher.kind \in Gcm THEN [cipher EXCEPT !.iv = @ + 1] ELSE cipher

Inc(n) == (n + 1) % SeqSpace

Msg(t) == [t |-> t]

\* queue_msg: seal under the current key and number, append to the one FIFO.
\* used and reused are history: every pair of key and nonce sealed under.
Queue(c, m) ==
  LET n   == Nonce(c.send_cipher, c.send_seq)
      use == <<c.send_cipher.key, n>>
  IN [c EXCEPT
        !.write_q = Append(@, [key |-> c.send_cipher.key, nonce |-> n, m |-> m]),
        !.send_cipher = IncIv(@),
        !.send_seq = Inc(@),
        !.packets_io = Inc(@),
        !.reused = @ \/ use \in c.used,
        !.used = IF c.send_cipher.key = None THEN @ ELSE @ \union {use}]

Fail(c, why) == [c EXCEPT !.error = why]

-----------------------------------------------------------------------------
(* Key exchange.                                                           *)

\* SERVER_CIPHERS, which the code's client offers as well.
ServerCiphers == <<"chacha", "aes256", "aes128">>

\* KexInit::build, and the KEXINIT of a foreign client; cookie numbers the
\* exchange.
KexInit(e, cookie) ==
  LET ours == e = "server"
  IN [t |-> "KEXINIT", cookie |-> cookie,
      enc_c2s |-> IF ours THEN ServerCiphers ELSE client.c2s,
      enc_s2c |-> IF ours THEN ServerCiphers ELSE client.s2c,
      strict |-> ours \/ client.strict, ext |-> ours \/ client.ext]

\* The first of the names in list that others has too.
FirstIn(list, others) ==
  LET common == SelectSeq(list, LAMBDA a : a \in ToSet(others))
  IN IF common = << >> THEN "no match" ELSE Head(common)

\* negotiate: the server's preference decides, on both sides.
Negotiate(server, theirs) == FirstIn(server, theirs)

\* The cipher e takes, knowing its own list and the peer's.  RFC 4253, 7.1,
\* which foreign clients follow, lets the client's preference decide.
CipherFor(e, mine, theirs) ==
  IF e = "client" /\ client.foreign THEN FirstIn(mine, theirs)
                                    ELSE Negotiate(ServerCiphers, theirs)

StartKex(e, c) ==
  LET ours == KexInit(e, c.kexes)
  IN [Queue(c, ours) EXCEPT
        !.kexes = @ + 1,
        !.sent_kexinit = TRUE, !.sent_newkeys = FALSE, !.recv_newkeys = FALSE,
        !.kex_blocks_app = TRUE,
        !.kex = [ours |-> ours, theirs |-> None, c2s |-> "", s2c |-> "",
                 secret |-> IF e = "client" THEN <<c.kexes>> ELSE None]]

MaybeStartKex(e, c) == IF c.sent_kexinit THEN c ELSE StartKex(e, c)

MaybeRekey(e, c) ==
  IF \/ ~c.authed \/ ~c.first_kex_done \/ c.closed
     \/ c.kex # None \/ c.kex_blocks_app \/ c.sent_kexinit
     \/ e # "server" \/ c.packets_io < RekeyAfter
    THEN c ELSE StartKex(e, c)

SendExtInfo(c)        == Queue(c, Msg("EXT_INFO"))
SendServiceRequest(c) == Queue(c, Msg("SERVICE_REQUEST"))

\* Slip: sent_kexinit is left set, so no later rekey can start.
TryCompleteKexStuck(e, c) ==
  IF ~c.sent_newkeys \/ ~c.recv_newkeys THEN c
  ELSE LET d == [c EXCEPT !.kex = None, !.pending_keys = None,
                          !.packets_io = 0, !.first_kex_done = TRUE]
       IN IF c.first_kex_done THEN [d EXCEPT !.kex_blocks_app = FALSE]
          ELSE IF e = "client" THEN SendServiceRequest(d) ELSE SendExtInfo(d)

\* Slip: the gate stays closed after a rekey.
TryCompleteKexShut(e, c) ==
  IF ~c.sent_newkeys \/ ~c.recv_newkeys THEN c
  ELSE LET d == [c EXCEPT !.kex = None, !.sent_kexinit = FALSE,
                          !.pending_keys = None, !.packets_io = 0,
                          !.first_kex_done = TRUE]
       IN IF c.first_kex_done THEN d
          ELSE IF e = "client" THEN SendServiceRequest(d) ELSE SendExtInfo(d)

\* Channel packets held back go out when the gate opens (module ChannelLink);
\* here opening the gate is what lets AppData send them.
TryCompleteKex(e, c) ==
  LET d == [c EXCEPT !.kex = None, !.sent_kexinit = FALSE,
                     !.pending_keys = None, !.packets_io = 0]
      f == [d EXCEPT !.first_kex_done = TRUE]
  IN IF ~c.sent_newkeys \/ ~c.recv_newkeys THEN c
     ELSE IF c.first_kex_done THEN [d EXCEPT !.kex_blocks_app = FALSE]
     ELSE IF e = "client" THEN SendServiceRequest(f)
     ELSE IF c.peer_ext_info THEN SendExtInfo(f) ELSE f

\* Slip: the sequence number is not reset under strict kex.
SendNewkeysNoReset(e, c) ==
  LET q == Queue(c, Msg("NEWKEYS"))
  IN TryCompleteKex(e, [q EXCEPT !.send_cipher = q.pending_keys.send,
                                 !.pending_keys.send = Clear,
                                 !.sent_newkeys = TRUE])

\* Slip: the new key is not taken into use.
SendNewkeysNoSwitch(e, c) ==
  TryCompleteKex(e, [Queue(c, Msg("NEWKEYS")) EXCEPT !.sent_newkeys = TRUE])

SendNewkeys(e, c) ==
  LET q == Queue(c, Msg("NEWKEYS"))
      k == IF q.pending_keys = None THEN q
           ELSE [q EXCEPT !.send_cipher = q.pending_keys.send,
                          !.pending_keys.send = Clear]
      s == [k EXCEPT !.sent_newkeys = TRUE,
                     !.send_seq = IF c.strict_kex THEN 0 ELSE @]
  IN TryCompleteKex(e, s)

\* finish_kex: exchange hash, session id (the first hash) and the new keys.
FinishKex(e, c, q_c, q_s) ==
  LET server == e = "server"
      i_c == IF server THEN c.kex.theirs ELSE c.kex.ours
      i_s == IF server THEN c.kex.ours ELSE c.kex.theirs
      h   == <<i_c.cookie, i_s.cookie, q_c, q_s>>
      sid == IF c.session_id = None THEN h ELSE c.session_id
      c2s == MakeKeys(c.kex.c2s, h, sid, "C")
      s2c == MakeKeys(c.kex.s2c, h, sid, "D")
  IN [c EXCEPT !.session_id = sid,
               !.pending_keys = [send |-> IF server THEN s2c ELSE c2s,
                                 recv |-> IF server THEN c2s ELSE s2c]]

\* Strict kex is on when the peer announces it; a foreign client that does not
\* know it ignores the announcement.
OnKexinit(e, c, m) ==
  LET k == IF c.kex = None THEN StartKex(e, c) ELSE c
      c2s == CipherFor(e, k.kex.ours.enc_c2s, m.enc_c2s)
      s2c == CipherFor(e, k.kex.ours.enc_s2c, m.enc_s2c)
      n == [k EXCEPT !.kex.theirs = m, !.kex.c2s = c2s, !.kex.s2c = s2c,
                     !.strict_kex = @ \/ (m.strict /\ k.kex.ours.strict),
                     !.peer_ext_info = m.ext]
  IN IF "no match" \in {c2s, s2c} THEN Fail(k, "protocol")
     ELSE IF e = "client"
       THEN Queue(n, [t |-> "ECDH_INIT", q_c |-> n.kex.secret])
       ELSE n

\* The server draws its ephemeral key for this exchange here.
OnEcdhInit(e, c, m) ==
  IF e # "server" \/ c.kex = None THEN Fail(c, "protocol")
  ELSE IF c.kex.theirs = None THEN Fail(c, "protocol")
  ELSE LET q_s == <<c.kex.ours.cookie>>
           f   == FinishKex(e, c, m.q_c, q_s)
       IN SendNewkeys(e, Queue(f, [t |-> "ECDH_REPLY", q_s |-> q_s]))

OnEcdhReply(e, c, m) ==
  IF e # "client" \/ c.kex = None THEN Fail(c, "protocol")
  ELSE IF c.kex.secret = None \/ c.kex.theirs = None THEN Fail(c, "protocol")
  ELSE SendNewkeys(e, [FinishKex(e, c, c.kex.secret, m.q_s) EXCEPT
                         !.kex.secret = None])

OnNewkeys(e, c) ==
  IF c.pending_keys = None THEN Fail(c, "protocol")
  ELSE LET k == [c EXCEPT
                   !.recv_cipher = c.pending_keys.recv,
                   !.pending_keys = IF c.sent_newkeys THEN None
                                    ELSE [c.pending_keys EXCEPT !.recv = Clear],
                   !.recv_newkeys = TRUE]
       IN TryCompleteKex(e, k)

-----------------------------------------------------------------------------
(* Service request and authentication.                                     *)

OnServiceRequest(e, c) ==
  IF e # "server" THEN c ELSE Queue(c, Msg("SERVICE_ACCEPT"))

\* The client's next attempt.
SendAuth(c) == Queue([c EXCEPT !.attempts = @ + 1],
                     [t |-> "USERAUTH_REQUEST", try |-> client.tries[c.attempts + 1]])

OnServiceAccept(e, c) == IF e # "client" THEN c ELSE SendAuth(c)

Disconnect(c) == IF c.closed THEN c
                 ELSE [Queue(c, Msg("DISCONNECT")) EXCEPT !.closed = TRUE]

\* Slip: one failure too many is tolerated.
AuthFailOneMore(c) == IF c.auth_fails > MaxAuthFails
                        THEN Disconnect(c) ELSE Queue(c, Msg("USERAUTH_FAILURE"))

\* Slip: the session is closed without telling the client.
AuthFailSilent(c) == IF c.auth_fails >= MaxAuthFails
                       THEN [c EXCEPT !.closed = TRUE]
                       ELSE Queue(c, Msg("USERAUTH_FAILURE"))

AuthFail(c) == IF c.auth_fails >= MaxAuthFails
                 THEN Disconnect(c) ELSE Queue(c, Msg("USERAUTH_FAILURE"))

OnUserauthRequest(e, c, m) ==
  IF e # "server" THEN c ELSE
  CASE m.try = "none" -> AuthFail(c)
    [] m.try = "bad"  -> AuthFail([c EXCEPT !.auth_fails = @ + 1])
    [] m.try = "good" -> Queue([c EXCEPT !.authed = TRUE,
                                         !.kex_blocks_app = FALSE],
                               Msg("USERAUTH_SUCCESS"))

\* The code's client gives up on the first failure; others go on until every
\* attempt they have is refused.
OnUserauthFailure(c) ==
  LET d == [c EXCEPT !.refused = @ + 1]
  IN IF c.attempts < Len(client.tries) THEN SendAuth(d)
     ELSE IF d.refused = Len(client.tries) THEN Fail(d, "auth") ELSE d

OnUserauthSuccess(c) == [c EXCEPT !.authed = TRUE, !.kex_blocks_app = FALSE]

\* on_channel_open and the channel lookups: nothing before authentication.
OnChannelMsg(c) == IF c.authed THEN c ELSE Fail(c, "protocol")

-----------------------------------------------------------------------------
(* Receiving.                                                              *)

\* on_global_request with want_reply, and likewise on_channel_request, on_ping
\* and an unknown message: answered at once, also while keys are exchanged.
OnGlobalRequest(c) == Queue(c, Msg("REPLY"))

HandlePayload(e, c, m) ==
  CASE m.t = "DISCONNECT"       -> [c EXCEPT !.closed = TRUE]
    [] m.t = "KEXINIT"          -> OnKexinit(e, c, m)
    [] m.t = "ECDH_INIT"        -> OnEcdhInit(e, c, m)
    [] m.t = "ECDH_REPLY"       -> OnEcdhReply(e, c, m)
    [] m.t = "NEWKEYS"          -> OnNewkeys(e, c)
    [] m.t = "EXT_INFO"         -> c
    [] m.t = "SERVICE_REQUEST"  -> OnServiceRequest(e, c)
    [] m.t = "SERVICE_ACCEPT"   -> OnServiceAccept(e, c)
    [] m.t = "USERAUTH_REQUEST" -> OnUserauthRequest(e, c, m)
    [] m.t = "USERAUTH_FAILURE" -> OnUserauthFailure(c)
    [] m.t = "USERAUTH_SUCCESS" -> OnUserauthSuccess(c)
    [] m.t \in {"DATA", "CONTROL"} -> OnChannelMsg(c)
    [] m.t = "REQUEST"          -> OnGlobalRequest(c)
    [] m.t = "REPLY"            -> c

KexMsgs == {"KEXINIT", "ECDH_INIT", "ECDH_REPLY", "NEWKEYS"}

\* open: the tag verifies only under the key and the nonce of sealing, and
\* without them the length and the payload are noise.
Opens(c, p) == /\ p.key = c.recv_cipher.key
               /\ p.nonce = Nonce(c.recv_cipher, c.recv_seq)

\* Slip: recv_seq is not reset by NEWKEYS under strict kex.
TryOnePacketNoReset(e, c, p) ==
  IF ~Opens(c, p) THEN Fail(c, "crypto")
  ELSE HandlePayload(e, [c EXCEPT !.recv_cipher = IncIv(@), !.recv_seq = Inc(@),
                                  !.packets_io = Inc(@)], p.m)

TryOnePacket(e, c, p) ==
  LET r == [c EXCEPT !.recv_cipher = IncIv(@), !.packets_io = Inc(@),
                     !.recv_seq = IF p.m.t = "NEWKEYS" /\ c.strict_kex
                                    THEN 0 ELSE Inc(@)]
  IN IF ~Opens(c, p) THEN Fail(c, "crypto")
     ELSE IF /\ c.strict_kex /\ ~c.first_kex_done
             /\ p.m.t \notin KexMsgs \union {"EXT_INFO"}
       THEN Fail(c, "protocol")
     ELSE HandlePayload(e, r, p.m)

\* process_in's two phases: the identification line, then packets.  After an
\* error nothing more is handled.
Handle(e, c, p) ==
  IF c.error # "no" THEN c
  ELSE IF ~c.ident_in_done
    THEN IF p.m.t = "IDENT"
           THEN MaybeStartKex(e, [c EXCEPT !.ident_in_done = TRUE])
           ELSE Fail(c, "protocol")
  ELSE TryOnePacket(e, c, p)

-----------------------------------------------------------------------------
(* The session.                                                            *)

Ident == [key |-> None, nonce |-> 0, m |-> Msg("IDENT")]

Connection ==
  [ident_in_done |-> FALSE, send_seq |-> 0, recv_seq |-> 0,
   send_cipher |-> Clear, recv_cipher |-> Clear, packets_io |-> 0,
   strict_kex |-> FALSE, peer_ext_info |-> FALSE, session_id |-> None,
   kex |-> None, pending_keys |-> None, sent_kexinit |-> FALSE,
   sent_newkeys |-> FALSE, recv_newkeys |-> FALSE, write_q |-> <<Ident>>,
   auth_fails |-> 0, authed |-> FALSE, closed |-> FALSE,
   kex_blocks_app |-> FALSE, first_kex_done |-> FALSE, error |-> "no",
   kexes |-> 0, attempts |-> 0, refused |-> 0, used |-> {}, reused |-> FALSE]

Init == /\ client \in Clients
        /\ conn = [e \in Ends |-> StartKex(e, Connection)]
        /\ net = [e \in Ends |-> << >>]
        /\ apps = [e \in Ends |-> 0]

\* peek_out and consume_out: the identification line goes first.
Write(e) ==
  LET p == Head(conn[e].write_q)
      c == [conn[e] EXCEPT !.write_q = Tail(@)]
  IN /\ conn[e].write_q # << >>
     /\ conn[e].error = "no"
     /\ Len(net[Peer(e)]) < NetCap
     /\ net' = [net EXCEPT ![Peer(e)] = Append(@, p)]
     /\ conn' = [conn EXCEPT ![e] =
                   IF p.m.t = "IDENT" THEN MaybeStartKex(e, c) ELSE c]
     /\ UNCHANGED <<client, apps>>

\* is_finished: the session ends once everything is written.
IsFinished(c) == c.closed /\ c.write_q = << >>

Take(e, k) == net' = [net EXCEPT ![e] = SubSeq(@, k + 1, Len(@))]

\* The connection of e after process_in has handled k of the packets waiting.
After(e, k) == FoldLeft(LAMBDA a, p : Handle(e, a, p), conn[e],
                        SubSeq(net[e], 1, k))

\* A read that completes k packets: process_in handles them all and then may
\* start a rekey.  A packet that fails is the last one handled.
Read(e) ==
  \E k \in 1 .. Len(net[e]) :
    LET c == After(e, k)
    IN /\ conn[e].error = "no"
       /\ ~IsFinished(conn[e])
       /\ \A j \in 1 .. k - 1 : After(e, j).error = "no"
       /\ Take(e, k)
       /\ conn' = [conn EXCEPT ![e] = IF c.error = "no" THEN MaybeRekey(e, c)
                                                        ELSE c]
       /\ UNCHANGED <<client, apps>>

\* A read that ends inside a packet completes none of those waiting.
ReadPartial(e) ==
  /\ conn[e].error = "no"
  /\ ~IsFinished(conn[e])
  /\ net[e] # << >>
  /\ conn' = [conn EXCEPT ![e] = MaybeRekey(e, @)]
  /\ UNCHANGED <<client, net, apps>>

AppSend(e, t) ==
  /\ conn[e].error = "no"
  /\ conn[e].authed /\ ~IsFinished(conn[e])
  /\ apps[e] < client.apps
  /\ conn' = [conn EXCEPT ![e] = Queue(@, Msg(t))]
  /\ apps' = [apps EXCEPT ![e] = @ + 1]
  /\ UNCHANGED <<client, net>>

\* enqueue_or_send, flush_pending, maybe_adjust: held back by the gate.
AppData(e) == ~conn[e].kex_blocks_app /\ AppSend(e, "DATA")

\* open_direct_tcpip, confirm_open, fail_open: sent at once.
AppControl(e) == AppSend(e, "CONTROL")

\* A request of a foreign client.
AppRequest == client.foreign /\ AppSend("client", "REQUEST")

\* A foreign client sends its next attempt before the last one is answered.
AuthAhead ==
  LET c == conn["client"]
  IN /\ client.foreign
     /\ c.error = "no" /\ ~c.closed
     /\ c.attempts \in 1 .. Len(client.tries) - 1
     /\ conn' = [conn EXCEPT !["client"] = SendAuth(c)]
     /\ UNCHANGED <<client, net, apps>>

Next == \/ AppRequest \/ AuthAhead
        \/ \E e \in Ends : \/ Write(e) \/ Read(e) \/ ReadPartial(e)
                           \/ AppData(e) \/ AppControl(e)

Spec == Init /\ [][Next]_vars

(* The session is polled whenever its socket can be read or written.  The  *)
(* fairness of Read(e) is stated through its effect on net.                *)
Reads(e) == /\ conn[e].error = "no"
            /\ ~IsFinished(conn[e])
            /\ \E k \in 1 .. Len(net[e]) : Take(e, k)

Fairness == \A e \in Ends : WF_vars(Write(e)) /\ WF_net(Reads(e))

FairSpec == Spec /\ Fairness

-----------------------------------------------------------------------------
(* Properties.                                                             *)

\* What e still has to read, in order.
Toward(e) == net[e] \o conn[Peer(e)].write_q

\* Numbers stay in their ranges and the key exchange flags agree with kex:
\* an exchange is under way exactly while kex is set (sent_kexinit), and the
\* gate kex_blocks_app is closed throughout.
TypeOK ==
  /\ client \in Clients
  /\ apps \in [Ends -> 0 .. client.apps]
  /\ \A e \in Ends : LET c == conn[e] IN
       /\ {c.send_seq, c.recv_seq, c.packets_io} \subseteq 0 .. SeqSpace - 1
       /\ c.error \in {"no", "protocol", "crypto", "auth"}
       /\ c.auth_fails \in Nat
       /\ c.sent_kexinit <=> c.kex # None
       /\ c.kex # None => c.kex_blocks_app
       /\ c.pending_keys # None => c.kex # None

\* No packet of one side fails at the other: each opens under the key and
\* number the receiver is at, and comes when its handler accepts it
\* (send_newkeys and on_newkeys switch at the same point of the stream).
NoDesync == \A e \in Ends : conn[e].error \in {"no", "auth"}

\* With nothing on its way in a direction, the receiver's key, counter and
\* sequence number are those of the sender; and the session id, from which
\* every later exchange derives its keys, is on both sides the hash of the
\* first one (cookies and ephemeral keys numbered 0).
InStep ==
  \A e \in Ends :
    /\ Toward(e) = << >> => /\ conn[e].recv_cipher = conn[Peer(e)].send_cipher
                            /\ conn[e].recv_seq = conn[Peer(e)].send_seq
    /\ conn[e].session_id \in {None, <<0, 0, <<0>>, <<0>>>>}

\* No two packets are ever sealed under the same key and nonce, although
\* strict kex sets the sequence number back to zero (send_newkeys).
NonceFresh == \A e \in Ends : ~conn[e].reused

\* Nothing but the identification line and the first key exchange is ever
\* sent in the clear: no credential, no channel packet (try_complete_kex).
OnlyKexInClear ==
  \A e \in Ends : \A i \in 1 .. Len(Toward(e)) :
    Toward(e)[i].key = None => Toward(e)[i].m.t \in KexMsgs \union {"IDENT"}

\* With clients that send what RFC 4252 lets a client send, waiting for each
\* answer or not, a side believes it is authenticated only after the server
\* accepted the right password, and a server that has refused max_auth_fails
\* wrong ones has closed the session.  It has not stopped answering: a right
\* password that is read before the write queue is empty is accepted
\* (on_userauth_request does not look at closed), in a session that ends when
\* the queue is.  USERAUTH_SUCCESS is the server's message, which
\* no client here sends: on_userauth_success does not look at the role, so
\* nothing is said of a peer that breaks the protocol there.
AuthEarned ==
  /\ \A e \in Ends : conn[e].authed =>
       conn["server"].authed /\ client.tries[conn["client"].attempts] = "good"
  /\ conn["server"].auth_fails >= MaxAuthFails => conn["server"].closed

\* Every session gets through the handshake to an outcome: both sides are
\* authenticated, or the client has been told it is not.
HandshakeSettles ==
  <>[](\/ \A e \in Ends : conn[e].authed
      \/ conn["client"].error = "auth" \/ conn["client"].closed)

\* A key exchange that starts also ends: the gate that holds back channel
\* data opens again on both sides.
RekeyCompletes ==
  \A e \in Ends : conn[e].authed /\ conn[e].kex_blocks_app
                     ~> \A f \in Ends : ~conn[f].kex_blocks_app
=============================================================================
