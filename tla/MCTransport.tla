---------------------------- MODULE MCTransport ----------------------------
(* Clients for the runs of Transport.                                      *)
EXTENDS Transport

\* The code's own client, with an attempt to authenticate.
Own(try, n) ==
  [c2s |-> ServerCiphers, s2c |-> ServerCiphers, strict |-> TRUE, ext |-> TRUE,
   foreign |-> FALSE, tries |-> <<try>>, apps |-> n]

Foreign(c2s, s2c, known, tries, n) ==
  [c2s |-> c2s, s2c |-> s2c, strict |-> known, ext |-> known,
   foreign |-> TRUE, tries |-> tries, apps |-> n]

\* A client with AES-GCM towards the server, one that knows neither strict
\* kex nor ext-info, and clients that probe with "none", retry and give up.
AllClients ==
  { Own("good", 3), Own("bad", 0),
    Foreign(<<"other", "aes256">>, <<"chacha">>, TRUE, <<"none", "good">>, 2),
    Foreign(<<"chacha", "aes128">>, <<"aes128">>, FALSE, <<"good">>, 2),
    Foreign(<<"chacha">>, <<"chacha">>, TRUE, <<"bad", "good">>, 0),
    Foreign(<<"chacha">>, <<"chacha">>, TRUE,
            <<"none", "bad", "bad", "good">>, 0),
    Foreign(<<"chacha">>, <<"chacha">>, TRUE, <<"bad", "none", "bad">>, 0) }

\* ssh -c aes256-gcm@openssh.com,chacha20-poly1305@openssh.com
GcmFirst ==
  { Foreign(<<"aes256", "chacha">>, <<"aes256", "chacha">>, TRUE,
            <<"good">>, 0) }
=============================================================================
