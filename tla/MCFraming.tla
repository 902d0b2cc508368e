----------------------------- MODULE MCFraming -----------------------------
(* Scripts for the run of Framing.  IdentMax is 4 and MaxPacket 16 there.  *)
EXTENDS Framing

Msg(len, newkeys) == [len |-> len, newkeys |-> newkeys]

Script(len, ok, msgs) == [ident |-> [len |-> len, ok |-> ok], msgs |-> msgs]

AllScripts ==
  { \* A line of the greatest length, and both ciphers.
    Script(4, TRUE, <<Msg(1, "chacha"), Msg(11, None), Msg(3, None)>>),
    Script(1, TRUE, <<Msg(7, "aes128"), Msg(1, None)>>),
    \* Lines that are too long or not supported.
    Script(5, TRUE, <<Msg(1, None)>>),
    Script(6, TRUE, <<Msg(1, None)>>),
    Script(3, FALSE, <<Msg(1, None)>>),
    \* A packet one block beyond MaxPacket.
    Script(2, TRUE, <<Msg(1, "chacha"), Msg(12, None)>>) }
=============================================================================
