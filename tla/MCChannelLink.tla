--------------------------- MODULE MCChannelLink ---------------------------
(* Streams and application behaviours for the runs of ChannelLink.         *)
EXTENDS ChannelLink

Both       == Ends
ServerOnly == {"server"}
ClientOnly == {"client"}
Nobody     == {}

\* Bytes sent by the client and by the server.
Streams(c, s) == [e \in Ends |-> IF e = "client" THEN c ELSE s]

StreamUp1Down4 == Streams(1, 4)
StreamUp1Down2 == Streams(1, 2)
StreamUp1Down3 == Streams(1, 3)
StreamDown2    == Streams(0, 2)
StreamDown4    == Streams(0, 4)
StreamUp14     == Streams(14, 0)
=============================================================================
