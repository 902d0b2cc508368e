--------------------------- MODULE MCWindowCredit ---------------------------
(* WindowCredit on its own, for a small buffer.                            *)
EXTENDS WindowCredit
=============================================================================
