--------------------------- MODULE MCChannelTable ---------------------------
(* A table of four numbers and two owners: the free list takes every       *)
(* order, and the table fills, refuses, drains and fills again.            *)
EXTENDS ChannelTable
=============================================================================
