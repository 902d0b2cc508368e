------------------------------- MODULE Packet -------------------------------
(***************************************************************************)
(* The arithmetic of binary packets: cipher kinds and padding_len of       *)
(* crypto/mod.rs, the sizes queue_msg builds a packet with, and the bounds *)
(* try_one_packet checks it against.  Module Framing uses them for packets *)
(* on the wire.                                                            *)
(***************************************************************************)
EXTENDS Naturals

CONSTANT MaxPacket     \* MAX_PACKET

ASSUME PacketAssumptions == MaxPacket \in Nat

CipherKinds == {"clear", "chacha", "aes128", "aes256"}

IsAead(kind) == kind # "clear"

TagLen(kind) == IF kind = "clear" THEN 0 ELSE 16

BlockSize(kind) == IF kind \in {"clear", "chacha"} THEN 8 ELSE 16

\* padding_len of a payload of n bytes.
PaddingLen(n, block, lengthIsAad) ==
  LET b    == IF block < 8 THEN 8 ELSE block
      need == IF lengthIsAad THEN 1 + n ELSE 4 + 1 + n
      pad  == b - (need % b)
  IN IF pad < 4 THEN pad + b ELSE pad

\* queue_msg: the padding and the length field of a packet with n bytes of
\* payload.
Pad(n, kind)          == PaddingLen(n, BlockSize(kind), IsAead(kind))
PacketLength(n, kind) == 1 + n + Pad(n, kind)

\* The bytes of a packet on the wire.
Total(length, kind) == 4 + length + TagLen(kind)

\* Slip: the byte that holds the padding's length counts as payload.
PayloadLenOff(length, pad) == length - pad

\* try_one_packet: the length field, and then the padding, are plausible; the
\* payload is what they leave.
LengthOk(length)        == length >= 4 /\ length <= MaxPacket
PaddingOk(length, pad)  == pad >= 4 /\ 1 + pad < length
PayloadLen(length, pad) == length - pad - 1
=============================================================================
