------------------------------ MODULE Framing ------------------------------
(***************************************************************************)
(* The byte stream below the messages, in one direction: the identi-       *)
(* fication line and the sealed packets of one Connection, cut by the      *)
(* sockets at any byte, and put together again by the other Connection     *)
(* (core/conn.rs: queue_msg, peek_out, consume_out, process_in, try_ident, *)
(* try_one_packet).                                                        *)
(*                                                                         *)
(* A byte is <<u, i>>: byte i of unit u, where unit 0 is the               *)
(* identification line and unit u the packet of message u.  The length     *)
(* field of a packet can be read only where its bytes are read as such,    *)
(* under the cipher it was sealed with.                                    *)
(***************************************************************************)
EXTENDS Packet, Sequences, SequencesExt

CONSTANTS
  Scripts,      \* what the sender may send (see below)
  IdentMax,     \* 255: the longest line accepted
  None          \* Option::None

(* A script has the identification line [len, ok] (its length with the     *)
(* newline, and whether its text is supported) and the messages            *)
(* [len, newkeys]: the size of the payload and, if the message is NEWKEYS, *)
(* the cipher both sides use after it.                                     *)
ASSUME FramingAssumptions ==
  /\ IdentMax \in Nat /\ None \notin CipherKinds
  /\ \A s \in Scripts :
       /\ s.ident \in [len : Nat \ {0}, ok : BOOLEAN]
       /\ s.msgs \in Seq([len : Nat \ {0}, newkeys : CipherKinds \union {None}])

VARIABLES
  script,       \* the script of this behaviour; it never changes
  sealed,       \* the packets sealed so far: their lengths and ciphers
  snd,          \* the sending Connection
  wire,         \* bytes in the TCP connection
  rcv           \* the receiving Connection

vars == <<script, sealed, snd, wire, rcv>>

Unit(u, n) == [i \in 1 .. n |-> <<u, i>>]

IdentLine == Unit(0, script.ident.len)

IsNewline(b) == b = <<0, script.ident.len>>

-----------------------------------------------------------------------------
(* Sending.                                                                *)

\* queue_msg of the next message, then the new cipher if it is NEWKEYS.
QueueMsg ==
  LET m      == script.msgs[Len(sealed) + 1]
      pad    == Pad(m.len, snd.cipher)
      length == PacketLength(m.len, snd.cipher)
      total  == Total(length, snd.cipher)
  IN /\ Len(sealed) < Len(script.msgs)
     /\ sealed' = Append(sealed, [length |-> length, pad |-> pad,
                                  cipher |-> snd.cipher])
     /\ snd' = [snd EXCEPT
          !.write_q = Append(@, Unit(Len(sealed) + 1, total)),
          !.write_bytes = @ + total,
          !.cipher = IF m.newkeys = None THEN @ ELSE m.newkeys]
     /\ UNCHANGED <<script, wire, rcv>>

\* pull_current_out: the line goes first, then the packets in order.
PullCurrentOut(s) ==
  IF s.current_out # << >> THEN s
  ELSE IF s.ident_out # << >>
    THEN [s EXCEPT !.current_out = s.ident_out, !.ident_out = << >>,
                   !.current_is_ident = TRUE]
  ELSE IF s.write_q # << >>
    THEN [s EXCEPT !.current_out = Head(s.write_q), !.write_q = Tail(@),
                   !.current_is_ident = FALSE]
  ELSE [s EXCEPT !.current_is_ident = FALSE]

\* Slip: the line is counted although it was never added.
ConsumeOutCountsIdent(s, n) ==
  [s EXCEPT !.current_out = SubSeq(@, n + 1, Len(@)),
            !.current_is_ident = @ /\ n < Len(s.current_out),
            !.write_bytes = IF @ < n THEN 0 ELSE @ - n]

\* consume_out: n bytes of current_out are written.
ConsumeOut(s, n) ==
  [s EXCEPT !.current_out = SubSeq(@, n + 1, Len(@)),
            !.current_is_ident = @ /\ n < Len(s.current_out),
            !.write_bytes = IF s.current_is_ident THEN @
                            ELSE IF @ < n THEN 0 ELSE @ - n]

\* The socket takes some of what peek_out offers.
Write ==
  LET s == PullCurrentOut(snd)
  IN \E n \in 1 .. Len(s.current_out) :
       /\ wire' = wire \o SubSeq(s.current_out, 1, n)
       /\ snd' = ConsumeOut(s, n)
       /\ UNCHANGED <<script, sealed, rcv>>

-----------------------------------------------------------------------------
(* Receiving.                                                              *)

Fail(r) == [r EXCEPT !.error = TRUE]

NewlineAt(acc) == SelectInSeq(acc, IsNewline)

\* Slip: what came with the line stays where the line was collected.
TryIdentKeeps(r) ==
  LET acc == r.ident_acc \o r.read_buf
      pos == NewlineAt(acc)
  IN IF pos = 0
       THEN [r EXCEPT !.ident_acc = acc, !.read_buf = << >>]
     ELSE IF pos > IdentMax \/ ~script.ident.ok THEN Fail(r)
     ELSE [r EXCEPT !.ident_in_done = TRUE, !.read_buf = << >>,
                    !.ident_acc = SubSeq(acc, pos + 1, Len(acc))]

\* Slip: only a line that is still incomplete is measured.
TryIdentUnmeasured(r) ==
  LET acc == r.ident_acc \o r.read_buf
      pos == NewlineAt(acc)
      a   == [r EXCEPT !.ident_acc = acc, !.read_buf = << >>]
  IN IF pos = 0
       THEN IF Len(acc) > IdentMax THEN Fail(a) ELSE a
     ELSE IF ~script.ident.ok THEN Fail(a)
     ELSE [a EXCEPT !.ident_in_done = TRUE, !.ident_acc = << >>,
                    !.read_buf = SubSeq(acc, pos + 1, Len(acc))]

\* The line is collected in ident_acc; what follows it goes back.
TryIdent(r) ==
  LET acc == r.ident_acc \o r.read_buf
      pos == NewlineAt(acc)
      a   == [r EXCEPT !.ident_acc = acc, !.read_buf = << >>]
  IN IF pos = 0
       THEN IF Len(acc) > IdentMax THEN Fail(a) ELSE a
     ELSE IF pos > IdentMax \/ ~script.ident.ok THEN Fail(a)
     ELSE [a EXCEPT !.ident_in_done = TRUE, !.ident_acc = << >>,
                    !.read_buf = SubSeq(acc, pos + 1, Len(acc))]

\* The first four bytes, read as a length: that of the packet they start, or
\* noise, here one that is refused.
LengthField(r) ==
  LET u == r.read_buf[1][1]
  IN IF /\ SubSeq(r.read_buf, 1, 4) = Unit(u, 4)
        /\ u \in DOMAIN sealed /\ sealed[u].cipher = r.cipher
       THEN sealed[u].length
       ELSE 0

\* handle_payload, as far as framing goes: NEWKEYS switches the cipher.
HandlePayload(r, u, len) ==
  [r EXCEPT !.got = Append(@, [msg |-> u, len |-> len]),
            !.cipher = IF script.msgs[u].newkeys = None
                         THEN @ ELSE script.msgs[u].newkeys]

\* One packet if the buffer holds all of it.
TryOnePacket(r) ==
  LET length == LengthField(r)
      total  == Total(length, r.cipher)
      u      == r.read_buf[1][1]
      pad    == sealed[u].pad
      rest   == [r EXCEPT !.read_buf = SubSeq(@, total + 1, Len(@))]
  IN IF r.error \/ Len(r.read_buf) < 4 THEN r
     ELSE IF ~LengthOk(length) THEN Fail(r)
     ELSE IF Len(r.read_buf) < total THEN r
     ELSE IF \/ SubSeq(r.read_buf, 1, total) # Unit(u, total)
             \/ ~PaddingOk(length, pad)
       THEN Fail(rest)
     ELSE HandlePayload(rest, u, PayloadLen(length, pad))

\* Slip: one packet a read.
TryPacketsOne(r) == TryOnePacket(r)

\* while try_one_packet: no turn after the last message does anything.
TryPackets(r) == FoldLeft(LAMBDA a, m : TryOnePacket(a), r, script.msgs)

ProcessIn(r) ==
  LET i == IF r.ident_in_done THEN r ELSE TryIdent(r)
  IN IF i.error \/ ~i.ident_in_done THEN i ELSE TryPackets(i)

\* The socket yields some of what has arrived.
Read ==
  \E n \in 1 .. Len(wire) :
    /\ ~rcv.error
    /\ wire' = SubSeq(wire, n + 1, Len(wire))
    /\ rcv' = ProcessIn([rcv EXCEPT !.read_buf = @ \o SubSeq(wire, 1, n)])
    /\ UNCHANGED <<script, sealed, snd>>

-----------------------------------------------------------------------------
Init ==
  /\ script \in Scripts
  /\ sealed = << >>
  /\ snd = [cipher |-> "clear", ident_out |-> IdentLine, current_out |-> << >>,
            current_is_ident |-> FALSE, write_q |-> << >>, write_bytes |-> 0]
  /\ wire = << >>
  /\ rcv = [cipher |-> "clear", read_buf |-> << >>, ident_acc |-> << >>,
            ident_in_done |-> FALSE, got |-> << >>, error |-> FALSE]

Next == QueueMsg \/ Write \/ Read

Spec == Init /\ [][Next]_vars

(* The session is polled while its socket can be read or written.  Write   *)
(* and Read are the only actions that change snd's and rcv's buffers; the  *)
(* fairness of Read is stated through its effect on wire.                  *)
Reads == ~rcv.error /\ \E n \in 1 .. Len(wire) :
                         wire' = SubSeq(wire, n + 1, Len(wire))

FairSpec == Spec /\ WF_vars(QueueMsg) /\ WF_vars(Write) /\ WF_wire(Reads)

-----------------------------------------------------------------------------
(* Properties.                                                             *)

\* What a reader of the whole stream would accept.
GoodIdent == script.ident.ok /\ script.ident.len <= IdentMax

\* The cipher of message u, and whether its packet is within MAX_PACKET.
CipherAt(u) ==
  FoldLeft(LAMBDA k, m : IF m.newkeys = None THEN k ELSE m.newkeys,
           "clear", SubSeq(script.msgs, 1, u - 1))

Fits(u) == LengthOk(PacketLength(script.msgs[u].len, CipherAt(u)))

\* Types, and what the receiver buffers: less than one packet of the largest
\* size after every read, and no more than the longest line before that.
TypeOK ==
  /\ {snd.cipher, rcv.cipher} \subseteq CipherKinds
  /\ snd.write_bytes \in Nat
  /\ Len(rcv.got) <= Len(sealed)
  /\ ~rcv.error => /\ Len(rcv.read_buf) < Total(MaxPacket, "chacha")
                   /\ Len(rcv.ident_acc) <= IdentMax

\* write_bytes, which the soft and the hard limit are compared with, is what
\* waits to be written, line excluded, after partial writes of anything.
WriteBytesExact ==
  snd.write_bytes = Len(FlattenSeq(snd.write_q))
                    + (IF snd.current_is_ident THEN 0 ELSE Len(snd.current_out))

\* The messages come out of the stream as they went in: in order, each once,
\* with their payloads, across changes of the cipher within one read.
FramesIntact ==
  rcv.got = [u \in 1 .. Len(rcv.got) |->
               [msg |-> u, len |-> script.msgs[u].len]]

\* Acceptance depends on the bytes and not on where the reads cut them: an
\* error means a bad line or an oversized packet, a line that was accepted
\* is a good one, and an oversized packet is not got past.
VerdictOfBytes ==
  /\ rcv.ident_in_done => GoodIdent
  /\ rcv.error => ~GoodIdent \/ ~Fits(Len(rcv.got) + 1)
  /\ \A u \in 1 .. Len(rcv.got) : Fits(u)

\* process_in leaves no whole packet in the buffer: the next read, which may
\* never come, is not needed to handle it.
NoPacketLeft ==
  ~rcv.error /\ rcv.ident_in_done /\ Len(rcv.read_buf) >= 4 =>
    Len(rcv.read_buf) < Total(LengthField(rcv), rcv.cipher)

\* Everything sent is handled, or refused, in the end.
AllFramed == <>(rcv.error \/ Len(rcv.got) = Len(script.msgs))
=============================================================================
