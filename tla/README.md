# TLA+ models of ssproxy

ssproxy is an SSH server that only forwards TCP: it lets a client authenticate by
password and connects `direct-tcpip` channels to destinations. Its core is a
sans-IO state machine (`core/conn.rs`); `server/session.rs` feeds it from
sockets. This directory models that core, checks it with TLC on small
instances, and proves the parts whose correctness should not depend on the
instance with TLAPS.

## The system

| Component | State | Operations | Hard because |
| --- | --- | --- | --- |
| Channel table (`core/channel.rs`) | slot vector, LIFO free list | `alloc`, `free`, `get` | `free` takes numbers from the peer; numbers are reused |
| Channel (`core/channel.rs`, `core/conn.rs`) | windows, `in_q`, `pending_out`, the EOF/CLOSE flags | `send_data`, `send_eof`, `send_close`, `consume_inbound`, the `on_channel_*` handlers, `maybe_adjust`, `flush_pending` | two sides act concurrently; a key exchange holds packets back and lets them go later; CLOSE crosses CLOSE |
| Write queue (`core/conn.rs`) | FIFO of sealed packets, soft and hard limit | `queue_msg`, `peek_out`, `consume_out` | the order of sealing must be the order on the wire |
| Transport (`core/conn.rs`, `crypto/`) | sequence numbers, keys of both directions, `kex`, `pending_keys`, `strict_kex`, `session_id` | identification, KEXINIT ... NEWKEYS, `maybe_rekey` | both sides switch keys at one point of a stream that is already in flight; numbers wrap and are reset |
| Authentication (`core/conn.rs`, `config.rs`) | `authed`, `auth_fails` | service request, password, disconnect | retries up to a limit; only after the keys are in place |
| Session (`server/session.rs`) | map of destinations, the poll loop | connects, copies, closes | one task multiplexes the SSH socket and every destination, and sleeps on wakers |
| Framing (`core/conn.rs`, `crypto/mod.rs`) | `read_buf`, `ident_acc`, `current_out`, `write_bytes` | `try_ident`, `try_one_packet`, `peek_out`, `consume_out`, `padding_len` | sockets cut the stream anywhere; the cipher changes within a read; off-by-one at lengths |
| Negotiation (`proto/msg.rs`, `on_kexinit`) | the two KEXINITs | `negotiate` | both sides must choose alike |
| Encoding (`wire.rs`, `proto/`) | none | pure functions | - |
| Daemon (`main.rs`, `server/mod.rs`, `config.rs`) | configuration | start, accept | one-off I/O |

The session calls the connection's API and drains its events; the connection
calls the channel table; both connections exchange packets over TCP, that is,
two reliable FIFO streams. Nothing is persisted but the host key, and a
connection is driven by one task at a time, so the concurrency is that of two
endpoints, their applications and their network.

What makes it correct: a channel number has one owner; a sender never exceeds
the receiver's window and is never starved; bytes arrive once, in order, and
before EOF; no close strands a slot or meets a freed channel; a number that is
used again brings nothing of its previous owner; one destination does not stop
another, and the task never sleeps on work; what a stream means does not depend
on where it is cut; every packet opens at the receiver, under a key and nonce
used once; a key exchange and a handshake that begin also end.

## Modules

- `IdAllocator` - abstract: a map from numbers to owners.
- `ChannelTable` - the slot vector and its free list, as operators on a table
  value and as a specification; implements `IdAllocator`
  (`OwnerOf` is the refinement mapping).
- `WindowCredit` - abstract: one direction of flow control as five counters.
- `Channel` - the channel layer of one connection as operators: every function
  of `core/channel.rs` and of the channel half of `core/conn.rs`.
- `ChannelLink` - `Channel` for one channel between a client's and a server's
  `Connection`, under rekeying, with the write queues, two bounded FIFO networks
  and both applications. Each direction implements `WindowCredit`
  (`CreditBothWays`).
- `Session` - `Channel` and `ChannelTable` for many channels over one
  connection, under the server's poll loop, with the destinations' sockets, the
  client's program and the wakers. No rekeying: that is `ChannelLink`'s part.
- `Transport` - identification, negotiation, key exchange, rekeying, sealing and
  authentication between a server and a client, the code's own or another one.
- `Packet` - the arithmetic of packet sizes. `Framing` - the byte stream of one
  direction below the packets, cut anywhere.
- `MC...` - values of the constants for TLC. `..._proofs` - theorems about the
  module of that name (`Framing_proofs` also about `Packet`, `KeyExchange_proofs`
  about the keys of `Transport`). `SeqLemmas` and `FoldLemmas` - what those proofs share:
  induction, `FlattenSeq`, concatenation, `FoldLeft`.

Operators whose comment begins with "Slip" are wrong variants of the definition
that follows them. They are not part of any specification; substituting one for
its definition must break the property it is paired with in `PROJECT.json`,
which shows that the property depends on that code.

### How state and actions correspond to the code

In all models a `Connection` is a record whose fields have the names of the
code, and a handler is an operator from record to record, so that
`FlushPostRekey(c) == EmitCloseIfReady(EmitEofIfReady(FlushPending(
MaybeAdjust(c))))` is the body of `flush_post_rekey`.

In `ChannelLink` and `Transport`, `Read(e)` is one `poll_ssh_read`: it hands k of
the packets that have arrived to `HandlePayload`, then does what `process_in`
does after its loop (`maybe_rekey` and `flush_pending_all`); `ReadPartial` is a
read that completes no packet but still runs that tail. `Write(e)` moves one
packet from the write queue to the network. The `App...` actions of
`ChannelLink` are the session's (`poll_connects`, `poll_dest_one`) on the
server, and on the client a program that uses the same API the same way.

In `Session` one pass of the loop in `poll` is two steps: `PollSsh`
(`poll_ssh_write`, `poll_ssh_read`, `poll_ssh_write`, `handle_events`,
`poll_connects`) and `PollDests` (`poll_dests`, `handle_events`,
`poll_ssh_write`, and the decision to return, sleep or go on). A pass looks at
each socket in one place, so what the world does meanwhile shows as done before
it, after it, or between the two; only the SSH socket is written to in both
halves. A `Poll::Pending` puts the interest into `armed`; a sleeping task runs
again when an armed interest is ready. `PollReset` is an `Err` of the SSH socket
at any place. An `Err` of the connection ends the session inside the step that
meets it. The client (`Client...`, external) reads at once, and closes a session
channel or a forwarding of `quitters`; like the code's tests, and unlike the case
of `link_late_adjust`, it consumes nothing from a channel it has closed.

In `Framing` a byte is the pair of its packet and its position. `Write` and
`Read` move any number of bytes.

Abstractions:

- Bytes of a stream are their positions, so duplicates, losses and reordering
  are visible. A packet weighs its bytes plus `Overhead`.
- In `ChannelLink` the rekey threshold is a free choice of the server, bounded by
  `MaxRekeys`, and keys do not appear. In `Transport` channel packets have no
  content, and the threshold is `RekeyAfter` packets.
- In `Transport` ciphers are ideal: a packet opens only under its key and nonce.
  The exchange hash and the keys are the tuples they are computed from. Random
  values are numbered by exchange, hence fresh. Of the name lists the ciphers
  are modelled; the other lists have one choice the code supports. One request
  and one reply stand for GLOBAL_REQUEST, CHANNEL_REQUEST and PING.
- Clients of `Transport` send only what a client may send, but need not wait: a
  foreign one sends attempts ahead of the answers (`AuthAhead`), though none after
  the right password. `handle_payload` takes a USERAUTH_SUCCESS in either role
  (`conn.rs:853`); no client sends one, so nothing here, `AuthEarned` least of
  all, speaks of a peer that does.
- In `Session` bytes are pairs of forwarding and position, events nobody acts on
  are left out, and a deadline is a flag the world sets at any time.
- A handler that returns `Err` sets `error`; the side then does nothing more,
  as the session does.
- `used` and `reused` in `Transport` are history, not state of the code.

## Runs

| Run | Shows | Bounds and why they suffice |
| --- | --- | --- |
| `channel_table` | type, exact free list, `local_id`, refinement of `IdAllocator` | 4 numbers, 2 owners: the free list takes every order; the table fills, refuses and drains |
| `window_credit` | conservation and the two bounds | buffer of 5; the theorems cover every size |
| `link_rekey` | refusal, EOF, CLOSE from either side, CLOSE crossing CLOSE, with one rekey at any point, what the gate holds back | a packet up and three down in flight with each close; window 16, so that no adjustment falls due after CLOSE (see `link_late_adjust`) |
| `link_rekey_data` | two rekeys inside the streams: order, bounded buffers, credit refinement, delivery | window 3, stream 4: the window closes and reopens, and the thresholds of `window_adjust_amount` are 0 bytes; soft limit never reached, streams not ended (see `link_reorder`, `link_truncate`) |
| `session` | the poll loop, two forwardings: errors, routing, half-close, the map, wakeups, opens, service, reclaiming, end | window, packet and socket of one byte or packet, so that everything that can block does; two numbers, so that the table fills and numbers are reused, though no open meets a full table; five loads (below) |
| `transport` | keys, numbers, nonces, session id, clear text, authentication, completion | sequence space 12 with threshold 5 (the code: 2^32 and 2^31 - 1), up to 3 channel packets a side: two rekeys happen and non-strict numbers wrap; seven clients around `max_auth_fails` = 2 |
| `framing` | accounting of partial writes, frames, verdicts, nothing left over | `IdentMax` 4 and `MaxPacket` 16 with real block sizes and tags: lines of limit - 3 .. limit + 2, packets at and one block beyond the limit, every cut |

The properties, by the name the modules give them:

- `ChannelLink`: `NoProtocolError`, `process_in` never refuses what the other
  `Connection` sent; `GatedTrafficWaits`, no DATA,
  WINDOW_ADJUST, EOF or CLOSE between a side's KEXINIT and NEWKEYS;
  `NoStrandedSlot` and `CloseCompletes`, both sides free the channel;
  `DeliveredInOrder`, `EofIsLast` and `AllDelivered`, what happens to the bytes;
  `BufferingBounded`; `CreditBothWays`, each direction implements `WindowCredit`.
- `Transport`: `NoDesync` and `InStep`, keys, numbers and the session id agree;
  `NonceFresh`; `OnlyKexInClear`; `AuthEarned`, nobody is authenticated but by the
  right password, and the server has closed the session at `max_auth_fails`;
  `HandshakeSettles` and
  `RekeyCompletes`, both kinds of key exchange come to an end.
- `Session`: `NoProtocolError`; `Routed`, no byte crosses to another forwarding;
  `HalfCloseLast`; `DestsMatch`, the map of destinations at rest; `NoLostWakeup`;
  `OpensSettle`, `HealthyServed`, `SlotsReclaimed`, `SessionEnds` (liveness).
- `Framing`: `WriteBytesExact`; `FramesIntact`; `VerdictOfBytes`, acceptance does
  not depend on where reads cut; `NoPacketLeft`; `AllFramed`.
- `ChannelTable`, `WindowCredit`: under Proofs.

The loads of `session` (`MCSession`): *Stall*, a forwarding whose destination may
never read, beside a healthy one; *Faulty*, a destination that refuses, answers
after its deadline or breaks; *Types*, session channels and unknown types;
*Quit*, a channel the client closes at any point; *Lost*, a client that is gone
at any point, with or without DISCONNECT. `RrSpace` stands for the 2^32 values of
`rr`; it is a multiple of every number of live channels, as 2^32 is not, so the
one irregular rotation at the wrap is left out.

The sequence space bounds how many packets one key may seal before a nonce comes
again; with the numbers above no key seals 12, and the code's threshold of
2^31 - 1 packets leaves the same distance to 2^32 unless more than 2^31 packets
are sent while a rekey is under way.

Deadlock checking is off where a session may go idle for good, that is, in
all runs but `channel_table` and `window_credit`.

### Disagreements found

Five runs state a property that the repository's tests or README assert of the
program and TLC refutes. Each names the configuration that the passing runs
above stay clear of.

- `link_reorder`: bytes left in `pending_out` at the soft limit after a rekey
  are overtaken by the next `send_data`. If no data follows, they wait for the
  peer's next packet, since `consume_out` never resumes the flush.
- `link_truncate`: a destination that ends its stream during a rekey loses the
  bytes in `pending_out`; EOF is sent instead.
- `link_late_adjust`: after a rekey a WINDOW_ADJUST is sent for a channel whose
  CLOSE was sent before it; the peer's `process_in` fails and its session ends.
- `link_drop`: a CLOSE that follows both EOFs frees the channel with bytes for a
  slow destination still in `in_q`.
- `transport_negotiate`: `negotiate` lets the server's order decide, a client its
  own (RFC 4253, 7.1). A client that puts AES-GCM before ChaCha20-Poly1305 and
  supports both cannot talk to the server.

Four properties hold of less than one might wish. A full channel table answers
CHANNEL_OPEN with `Err`, which ends the session; `NoProtocolError` holds in
`Session` because the client counts with a table of the same size and
`SlotsReclaimed` keeps the server's from lagging behind. And a connect's deadline
wakes nobody: a connect ends when the kernel gives up, or when something else
polls the session after the deadline. The gate `kex_blocks_app` holds back what
an open channel sends; `open_direct_tcpip`, `confirm_open` and `fail_open` do not
look at it, so OPEN, CONFIRM and FAILURE do go out between KEXINIT and NEWKEYS,
where RFC 4253, 7.1 allows only key exchange and transport messages (they still
open at the receiver: `NoDesync`). And `max_auth_fails` closes the session without
stopping it: `on_userauth_request` does not look at `closed`, so a right password
that was sent ahead and is read before the write queue is empty still
authenticates a session that is about to end. `AuthEarned` says closed, not
silent.

Some hazards are out of reach of the passing runs' constants, and the notes in
`PROJECT.json` say which: thresholds of `window_adjust_amount` above 0, a flush
that stops at the soft limit (`link_reorder` has it, and `BuffersBounded` bounds
the queue for every limit), numbers that wrap under one key (`NoncesAreFresh`),
and the `Err` of a full table.

### Fairness

`Write` and `Read` are weakly fair: the session is woken when the socket can be
written or read, and its poll loop repeats until nothing makes progress.
`AppConfirm`, `AppSend`, `AppConsume`, `AppEof` and `AppFinish` are weakly fair
because the same loop polls every destination; a destination that never reads is
not assumed away in the safety runs. `AppAbort`, `AppRefuse`, `AppOpen` and the
start of a rekey are not fair.

In `Session` the executor runs a task that was woken (`SessionMoves`), the
client's program reads and sends, a connect ends one way or the other
(`DestAnswer`: the kernel's own timeout), and a client that is gone has its
socket reset in the end. Only healthy destinations keep reading and sending;
nothing is assumed of the others, of closing, or of the order of events. In
`Framing` both sockets move some bytes in the end.

Fairness of an action that makes a choice is written as fairness of its effect
on a variable that only it changes (`Reads`, `SessionMoves`, `ClientReads`,
`ClientSends`).

## Proofs

`ChannelTable_proofs`, for every `MaxChannels` and set of channels, from the
assumptions that `MaxChannels` is a natural number and `None` is neither a
channel, a slot nor a number:

- `TableTypeCorrect`, `TableFreeListExact`, `TableLocalIdIsSlot`. The inductive
  invariant is their conjunction: `FreeListExact` is not inductive without the
  types, and neither is the type of the slot that `alloc` reuses without
  `FreeListExact` (it must exist). The work is in lemmas about `AllocIn` and
  `FreeIn` on an exact free list.
- `TableImplementsAllocator`. Under the invariant an `Alloc` maps to a `Grant` of
  a number `OwnerOf` shows unowned, a refusal to a `Refuse` (an exact, empty free
  list on a full vector means every number is owned), a `Free` to a `Release`.

`WindowCredit_proofs`, for every `RecvMax` in `Nat`: `CreditTypeCorrect`,
`CreditConserved`, `NeverOvercommitted` (`NoOvercommit`), `WindowNeverExceeded`. A
receiver sees its own window only, so neither bound on what the sender stands for
is inductive: the invariant is `TypeOK`, `Conserved` and `Room`, that window and
unread bytes of the receiver fit its buffer, and both follow from it.

`Framing_proofs`, for every payload length and cipher, from the assumption that
`MaxPacket` is a natural number: `PaddingInRange`, `PacketAligned`, and from them
`PacketAccepted`, that what `queue_msg` builds passes `try_one_packet` up to 20
bytes below MAX_PACKET. `queue_msg` itself does not look at MAX_PACKET; the run
`framing` has the packet beyond it.

Then, for every script of messages, ciphers and lengths, every
`IdentMax` and `MaxPacket`, and every cut of the stream: `BuffersBounded`
(`TypeOK`), `WriteQueueCounted`, `MessagesIntact`, `VerdictCorrect`,
`NothingLeft`. Only the second is inductive by itself. `IInv` says that what the receiver
has handled, `ident_acc` or `read_buf`, what is on the network, `current_out` and
the queue are, in this order, one stream of bytes, the one the script encodes;
that `read_buf` begins where a packet begins; and that the receiver's cipher is
the one that packet was sealed with. The work is in the loop of `process_in`:
each turn takes exactly one packet off the front of `read_buf` or stops, and when
it stops there is no whole packet left.

`ChannelLink_proofs`, for every window, packet size, soft limit, pair of streams
and number of rekeys: `WindowsInRange` (`TypeOK`), `BuffersBounded`
(`BufferingBounded`), `GateHolds` (`GatedTrafficWaits`), and `NeverOverrun`, the bounds
`NeverExceeded` and `NoOvercommit` of `WindowCredit` under the refinement mappings
of both directions. They hold of sessions in which a side has failed too. `IInv`
has four parts:

- *types*;
- *Local*: the receive window covers what `in_q` holds, the buffers are within
  their bounds, and a channel that does not exist has no window;
- *Gated*: on the wire and in the write queue no packet of `GatedTypes` follows a
  KEXINIT before NEWKEYS, and the gate is closed while a KEXINIT is the last of the two;
- *Linked*: the channel is opened once and confirmed once, and in each direction
  the sender's window, the bytes and the grants under way sum up to no more than
  the receiver accepts. This is an inequality, unlike `Conserved`, since a side
  that has failed drops what it reads, and a rekey holds grants back.

Every handler and every call is shown to be `Changes(c, d, s, r)`: the connection
d that it makes of c keeps the parts that concern one side, and shifts the sums
by no more than the s bytes of credit and the r bytes of data of the packet it
was given. Such changes compose, so `flush_post_rekey`, `handle_payload`, the loop
of `process_in` and at last `Read` follow from their parts.

Then, from `IInv`: `NoSlotIsStranded` (`NoStrandedSlot`), for the same constants and
also when errors occur, and `ErrorsOnlyWhenFreed`, that a connection fails only
when its channel is no longer in the table, which bounds what causes the errors
that `link_late_adjust` shows, not what they cost: the model has one channel, and
in the code an `Err` ends the session with all the others. `NoStrandedSlot` is far from
inductive, since a slot is freed by packets sent long before. `FateInv` adds, of
each side, that a CLOSE is sent only when asked for, an EOF or CLOSE is asked for
only on a confirmed channel, the peer's CLOSE is always answered (`Orderly`), and
a channel closed by both stays only behind the gate (`Settled`); and of the two
sides together (`Fates`):

- a side whose CLOSE is queued has told its peer: the CLOSE is on its way, or
  the peer has it or is gone (`Told`);
- the server frees a channel that it never confirmed only with OPEN_FAILURE on
  its way, and the client frees one only after its own CLOSE or when the server
  has freed it;
- as long as the client does not know that the channel is open, every CLOSE on
  its way comes after the CONFIRM (`Announced`), so that `on_channel_close` never
  finds a channel whose own CLOSE could not be addressed (`remote_id`).

A change that opens, confirms and refuses nothing is `Calm` if it frees the
channel only with its CLOSE queued; calm changes compose like harmless ones, and
every handler but the three of opening is calm.

`Transport_proofs`, for every set of clients (also those the server cannot talk
to), `MaxAuthFails`, `RekeyAfter`, `SeqSpace` and `NetCap`: `NothingElseInClear`
(`OnlyKexInClear`) and `AuthenticationEarned` (`AuthEarned`), whatever errors
occur. Neither is inductive: that the server answers a request under a key
follows from who sent the request and when. `IInv` relates both connections and
both streams: NEWKEYS and EXT_INFO are under way only from a side that has left
the clear, everything that is answered only when both have (`ClearInv`); of the
messages that take turns (SERVICE_REQUEST, the right password and their two
answers) at most one is under way, in either direction, any number of other
attempts and of failures may be beside it, every attempt is one of the client's
list, once the server has authenticated the client none but the answer is left,
and at the limit the server is closed (`AuthInv`); and the identification line
comes first and once (`StreamInv`). The right password is the last attempt of a
client by assumption (`TransportAssumptions`), and it takes a turn because nothing
may answer it twice.

`KeyExchange_proofs`, for every set of clients and value of the limits: if the
session's client is one whose lists lead both sides to the same ciphers
(`Agreed`), then `SidesNeverDesynchronize` (`NoDesync`), `SidesStayInStep`
(`InStep`), `KeyExchangeTypes` (`TypeOK`) and, as long as no key has sealed a packet
under every number of the sequence space, `NoncesAreFresh` (`NonceFresh`).
`Agreed` is what the code needs: it holds of the code's own client and of all
clients of the run `transport`, and `transport_negotiate` shows what happens
without it. That no key is exhausted is not a consequence of the code alone
either (see Runs); `NonceReuseNeedsExhaustion` says that nothing else, in
particular not the reset of the sequence number at NEWKEYS, repeats a nonce.

None of the four is inductive, since what a side is about to read decides what
becomes of it. A *place* in the stream of packets a side sends is the cipher,
the sequence number, the number of the exchange and how many of its three
messages have passed. `SendPlace` and `ReadPlace` compute from a connection where
it has got to in the stream it sends and in the one it reads; `Pass` says to which
place a packet leads, with NEWKEYS to the next key and, under strict kex, to
number 0; `Fits` that a packet is sealed as its place demands and, if it belongs
to an exchange, is the message that is due there. `KInv` says of each direction:

- *Leads*: the packets on their way, those in the write queue included, lead from
  the reader's place to the writer's;
- *Local*: what a side knows of the exchange, that is, both lists, the chosen
  ciphers, the secret, the pending keys and the flags, is determined by the
  exchange and the place;
- *Nonces*: the keys a side has used are those of the exchanges it has completed;
  under AES-GCM the counter is above all that were used with the key, under
  ChaCha20-Poly1305 the numbers used with it are a stretch that ends before
  `send_seq`, around the end of the sequence space if need be;
- *Order*: only the server starts a later exchange, and only when the client is
  authenticated or USERAUTH_SUCCESS is on its way before it; so of two exchanges
  never more than one is under way, and channel packets never arrive too early;
- *LineFirst*: a side that has not read the identification line finds it first.

Each function of the connection is shown to keep its own half of this (`Half`),
with one lemma for each of `queue_msg`, `start_kex`, `on_kexinit`, `finish_kex`,
`send_newkeys`, `on_ecdh_init`, `on_ecdh_reply` and `on_newkeys`; a packet that is
handled moves the reading place by `Pass` (`Outcome`), which restores the
invariant of both sides; and the loop of `process_in` is proved turn by turn.

Induction over data. The library's induction theorems take a predicate as an
operator, which no backend here can instantiate. `WFMin`, that a subset of a
well-founded set has a minimal element, takes a set; `SeqLemmas` derives
induction over the naturals from it, with the set of numbers that satisfy the
predicate. `FlattenSeq` and `FoldLeft` are then unfolded once and for all into a
chain of values, one per element (`FoldLemmas`, instantiated with the operator
that is folded), so loops are proved turn by turn.

Each inductive invariant was checked with TLC on the constants of the runs before
it was proved.

Only model-checked:

- liveness and whatever needs `ENABLED` (fairness), which the prover does not
  reach: `AllDelivered`, `CloseCompletes`, `AllFramed`, `HandshakeSettles`,
  `RekeyCompletes` and the four of `Session`;
- of `ChannelLink`: `NoProtocolError`, `DeliveredInOrder` and `EofIsLast`, which
  are false for some constants (see the disagreements) and hold of the runs' own;
  and the step-by-step refinement `CreditBothWays`, which holds only while neither
  side fails;
- everything of `Session` (`TypeOK`, `NoProtocolError`, `Routed`, `HalfCloseLast`,
  `DestsMatch`, `NoLostWakeup`). An inductive invariant for it has to carry two
  whole connections with a table of channels each, the packets between them and
  the round-robin order of the live channels; it was not attempted. The table and
  the single channel it is made of are proved in `ChannelTable_proofs` and
  `ChannelLink_proofs`.

## Not modelled, and the plan

- Wire encoding (`wire.rs`): fields within one message. No property here tells
  two encodings apart.
- Cryptographic primitives: assumed ideal.
- Host key file, argument parsing, defaults: I/O at start. A crash inside
  `save_host_key` and an error of `accept` are listed as hazards without a
  property.
- The accept loop: its tasks share nothing but the read-only configuration.
- Rekeying of several channels at once, which would compose `Session` with the
  exchange of `ChannelLink`: `flush_post_rekey` treats the channels one after the
  other, so each sees what `ChannelLink` shows, but the product is beyond the
  size TLC can exhaust.
- Channels whose peers announce windows and packet sizes other than ours, and
  programs over the client API that close an unconfirmed channel.

What is left to prove are `CreditBothWays` under the condition that neither side
fails, and the invariants of `Session`, `NoLostWakeup` and `Routed` first.
