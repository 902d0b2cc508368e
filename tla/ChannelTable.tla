---------------------------- MODULE ChannelTable ----------------------------
(***************************************************************************)
(* The channel table of one connection (core/channel.rs, ChannelTable): a  *)
(* vector of slots indexed by channel number, and a LIFO list of the       *)
(* numbers that have been freed.  A number is taken from the free list     *)
(* before the vector grows, and the vector never grows past max_channels.  *)
(*                                                                         *)
(* free() is also called with numbers that come straight from the peer     *)
(* (CHANNEL_OPEN_FAILURE), so the model calls it with every number,        *)
(* allocated or not, in range or not.                                      *)
(*                                                                         *)
(* The operations are operators on a table value                           *)
(* [slots |-> ..., free |-> ...], so that a module that composes several   *)
(* connections can use them; slot number id is slots[id + 1].              *)
(***************************************************************************)
EXTENDS Naturals, Sequences

CONSTANTS MaxChannels,   \* max_channels
          Channels,      \* the channels callers put into the table
          None           \* Option::None, and the answer of a refused alloc

ASSUME MaxChannelsAssumption == MaxChannels \in Nat

ASSUME NoneAssumption == /\ None \notin Channels
                         /\ None \notin Nat
                         /\ None \notin [local_id : Nat, ch : Channels]

VARIABLES table,         \* the ChannelTable value
          ret            \* what the last call returned

vars == <<table, ret>>

Slot == {None} \cup [local_id : Nat, ch : Channels]

EmptyTable == [slots |-> << >>, free |-> << >>]

-----------------------------------------------------------------------------
(* get / get_mut succeed exactly on the live numbers.                      *)

Live(t, id) == id < Len(t.slots) /\ t.slots[id + 1] # None

\* Slip: the limit compared with <= (one number too many).
CanAllocOffByOne(t) == Len(t.free) > 0 \/ Len(t.slots) <= MaxChannels

CanAlloc(t) == Len(t.free) > 0 \/ Len(t.slots) < MaxChannels

\* The number alloc picks: the last one freed, or the first never used.
AllocId(t) == IF Len(t.free) > 0 THEN t.free[Len(t.free)] ELSE Len(t.slots)

\* Slip: the reused number is read from the free list but not popped.
AllocInNoPop(t, ch) ==
  LET s == [local_id |-> AllocId(t), ch |-> ch]
  IN IF Len(t.free) > 0
       THEN [t EXCEPT !.slots[AllocId(t) + 1] = s]
       ELSE [t EXCEPT !.slots = Append(@, s)]

\* Slip: ch.local_id is left at the 0 that Channel::new was called with.
AllocInNoLocalId(t, ch) ==
  LET s == [local_id |-> 0, ch |-> ch]
  IN IF Len(t.free) > 0
       THEN [slots |-> [t.slots EXCEPT ![AllocId(t) + 1] = s],
             free  |-> SubSeq(t.free, 1, Len(t.free) - 1)]
       ELSE [t EXCEPT !.slots = Append(@, s)]

AllocIn(t, ch) ==
  LET s == [local_id |-> AllocId(t), ch |-> ch]
  IN IF Len(t.free) > 0
       THEN [slots |-> [t.slots EXCEPT ![AllocId(t) + 1] = s],
             free  |-> SubSeq(t.free, 1, Len(t.free) - 1)]
       ELSE [slots |-> Append(t.slots, s), free |-> t.free]

\* Slip: the number is pushed whether or not take() found a channel.
FreeInUnguarded(t, id) ==
  IF id < Len(t.slots)
    THEN [slots |-> [t.slots EXCEPT ![id + 1] = None],
          free  |-> Append(t.free, id)]
    ELSE t

FreeIn(t, id) ==
  IF Live(t, id)
    THEN [slots |-> [t.slots EXCEPT ![id + 1] = None],
          free  |-> Append(t.free, id)]
    ELSE t

-----------------------------------------------------------------------------
Init == table = EmptyTable /\ ret = None

Alloc(ch) == /\ CanAlloc(table)
             /\ ret' = AllocId(table)
             /\ table' = AllocIn(table, ch)

\* alloc() returns "too many channels".
AllocRefused == /\ ~CanAlloc(table)
                /\ ret' = None
                /\ UNCHANGED table

Free(id) == /\ table' = FreeIn(table, id)
            /\ ret' = None

Next == \/ \E ch \in Channels : Alloc(ch)
        \/ AllocRefused
        \/ \E id \in 0 .. MaxChannels : Free(id)

Spec == Init /\ [][Next]_vars

-----------------------------------------------------------------------------
(* Properties.                                                             *)

\* The table holds slots and channel numbers (alloc, free).
TypeOK == /\ table \in [slots : Seq(Slot), free : Seq(Nat)]
          /\ Len(table.slots) <= MaxChannels
          /\ ret \in Nat \cup {None}

\* A free list is exact when it names each vacant slot once and nothing else.
Exact(slots, free) ==
  /\ \A i \in 1 .. Len(free) : free[i] \in 0 .. Len(slots) - 1
                               /\ slots[free[i] + 1] = None
  /\ \A i, j \in 1 .. Len(free) : free[i] = free[j] => i = j
  /\ \A k \in 1 .. Len(slots) :
       slots[k] = None => \E i \in 1 .. Len(free) : free[i] = k - 1

\* The free list of ChannelTable holds each vacant slot's number exactly once
\* and nothing else, so alloc() neither hands out a number in use nor loses
\* one, however alloc() and free() are interleaved and whatever free() is
\* given.
FreeListExact == Exact(table.slots, table.free)

LocalIds(slots) ==
  \A k \in 1 .. Len(slots) : slots[k] # None => slots[k].local_id = k - 1

\* Every channel of the table knows the slot it is stored in: iter_ids() and
\* by_remote() hand out local_id, and get() indexes the slots with it.
LocalIdIsSlot == LocalIds(table.slots)

\* The owner of every number, as the callers of the table see it.
OwnerOf(slots) == [id \in 0 .. MaxChannels - 1 |->
                     IF id < Len(slots) /\ slots[id + 1] # None
                       THEN slots[id + 1].ch ELSE None]

Allocator == INSTANCE IdAllocator WITH owner <- OwnerOf(table.slots)

\* The table implements the allocator: alloc() gives out a number nobody
\* owns, touches no other number, and answers "too many channels" only when
\* max_channels numbers are owned; free() releases that number and no other.
ImplementsAllocator == Allocator!Spec
=============================================================================
