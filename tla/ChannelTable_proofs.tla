------------------------ MODULE ChannelTable_proofs ------------------------
(***************************************************************************)
(* For every max_channels and every set of channels: the free list of the  *)
(* channel table is exact, and the table implements the allocator.         *)
(*                                                                         *)
(* The inductive invariant is the conjunction of the three checked ones;   *)
(* none of them is inductive alone: popping the free list is safe only     *)
(* because it has no duplicates and names vacant slots, and refusing is    *)
(* right only because an empty free list means that no slot is vacant.     *)
(***************************************************************************)
EXTENDS ChannelTable, SequenceTheorems, TLAPS

IInv == TypeOK /\ FreeListExact /\ LocalIdIsSlot

\* The fields of a well-typed table, in the form the provers use.
LEMMA TableFields ==
  ASSUME TypeOK
  PROVE  /\ table.slots \in Seq(Slot)
         /\ table.free \in Seq(Nat)
         /\ Len(table.slots) \in Nat
         /\ Len(table.free) \in Nat
         /\ table = [slots |-> table.slots, free |-> table.free]
         /\ \A i \in 1 .. Len(table.slots) : table.slots[i] \in Slot
         /\ \A i \in 1 .. Len(table.free) : table.free[i] \in Nat
PROOF
  <1>1. /\ table.slots \in Seq(Slot)
        /\ table.free \in Seq(Nat)
        /\ table = [slots |-> table.slots, free |-> table.free]
    BY DEF TypeOK
  <1>2. QED  BY <1>1, LenProperties, ElementOfSeq

\* A slot that alloc() writes is a slot, and is not vacant.
LEMMA OccupiedSlot ==
  ASSUME NEW ch \in Channels, NEW id \in Nat
  PROVE  /\ [local_id |-> id, ch |-> ch] \in Slot
         /\ [local_id |-> id, ch |-> ch] # None
PROOF
  <1>1. [local_id |-> id, ch |-> ch] \in [local_id : Nat, ch : Channels]
    OBVIOUS
  <1>2. QED  BY <1>1, NoneAssumption DEF Slot

\* Popping the last element of a sequence keeps the others in place.
LEMMA Popped ==
  ASSUME NEW s \in Seq(Nat), Len(s) > 0
  PROVE  /\ SubSeq(s, 1, Len(s) - 1) \in Seq(Nat)
         /\ Len(SubSeq(s, 1, Len(s) - 1)) = Len(s) - 1
         /\ \A i \in 1 .. Len(s) - 1 : SubSeq(s, 1, Len(s) - 1)[i] = s[i]
PROOF
  <1>1. Len(s) - 1 \in Nat
    BY LenProperties
  <1>2. \A i \in 1 .. Len(s) - 1 : s[i] \in Nat
    BY <1>1, ElementOfSeq
  <1> DEFINE n == Len(s) - 1
  <1> HIDE DEF n
  <1>3. /\ SubSeq(s, 1, n) \in Seq(Nat)
        /\ Len(SubSeq(s, 1, n)) = IF 1 <= n THEN n - 1 + 1 ELSE 0
        /\ \A i \in 1 .. n - 1 + 1 : SubSeq(s, 1, n)[i] = s[1 + i - 1]
    <2>1. n \in Int /\ \A i \in 1 .. n : s[i] \in Nat
      BY <1>1, <1>2 DEF n
    <2>2. QED  BY <2>1, SubSeqProperties
  <1>4. n \in Nat
    BY <1>1 DEF n
  <1>5. /\ SubSeq(s, 1, n) \in Seq(Nat)
        /\ Len(SubSeq(s, 1, n)) = n
        /\ \A i \in 1 .. n : SubSeq(s, 1, n)[i] = s[i]
    BY <1>3, <1>4
  <1>6. QED  BY <1>5 DEF n

\* Filling the slot of the last free number and popping it keeps the free
\* list exact: that number occurs once, and no other slot changed.
LEMMA ReuseExact ==
  ASSUME NEW slots \in Seq(Slot), NEW free \in Seq(Nat),
         Exact(slots, free), LocalIds(slots), Len(free) > 0,
         NEW id \in Nat, id = free[Len(free)],
         NEW s \in Slot, s # None, s.local_id = id
  PROVE  /\ id \in 0 .. Len(slots) - 1
         /\ slots[id + 1] = None
         /\ [slots EXCEPT ![id + 1] = s] \in Seq(Slot)
         /\ Len([slots EXCEPT ![id + 1] = s]) = Len(slots)
         /\ SubSeq(free, 1, Len(free) - 1) \in Seq(Nat)
         /\ Exact([slots EXCEPT ![id + 1] = s], SubSeq(free, 1, Len(free) - 1))
         /\ LocalIds([slots EXCEPT ![id + 1] = s])
PROOF
  <1> DEFINE sl == [slots EXCEPT ![id + 1] = s]
             fr == SubSeq(free, 1, Len(free) - 1)
             n  == Len(slots)
             m  == Len(free)
  <1>0. n \in Nat /\ m \in Nat
    BY LenProperties
  <1>1. id \in 0 .. n - 1 /\ slots[id + 1] = None
    BY <1>0 DEF Exact
  <1>2. s \in Slot /\ s # None /\ s.local_id = id
    OBVIOUS
  <1>3. /\ sl \in Seq(Slot)
        /\ Len(sl) = n
        /\ \A j \in 1 .. n : sl[j] = IF j = id + 1 THEN s ELSE slots[j]
    BY <1>0, <1>1, <1>2, ExceptSeq
  <1>4. /\ fr \in Seq(Nat)
        /\ Len(fr) = m - 1
        /\ \A i \in 1 .. m - 1 : fr[i] = free[i]
    BY Popped
  <1> HIDE DEF sl, fr
  <1>5. /\ \A j \in 1 .. n : j # id + 1 => sl[j] = slots[j]
        /\ sl[id + 1] = s
    BY <1>0, <1>1, <1>3
  <1>6. ASSUME NEW i \in 1 .. m - 1
        PROVE  fr[i] \in 0 .. n - 1 /\ sl[fr[i] + 1] = None
    <2>0. i \in 1 .. m /\ i # m /\ m \in 1 .. m
      <3> HIDE DEF n, m
      <3>1. QED  BY <1>0
    <2>1. fr[i] = free[i] /\ i \in 1 .. m /\ i # m /\ m \in 1 .. m
      <3> HIDE DEF n, m
      <3>1. QED  BY <2>0, <1>4
    <2>2. fr[i] \in 0 .. n - 1 /\ slots[fr[i] + 1] = None /\ fr[i] # id
      BY <2>1 DEF Exact
    <2>3. fr[i] + 1 \in 1 .. n /\ fr[i] + 1 # id + 1
      <3> DEFINE f == fr[i]
      <3> HIDE DEF f
      <3>1. f \in 0 .. n - 1 /\ f # id
        BY <2>2 DEF f
      <3>2. f + 1 \in 1 .. n /\ f + 1 # id + 1
        BY <3>1, <1>0
      <3>3. QED  BY <3>2 DEF f
    <2>4. QED  BY <2>2, <2>3, <1>5
  <1>7. ASSUME NEW i \in 1 .. m - 1, NEW j \in 1 .. m - 1, fr[i] = fr[j]
        PROVE  i = j
    <2>1. fr[i] = free[i] /\ fr[j] = free[j]
      BY <1>4
    <2>2. i \in 1 .. m /\ j \in 1 .. m
      BY <1>0
    <2>3. free[i] = free[j]
      BY <2>1, <1>7
    <2>4. QED  BY <2>2, <2>3 DEF Exact
  <1>8. ASSUME NEW k \in 1 .. n, sl[k] = None
        PROVE  \E i \in 1 .. m - 1 : fr[i] = k - 1
    <2>1. k # id + 1
      BY <1>8, <1>2, <1>5
    <2>2. slots[k] = None
      BY <2>1, <1>8, <1>5
    <2>3. PICK i \in 1 .. m : free[i] = k - 1
      BY <2>2 DEF Exact
    <2>4. i # m
      BY <2>1, <2>3, <1>0, <1>1
    <2>5. i \in 1 .. m - 1
      BY <2>4, <1>0
    <2>6. QED  BY <2>3, <2>5, <1>4
  <1>9. Exact(sl, fr)
    BY <1>3, <1>4, <1>6, <1>7, <1>8 DEF Exact
  <1>10. LocalIds(sl)
    <2> SUFFICES ASSUME NEW k \in 1 .. n, sl[k] # None
                 PROVE  sl[k].local_id = k - 1
      BY <1>3 DEF LocalIds
    <2>1. CASE k = id + 1
      BY <2>1, <1>1, <1>2, <1>5
    <2>2. CASE k # id + 1
      BY <2>2, <1>5 DEF LocalIds
    <2>3. QED  BY <2>1, <2>2
  <1>11. QED  BY <1>1, <1>3, <1>4, <1>9, <1>10 DEF sl, fr

\* Appending an occupied slot adds no vacant one.
LEMMA GrowExact ==
  ASSUME NEW slots \in Seq(Slot), NEW free \in Seq(Nat),
         Exact(slots, free), LocalIds(slots),
         NEW ch \in Channels,
         NEW s, s = [local_id |-> Len(slots), ch |-> ch]
  PROVE  /\ Append(slots, s) \in Seq(Slot)
         /\ Len(Append(slots, s)) = Len(slots) + 1
         /\ Exact(Append(slots, s), free)
         /\ LocalIds(Append(slots, s))
PROOF
  <1> DEFINE sl == Append(slots, s)
             n  == Len(slots)
             m  == Len(free)
  <1>0. n \in Nat /\ m \in Nat
    BY LenProperties
  <1>1. s \in Slot /\ s # None /\ s.local_id = n
    BY <1>0, OccupiedSlot
  <1>2. /\ sl \in Seq(Slot)
        /\ Len(sl) = n + 1
        /\ \A j \in 1 .. n : sl[j] = slots[j]
        /\ sl[n + 1] = s
    BY <1>1, AppendProperties
  <1> HIDE DEF sl
  <1>3. \A i \in 1 .. m : free[i] \in 0 .. n /\ sl[free[i] + 1] = None
    BY <1>0, <1>2 DEF Exact
  <1>4. \A k \in 1 .. n + 1 :
          sl[k] = None => \E i \in 1 .. m : free[i] = k - 1
    BY <1>0, <1>1, <1>2 DEF Exact
  <1>5. Exact(sl, free)
    BY SMTT(30), <1>0, <1>2, <1>3, <1>4 DEF Exact
  <1>6. LocalIds(sl)
    <2> SUFFICES ASSUME NEW k \in 1 .. n + 1, sl[k] # None
                 PROVE  sl[k].local_id = k - 1
      BY <1>2 DEF LocalIds
    <2>1. CASE k = n + 1
      BY <2>1, <1>0, <1>1, <1>2
    <2>2. CASE k # n + 1
      <3>1. k \in 1 .. n
        BY <2>2, <1>0
      <3>2. QED  BY <3>1, <1>2 DEF LocalIds
    <2>3. QED  BY <2>1, <2>2
  <1>7. QED  BY <1>2, <1>5, <1>6 DEF sl

\* Vacating an occupied slot and pushing its number keeps the list exact: the
\* number was not in the list, because the list names vacant slots only.
LEMMA VacateExact ==
  ASSUME NEW slots \in Seq(Slot), NEW free \in Seq(Nat),
         Exact(slots, free), LocalIds(slots),
         NEW id \in 0 .. Len(slots) - 1, slots[id + 1] # None
  PROVE  /\ [slots EXCEPT ![id + 1] = None] \in Seq(Slot)
         /\ Len([slots EXCEPT ![id + 1] = None]) = Len(slots)
         /\ Append(free, id) \in Seq(Nat)
         /\ Exact([slots EXCEPT ![id + 1] = None], Append(free, id))
         /\ LocalIds([slots EXCEPT ![id + 1] = None])
PROOF
  <1> DEFINE sl == [slots EXCEPT ![id + 1] = None]
             fr == Append(free, id)
             n  == Len(slots)
             m  == Len(free)
  <1>0. n \in Nat /\ m \in Nat /\ id \in Nat /\ id + 1 \in 1 .. n
    BY LenProperties
  <1>1. None \in Slot
    BY DEF Slot
  <1>2. /\ sl \in Seq(Slot)
        /\ Len(sl) = n
        /\ \A j \in 1 .. n : sl[j] = IF j = id + 1 THEN None ELSE slots[j]
    BY <1>0, <1>1, ExceptSeq
  <1>3. /\ fr \in Seq(Nat)
        /\ Len(fr) = m + 1
        /\ \A i \in 1 .. m : fr[i] = free[i]
        /\ fr[m + 1] = id
    BY <1>0, AppendProperties
  <1> HIDE DEF sl, fr
  <1>4. /\ \A j \in 1 .. n : j # id + 1 => sl[j] = slots[j]
        /\ sl[id + 1] = None
    BY <1>0, <1>2
  <1>5. ASSUME NEW i \in 1 .. m + 1
        PROVE  fr[i] \in 0 .. n - 1 /\ sl[fr[i] + 1] = None
    <2>1. CASE i = m + 1
      BY <2>1, <1>0, <1>3, <1>4
    <2>2. CASE i # m + 1
      <3>1. i \in 1 .. m /\ fr[i] = free[i]
        BY <2>2, <1>0, <1>3
      <3>2. fr[i] \in 0 .. n - 1 /\ slots[fr[i] + 1] = None
        BY <3>1 DEF Exact
      <3>3. fr[i] + 1 \in 1 .. n /\ fr[i] + 1 # id + 1
        BY <3>2, <1>0
      <3>4. QED  BY <3>2, <3>3, <1>4
    <2>3. QED  BY <2>1, <2>2
  <1>6. ASSUME NEW i \in 1 .. m + 1, NEW j \in 1 .. m + 1, fr[i] = fr[j]
        PROVE  i = j
    <2>1. \A k \in 1 .. m : fr[k] # id
      <3>1. \A k \in 1 .. m : slots[free[k] + 1] = None
        BY DEF Exact
      <3>2. QED  BY <3>1, <1>3
    <2>2. CASE i = m + 1
      BY <2>1, <2>2, <1>0, <1>3, <1>6
    <2>3. CASE j = m + 1
      BY <2>1, <2>3, <1>0, <1>3, <1>6
    <2>4. CASE i # m + 1 /\ j # m + 1
      <3>1. i \in 1 .. m /\ j \in 1 .. m
        BY <2>4, <1>0
      <3>2. QED  BY <3>1, <1>3, <1>6 DEF Exact
    <2>5. QED  BY <2>2, <2>3, <2>4
  <1>7. ASSUME NEW k \in 1 .. n, sl[k] = None
        PROVE  \E i \in 1 .. m + 1 : fr[i] = k - 1
    <2>1. CASE k = id + 1
      BY <2>1, <1>0, <1>3
    <2>2. CASE k # id + 1
      <3>1. PICK i \in 1 .. m : free[i] = k - 1
        BY <2>2, <1>2, <1>7 DEF Exact
      <3>2. QED  BY <3>1, <1>0, <1>3
    <2>3. QED  BY <2>1, <2>2
  <1>8. Exact(sl, fr)
    BY <1>2, <1>3, <1>5, <1>6, <1>7 DEF Exact
  <1>9. LocalIds(sl)
    BY <1>0, <1>2 DEF LocalIds
  <1>10. QED  BY <1>2, <1>3, <1>8, <1>9 DEF sl, fr

\* Storing a channel gives its number an owner and changes no other number.
LEMMA OwnerStored ==
  ASSUME NEW slots, NEW sl, NEW n \in Nat, Len(slots) = n,
         NEW len \in Nat, Len(sl) = len, len <= MaxChannels,
         NEW id \in Nat, id < len, n <= len, len <= n + 1, id >= n => id = n,
         id < n => len = n,
         \A k \in 1 .. n : k # id + 1 => sl[k] = slots[k],
         NEW ch, sl[id + 1] # None, sl[id + 1].ch = ch
  PROVE  OwnerOf(sl) = [OwnerOf(slots) EXCEPT ![id] = ch]
PROOF
  <1> DEFINE D == 0 .. MaxChannels - 1
  <1>1. id \in D
    BY MaxChannelsAssumption
  <1>2. ASSUME NEW k \in D
        PROVE  OwnerOf(sl)[k] = [OwnerOf(slots) EXCEPT ![id] = ch][k]
    <2>1. CASE k = id
      BY <2>1, <1>1, MaxChannelsAssumption DEF OwnerOf
    <2>2. CASE k # id
      <3>1. k < len <=> k < n
        BY <2>2, MaxChannelsAssumption
      <3>2. k < n => sl[k + 1] = slots[k + 1]
        <4>1. k < n => (k + 1 \in 1 .. n /\ k + 1 # id + 1)
          BY <2>2, MaxChannelsAssumption
        <4>2. QED  BY <4>1
      <3>3. QED  BY <2>2, <3>1, <3>2 DEF OwnerOf
    <2>3. QED  BY <2>1, <2>2
  <1>3. QED  BY <1>2 DEF OwnerOf

\* Vacating a slot takes the owner from its number and from no other.
LEMMA OwnerRemoved ==
  ASSUME NEW slots, NEW sl, NEW n \in Nat, Len(slots) = n, Len(sl) = n,
         NEW id \in Nat, id < n, n <= MaxChannels,
         \A k \in 1 .. n : k # id + 1 => sl[k] = slots[k],
         sl[id + 1] = None
  PROVE  OwnerOf(sl) = [k \in 0 .. MaxChannels - 1 |->
                          IF k = id THEN None ELSE OwnerOf(slots)[k]]
PROOF
  <1> DEFINE D == 0 .. MaxChannels - 1
  <1>1. ASSUME NEW k \in D
        PROVE  OwnerOf(sl)[k] = IF k = id THEN None ELSE OwnerOf(slots)[k]
    <2>1. CASE k = id
      BY <2>1 DEF OwnerOf
    <2>2. CASE k # id
      <3>1. k < n => (k + 1 \in 1 .. n /\ k + 1 # id + 1)
        BY <2>2, MaxChannelsAssumption
      <3>2. k < n => sl[k + 1] = slots[k + 1]
        BY <3>1
      <3>3. QED  BY <2>2, <3>2 DEF OwnerOf
    <2>3. QED  BY <2>1, <2>2
  <1>2. QED  BY <1>1 DEF OwnerOf

-----------------------------------------------------------------------------
(* The steps of the table.                                                 *)

\* Initially the table is empty, so nothing is vacant and nothing is free.
LEMMA InitIInv == Init => IInv /\ Allocator!Init
PROOF
  <1> SUFFICES ASSUME Init PROVE IInv /\ Allocator!Init  OBVIOUS
  <1>1. /\ table = [slots |-> << >>, free |-> << >>]
        /\ table.slots = << >> /\ table.free = << >> /\ ret = None
    BY DEF Init, EmptyTable
  <1>2. TypeOK
    BY <1>1, MaxChannelsAssumption DEF TypeOK
  <1>3. FreeListExact /\ LocalIdIsSlot
    BY <1>1 DEF FreeListExact, LocalIdIsSlot, Exact, LocalIds
  <1>4. OwnerOf(table.slots) = [id \in 0 .. MaxChannels - 1 |-> None]
    BY <1>1, MaxChannelsAssumption DEF OwnerOf
  <1>5. QED
    BY <1>1, <1>2, <1>3, <1>4 DEF IInv, Allocator!Init, Allocator!Ids

\* alloc() keeps the invariant and hands out a number nobody owns.
LEMMA AllocStep ==
  ASSUME IInv, NEW ch \in Channels, Alloc(ch)
  PROVE  IInv' /\ Allocator!Next
PROOF
  <1> DEFINE id    == AllocId(table)
             s     == [local_id |-> id, ch |-> ch]
             slots == table.slots
             free  == table.free
             n     == Len(table.slots)
  <1>0. /\ slots \in Seq(Slot) /\ free \in Seq(Nat)
        /\ n \in Nat /\ Len(free) \in Nat /\ n <= MaxChannels
        /\ Exact(slots, free) /\ LocalIds(slots)
        /\ table' = AllocIn(table, ch)
        /\ ret' = id
    BY TableFields DEF IInv, TypeOK, FreeListExact, LocalIdIsSlot, Alloc
  <1>1. CASE Len(free) > 0
    <2> DEFINE sl == [slots EXCEPT ![id + 1] = s]
               fr == SubSeq(free, 1, Len(free) - 1)
    <2>1. id = free[Len(free)] /\ table' = [slots |-> sl, free |-> fr]
      BY <1>0, <1>1 DEF AllocId, AllocIn
    <2>2. id \in Nat
      <3>1. Len(free) \in 1 .. Len(free)
        BY <1>0, <1>1
      <3>2. QED  BY <2>1, <3>1, <1>0, ElementOfSeq
    <2>3. /\ id \in 0 .. n - 1 /\ slots[id + 1] = None
          /\ sl \in Seq(Slot) /\ Len(sl) = n
          /\ fr \in Seq(Nat)
          /\ Exact(sl, fr) /\ LocalIds(sl)
      <3>1. /\ slots \in Seq(Slot) /\ free \in Seq(Nat) /\ Len(free) > 0
            /\ Exact(slots, free) /\ LocalIds(slots)
            /\ id = free[Len(free)] /\ id \in Nat /\ n = Len(slots)
            /\ s \in Slot /\ s # None /\ s.local_id = id
        BY <1>0, <1>1, <2>1, <2>2, OccupiedSlot
      <3> HIDE DEF id, s, slots, free, n
      <3>2. /\ id \in 0 .. Len(slots) - 1
            /\ slots[id + 1] = None
            /\ [slots EXCEPT ![id + 1] = s] \in Seq(Slot)
            /\ Len([slots EXCEPT ![id + 1] = s]) = Len(slots)
            /\ SubSeq(free, 1, Len(free) - 1) \in Seq(Nat)
            /\ Exact([slots EXCEPT ![id + 1] = s],
                     SubSeq(free, 1, Len(free) - 1))
            /\ LocalIds([slots EXCEPT ![id + 1] = s])
        BY <3>1, ReuseExact, Zenon
      <3>3. QED  BY <3>1, <3>2
    <2>4. IInv'
      BY <1>0, <2>1, <2>2, <2>3
         DEF IInv, TypeOK, FreeListExact, LocalIdIsSlot
    <2>5. Allocator!Grant(ch)
      <3>1. id \in 0 .. MaxChannels - 1 /\ OwnerOf(slots)[id] = None
        BY <1>0, <2>3, MaxChannelsAssumption DEF OwnerOf
      <3>2. s # None /\ s.ch = ch /\ id + 1 \in 1 .. n
        BY <1>0, <2>2, <2>3, OccupiedSlot
      <3>3. /\ \A k \in 1 .. n : k # id + 1 => sl[k] = slots[k]
            /\ sl[id + 1] = s
        BY <1>0, <3>2, ElementOfSeq
      <3>4. id < n
        BY <1>0, <2>3
      <3>5. OwnerOf(sl) = [OwnerOf(slots) EXCEPT ![id] = ch]
        <4> HIDE DEF id, slots, free, sl, s
        <4>1. /\ Len(slots) = n /\ Len(sl) = n /\ n <= n /\ n <= n + 1
              /\ n \in Nat /\ n <= MaxChannels /\ id \in Nat
              /\ (id >= n => id = n) /\ sl[id + 1] # None
              /\ sl[id + 1].ch = ch
          BY <1>0, <2>2, <2>3, <3>2, <3>3, <3>4 DEF slots
        <4> HIDE DEF n
        <4>2. QED  BY <4>1, <3>3, <3>4, OwnerStored
      <3>6. OwnerOf(table'.slots) = [OwnerOf(table.slots) EXCEPT ![id] = ch]
        BY <2>1, <3>5
      <3>7. QED  BY <1>0, <3>1, <3>6 DEF Allocator!Grant, Allocator!Ids
    <2>6. QED  BY <2>4, <2>5 DEF Allocator!Next
  <1>2. CASE Len(free) = 0
    <2> DEFINE sl == Append(slots, s)
    <2>1. id = n /\ n < MaxChannels /\ table' = [slots |-> sl, free |-> free]
      BY <1>0, <1>2 DEF AllocId, AllocIn, Alloc, CanAlloc
    <2>2. /\ sl \in Seq(Slot) /\ Len(sl) = n + 1
          /\ Exact(sl, free) /\ LocalIds(sl)
      BY <1>0, <2>1, GrowExact
    <2>3. IInv'
      BY <1>0, <2>1, <2>2, MaxChannelsAssumption
         DEF IInv, TypeOK, FreeListExact, LocalIdIsSlot
    <2>4. Allocator!Grant(ch)
      <3>1. id \in 0 .. MaxChannels - 1 /\ OwnerOf(slots)[id] = None
        BY <1>0, <2>1, MaxChannelsAssumption DEF OwnerOf
      <3>2. s \in Slot /\ s # None /\ s.ch = ch
        BY <1>0, <2>1, OccupiedSlot
      <3>3. /\ \A k \in 1 .. n : k # id + 1 => sl[k] = slots[k]
            /\ sl[id + 1] = s
        BY <1>0, <2>1, <3>2, AppendProperties
      <3>4. OwnerOf(sl) = [OwnerOf(slots) EXCEPT ![id] = ch]
        <4>1. /\ n + 1 \in Nat /\ n + 1 <= MaxChannels /\ id \in Nat
              /\ id < n + 1 /\ n <= n + 1 /\ ~(id < n)
          BY <1>0, <2>1, MaxChannelsAssumption
        <4>2. Len(sl) = n + 1 /\ sl[id + 1] # None /\ sl[id + 1].ch = ch
          BY <2>2, <3>2, <3>3
        <4>3. id >= n => id = n
          BY <2>1
        <4> HIDE DEF sl, s, id, slots, free
        <4>4. Len(slots) = n /\ n \in Nat
          BY <1>0 DEF slots
        <4> HIDE DEF n
        <4>5. QED  BY <3>3, <4>1, <4>2, <4>3, <4>4, OwnerStored
      <3>5. OwnerOf(table'.slots) = [OwnerOf(table.slots) EXCEPT ![id] = ch]
        BY <2>1, <3>4
      <3>6. QED  BY <1>0, <3>1, <3>5 DEF Allocator!Grant, Allocator!Ids
    <2>5. QED  BY <2>3, <2>4 DEF Allocator!Next
  <1>3. QED  BY <1>0, <1>1, <1>2

\* alloc() refuses only when all max_channels numbers are owned.
LEMMA RefuseStep ==
  ASSUME IInv, AllocRefused
  PROVE  IInv' /\ Allocator!Next
PROOF
  <1>0. /\ table' = table /\ ret' = None
        /\ table.slots \in Seq(Slot) /\ table.free \in Seq(Nat)
        /\ Len(table.slots) \in Nat /\ Len(table.free) \in Nat
        /\ Len(table.slots) <= MaxChannels
        /\ Exact(table.slots, table.free)
        /\ ~(Len(table.free) > 0) /\ ~(Len(table.slots) < MaxChannels)
    BY TableFields
       DEF IInv, TypeOK, FreeListExact, AllocRefused, CanAlloc
  <1>1. Len(table.free) = 0 /\ Len(table.slots) = MaxChannels
    BY <1>0, MaxChannelsAssumption
  <1>2. IInv'
    BY <1>0 DEF IInv, TypeOK, FreeListExact, LocalIdIsSlot
  <1>3. ASSUME NEW id \in 0 .. MaxChannels - 1
        PROVE  OwnerOf(table.slots)[id] # None
    <2>1. id + 1 \in 1 .. Len(table.slots) /\ id < Len(table.slots)
      BY <1>1, MaxChannelsAssumption
    <2>2. table.slots[id + 1] # None
      BY <1>0, <1>1, <2>1 DEF Exact
    <2>3. table.slots[id + 1] \in [local_id : Nat, ch : Channels]
      BY <1>0, <2>1, <2>2, ElementOfSeq DEF Slot
    <2>4. table.slots[id + 1].ch \in Channels
      BY <2>3
    <2>5. OwnerOf(table.slots)[id] = table.slots[id + 1].ch
      BY <2>1, <2>2 DEF OwnerOf
    <2>6. QED  BY <2>4, <2>5, NoneAssumption
  <1>4. Allocator!Refuse
    BY <1>0, <1>3 DEF Allocator!Refuse, Allocator!Ids
  <1>5. QED  BY <1>2, <1>4 DEF Allocator!Next

\* free() keeps the invariant and releases that number only, whatever number
\* it is given.
LEMMA FreeStep ==
  ASSUME IInv, NEW id \in 0 .. MaxChannels, Free(id)
  PROVE  IInv' /\ Allocator!Next
PROOF
  <1> DEFINE slots == table.slots
             free  == table.free
             n     == Len(table.slots)
  <1>0. /\ slots \in Seq(Slot) /\ free \in Seq(Nat)
        /\ n \in Nat /\ n <= MaxChannels /\ id \in Nat
        /\ Exact(slots, free) /\ LocalIds(slots)
        /\ table' = FreeIn(table, id)
        /\ ret' = None
    BY TableFields, MaxChannelsAssumption
       DEF IInv, TypeOK, FreeListExact, LocalIdIsSlot, Free
  <1>1. CASE Live(table, id)
    <2> DEFINE sl == [slots EXCEPT ![id + 1] = None]
               fr == Append(free, id)
    <2>1. /\ table' = [slots |-> sl, free |-> fr]
          /\ id \in 0 .. n - 1 /\ id < n /\ id + 1 \in 1 .. n
          /\ slots[id + 1] # None
      BY <1>0, <1>1 DEF FreeIn, Live
    <2>2. /\ sl \in Seq(Slot) /\ Len(sl) = n /\ fr \in Seq(Nat)
          /\ Exact(sl, fr) /\ LocalIds(sl)
      BY <1>0, <2>1, VacateExact
    <2>3. IInv'
      BY <1>0, <2>1, <2>2 DEF IInv, TypeOK, FreeListExact, LocalIdIsSlot
    <2>4. /\ \A k \in 1 .. n : k # id + 1 => sl[k] = slots[k]
          /\ sl[id + 1] = None
      BY <1>0, <2>1, ElementOfSeq
    <2>5. OwnerOf(sl) = [k \in 0 .. MaxChannels - 1 |->
                           IF k = id THEN None ELSE OwnerOf(slots)[k]]
      <3> HIDE DEF sl, fr, slots, free
      <3>1. Len(slots) = n /\ n \in Nat /\ n <= MaxChannels /\ id \in Nat
        BY <1>0 DEF slots
      <3> HIDE DEF n
      <3>2. Len(sl) = n /\ id < n /\ sl[id + 1] = None
        BY <2>1, <2>2, <2>4
      <3>3. \A k \in 1 .. n : k # id + 1 => sl[k] = slots[k]
        BY <2>4
      <3>4. QED  BY SMTT(30), <3>1, <3>2, <3>3, OwnerRemoved
    <2>6. OwnerOf(table'.slots) = [k \in 0 .. MaxChannels - 1 |->
                           IF k = id THEN None ELSE OwnerOf(table.slots)[k]]
      BY <2>1, <2>5
    <2>7. Allocator!Release(id)
      BY <1>0, <2>6 DEF Allocator!Release, Allocator!Ids
    <2>8. QED  BY <2>3, <2>7 DEF Allocator!Next
  <1>2. CASE ~Live(table, id)
    <2>1. table' = table
      BY <1>0, <1>2 DEF FreeIn
    <2>2. IInv'
      BY <1>0, <2>1 DEF IInv, TypeOK, FreeListExact, LocalIdIsSlot
    <2>3. OwnerOf(slots) = [k \in 0 .. MaxChannels - 1 |->
                              IF k = id THEN None ELSE OwnerOf(slots)[k]]
      BY <1>0, <1>2 DEF OwnerOf, Live
    <2>4. Allocator!Release(id)
      BY <1>0, <2>1, <2>3 DEF Allocator!Release, Allocator!Ids
    <2>5. QED  BY <2>2, <2>4 DEF Allocator!Next
  <1>3. QED  BY <1>1, <1>2

\* Every step of the table, a stutter included, keeps the invariant and is a
\* step of the allocator or leaves it alone.
LEMMA NextStep ==
  ASSUME IInv, [Next]_vars
  PROVE  IInv' /\ [Allocator!Next]_(Allocator!vars)
PROOF
  <1>1. CASE Next
    BY <1>1, AllocStep, RefuseStep, FreeStep DEF Next
  <1>2. CASE UNCHANGED vars
    BY <1>2 DEF IInv, TypeOK, FreeListExact, LocalIdIsSlot, vars,
                Allocator!vars
  <1>3. QED  BY <1>1, <1>2

-----------------------------------------------------------------------------
(* The theorems.                                                           *)

\* The slots and the free list of ChannelTable keep their types, and the
\* table never holds more than max_channels slots.
THEOREM TableTypeCorrect == Spec => []TypeOK
PROOF
  <1>1. IInv => TypeOK  BY DEF IInv
  <1>2. QED  BY <1>1, InitIInv, NextStep, PTL DEF Spec

\* The free list of ChannelTable is exact after any sequence of alloc() and
\* free(), for every max_channels.
THEOREM TableFreeListExact == Spec => []FreeListExact
PROOF
  <1>1. IInv => FreeListExact  BY DEF IInv
  <1>2. QED  BY <1>1, InitIInv, NextStep, PTL DEF Spec

\* The channels of ChannelTable know their slots, for every max_channels.
THEOREM TableLocalIdIsSlot == Spec => []LocalIdIsSlot
PROOF
  <1>1. IInv => LocalIdIsSlot  BY DEF IInv
  <1>2. QED  BY <1>1, InitIInv, NextStep, PTL DEF Spec

\* ChannelTable implements the allocator of IdAllocator, for every
\* max_channels.
THEOREM TableImplementsAllocator == Spec => ImplementsAllocator
PROOF
  BY InitIInv, NextStep, PTL DEF Spec, ImplementsAllocator, Allocator!Spec
=============================================================================
