---------------------------- MODULE IdAllocator ----------------------------
(***************************************************************************)
(* What a channel table promises its callers, without slots or free lists: *)
(* a map from channel numbers to their owners in which a number has one    *)
(* owner at a time, any unowned number may be handed out, and an           *)
(* allocation is refused only when every number is owned.                  *)
(***************************************************************************)
EXTENDS Naturals

CONSTANTS MaxChannels,   \* numbers are 0 .. MaxChannels - 1
          Channels,      \* what callers store
          None           \* a number nobody owns, and "no answer"

VARIABLES owner,         \* who owns each number
          ret            \* the answer to the last call

vars == <<owner, ret>>

Ids == 0 .. MaxChannels - 1

Init == /\ owner = [id \in Ids |-> None]
        /\ ret = None

\* An unowned number is handed out.
Grant(ch) == \E id \in Ids : /\ owner[id] = None
                             /\ owner' = [owner EXCEPT ![id] = ch]
                             /\ ret' = id

\* Every number is owned: the caller gets no number and nothing changes.
Refuse == /\ \A id \in Ids : owner[id] # None
          /\ ret' = None
          /\ UNCHANGED owner

\* A number is given back; giving back an unowned number changes nothing.
Release(id) == /\ owner' = [k \in Ids |-> IF k = id THEN None ELSE owner[k]]
               /\ ret' = None

Next == \/ \E ch \in Channels : Grant(ch)
        \/ Refuse
        \/ \E id \in 0 .. MaxChannels : Release(id)

Spec == Init /\ [][Next]_vars
=============================================================================
