-------------------------- MODULE TieredAllocator ---------------------------
(***************************************************************************)
(* The in-process allocator of src/src/allocator.rs (struct                *)
(* TieredAllocator), which MemoryRoomStore keeps behind a mutex.  The last *)
(* answer is kept in reply, so that what callers are told is checked too.  *)
(***************************************************************************)
EXTENDS Intervals

CONSTANTS
    CodeLengths,  \* CODE_LENGTHS
    Capacity      \* tier_capacity

ASSUME AllocatorAssumption ==
    /\ CodeLengths \subseteq Nat
    /\ Capacity \in [CodeLengths -> Nat \ {0}]

VARIABLES
    intervals,  \* intervals[l] is the BTreeMap of tier l
    reply       \* the answer to the last call

vars == <<intervals, reply>>

Pool == INSTANCE FreeIdPool WITH
            free <- [l \in CodeLengths |-> FreeIds(intervals[l])]

Ids(l) == 0 .. (Capacity[l] - 1)

(* TieredAllocator::new: every tier is one interval from 0 to its end. *)
SeedTierTooFar(l) == Insert([s \in {} |-> 0], 0, Capacity[l])

SeedTier(l) == Insert([s \in {} |-> 0], 0, Capacity[l] - 1)

Init ==
    /\ intervals = [l \in CodeLengths |-> SeedTier(l)]
    /\ reply = Pool!NoReply

(* allocate() probes the lengths in order and takes the first id of the    *)
(* first interval of the first tier that has one.                          *)
Allocate(l) ==
    /\ \A shorter \in CodeLengths : shorter < l => DOMAIN intervals[shorter] = {}
    /\ \E start \in First(intervals[l]) :
         /\ intervals' = [intervals EXCEPT ![l] = TakeFirst(@, start)]
         /\ reply' = Pool!Allocated(l, start)

AllocateNone ==
    /\ \A l \in CodeLengths : DOMAIN intervals[l] = {}
    /\ reply' = Pool!Refused
    /\ UNCHANGED intervals

(* free() of an id outside its tier answers None. *)
FreeInvalid(l, id) ==
    /\ id >= Capacity[l]
    /\ reply' = Pool!Rejected
    /\ UNCHANGED intervals

FreeAgain(l, id) ==
    /\ id < Capacity[l]
    /\ Contains(intervals[l], id)
    /\ reply' = Pool!AlreadyFree(l, id)
    /\ UNCHANGED intervals

Free(l, id) ==
    /\ id < Capacity[l]
    /\ ~Contains(intervals[l], id)
    /\ intervals' = [intervals EXCEPT ![l] = MergeFree(@, id)]
    /\ reply' = Pool!Freed(l, id)

Next ==
    \/ \E l \in CodeLengths :
         \/ Allocate(l)
         \/ \E id \in 0 .. Capacity[l] :
              FreeInvalid(l, id) \/ FreeAgain(l, id) \/ Free(l, id)
    \/ AllocateNone

Spec == Init /\ [][Next]_vars

-----------------------------------------------------------------------------
RepliesAbout(l, id) == {Pool!Allocated(l, id), Pool!Freed(l, id), Pool!AlreadyFree(l, id)}

Replies ==
    {Pool!NoReply, Pool!Refused, Pool!Rejected}
        \cup UNION {UNION {RepliesAbout(l, id) : id \in Ids(l)} : l \in CodeLengths}

(* Every tier is a map of ids of the tier to ids of the tier, and the last *)
(* answer is one that allocate() or free() gives.                          *)
TypeOK ==
    /\ intervals = [l \in CodeLengths |-> intervals[l]]
    /\ \A l \in CodeLengths :
         /\ DOMAIN intervals[l] \subseteq Ids(l)
         /\ intervals[l] \in [DOMAIN intervals[l] -> Ids(l)]
    /\ reply \in Replies

(* However calls of allocate() and free() follow one another, the          *)
(* intervals of a tier stay in range, disjoint and maximal: free() finds   *)
(* and merges both neighbours of the id it is given.                       *)
Canonical == \A l \in CodeLengths : CanonicalTier(intervals[l], Capacity[l])

(* The intervals stand for the set of free ids and nothing else: allocate()*)
(* gives out the lowest free id of the shortest length and says which,     *)
(* free() makes exactly its id free and says truly whether it was, and     *)
(* only a full pool is refused.                                            *)
ImplementsPool == Pool!PoolSpec
=============================================================================
