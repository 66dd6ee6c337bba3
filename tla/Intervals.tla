----------------------------- MODULE Intervals ------------------------------
(***************************************************************************)
(* One tier of free ids as src/src/allocator.rs keeps it: a BTreeMap from  *)
(* the first to the last id of each maximal run of free ids.  A tier is a  *)
(* function whose domain is the set of first ids.                          *)
(*                                                                         *)
(* Here and in the other modules a definition named after a mistake        *)
(* (...Forgets..., ...Skips..., ...TooFar) is a deliberate bug, put in the *)
(* place of the definition after it to see that a property notices.        *)
(***************************************************************************)
EXTENDS Naturals

(* BTreeMap::insert and BTreeMap::remove. *)
Insert(tier, start, end) ==
    [s \in DOMAIN tier \cup {start} |-> IF s = start THEN end ELSE tier[s]]

Remove(tier, start) == [s \in DOMAIN tier \ {start} |-> tier[s]]

(* tier.iter().next(): the key of the first entry, if there is one. *)
First(tier) == {s \in DOMAIN tier : \A t \in DOMAIN tier : s <= t}

(* tier.range(..=id).next_back(): the key of the last entry that starts no *)
(* later than id, if there is one.                                         *)
Left(tier, id) ==
    {s \in DOMAIN tier : s <= id /\ \A t \in DOMAIN tier : t <= id => t <= s}

(* The entry found there holds id: the id is free. *)
Contains(tier, id) == \E s \in Left(tier, id) : id <= tier[s]

(* The entry found there ends just before id. *)
LeftAdjacent(tier, id) == {s \in Left(tier, id) : tier[s] + 1 = id}

(* Where the run that holds id starts and ends once id is free: joined     *)
(* with the run that ends just before it and the run that starts just      *)
(* after it, where there are such runs.                                    *)
MergedStartForgetsLeft(tier, id) == id

MergedStart(tier, id) ==
    IF LeftAdjacent(tier, id) = {} THEN id
    ELSE CHOOSE s \in LeftAdjacent(tier, id) : TRUE

MergedEnd(tier, id) == IF id + 1 \in DOMAIN tier THEN tier[id + 1] ELSE id

MergeFree(tier, id) ==
    Insert(Remove(tier, id + 1), MergedStart(tier, id), MergedEnd(tier, id))

(* Giving out the first id of the entry that starts at start. *)
TakeFirstForgetsRest(tier, start) == Remove(tier, start)

TakeFirst(tier, start) ==
    IF start < tier[start]
    THEN Insert(Remove(tier, start), start + 1, tier[start])
    ELSE Remove(tier, start)

-----------------------------------------------------------------------------
(* The ids a tier says are free. *)
FreeIds(tier) == UNION {s .. tier[s] : s \in DOMAIN tier}

(* The invariants docs/redis_allocator.md lists for every tier: intervals  *)
(* are in range, not empty, do not overlap and are not adjacent.           *)
CanonicalTier(tier, capacity) ==
    /\ DOMAIN tier \subseteq Nat
    /\ \A s \in DOMAIN tier : tier[s] \in s .. (capacity - 1)
    /\ \A s, t \in DOMAIN tier : s < t => tier[s] + 1 < t
=============================================================================
