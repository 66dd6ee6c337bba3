-------------------------- MODULE RedisClips_proofs -------------------------
(***************************************************************************)
(* The scripts keep canonical intervals, never free the code of a live     *)
(* clipboard, keep an exact expiry index when every server uses one, and   *)
(* implement FreeIdPool: for all code lengths, capacities, times to live,  *)
(* clock skews and batch limits.                                           *)
(***************************************************************************)
EXTENDS RedisClips, NumberLemmas

(* The keys of the tiers have the types TypeOK gives them. *)
TierTypes ==
    /\ starts \in [CodeLengths -> SUBSET Nat]
    /\ ends = [l \in CodeLengths |-> ends[l]]
    /\ \A l \in CodeLengths : ends[l] \in [DOMAIN ends[l] -> Nat]

Tiers == TierTypes /\ Canonical

LEMMA CapacityNat ==
    ASSUME NEW l \in CodeLengths
    PROVE  Capacity[l] \in Nat /\ Capacity[l] > 0 /\ l \in Nat
  BY RedisAssumption

(* A member is a code length and an id of its tier. *)
LEMMA MemberParts ==
    /\ \A m \in Members : /\ m = <<m[1], m[2]>>
                          /\ m[1] \in CodeLengths
                          /\ m[2] \in Ids(m[1])
    /\ \A l \in CodeLengths : \A id \in Ids(l) : <<l, id>> \in Members
<1>1. ASSUME NEW m \in Members
      PROVE  m = <<m[1], m[2]>> /\ m[1] \in CodeLengths /\ m[2] \in Ids(m[1])
  <2>1. PICK l \in CodeLengths : m \in {l} \X Ids(l)
    BY DEF Members
  <2>. QED  BY <2>1
<1>2. ASSUME NEW l \in CodeLengths, NEW id \in Ids(l)
      PROVE  <<l, id>> \in Members
  <2>1. <<l, id>> \in {l} \X Ids(l)
    OBVIOUS
  <2>. QED  BY <2>1 DEF Members
<1>. QED  BY <1>1, <1>2

LEMMA IdsNat ==
    ASSUME NEW l \in CodeLengths, NEW id \in Ids(l)
    PROVE  id \in Nat /\ id < Capacity[l]
  BY CapacityNat DEF Ids

-----------------------------------------------------------------------------
(* The lookups of the scripts in the zset and the hash are those of        *)
(* Intervals in the hash alone, as long as both have the same starts.      *)
LEMMA LookupsAgree ==
    ASSUME Tiers, NEW l \in CodeLengths, NEW id
    PROVE  /\ LeftStart(l, id) = Left(ends[l], id)
           /\ IntervalContains(l, id) <=> Contains(ends[l], id)
           /\ Smallest(l) = First(ends[l])
<1>1. DOMAIN ends[l] = starts[l]
  BY DEF Tiers, Canonical
<1>2. LeftStart(l, id) = Left(ends[l], id)
  BY <1>1 DEF LeftStart, Left
<1>3. Smallest(l) = First(ends[l])
  BY <1>1 DEF Smallest, First
<1>. QED  BY <1>2, <1>3 DEF IntervalContains, Contains

(* interval_contains(id) says whether id is free. *)
LEMMA ContainsFree ==
    ASSUME Tiers, NEW l \in CodeLengths, NEW id \in Ids(l)
    PROVE  IntervalContains(l, id) <=> id \in FreeIds(ends[l])
<1>1. CanonicalTier(ends[l], Capacity[l])
  BY DEF Tiers, Canonical
<1>. QED  BY <1>1, LookupsAgree, ContainsIsFree, CapacityNat, IdsNat

(* Giving a tier a new pair of keys, the others keeping theirs. *)
LEMMA TierStep ==
    ASSUME Tiers, NEW l \in CodeLengths, NEW S, NEW tier,
           starts' = [starts EXCEPT ![l] = S],
           ends' = [ends EXCEPT ![l] = tier],
           S = DOMAIN tier,
           tier \in [DOMAIN tier -> Nat],
           CanonicalTier(tier, Capacity[l])
    PROVE  /\ Tiers'
           /\ ends'[l] = tier
           /\ \A k \in CodeLengths : k # l => ends'[k] = ends[k]
<1>1. /\ starts' = [k \in CodeLengths |-> IF k = l THEN S ELSE starts[k]]
      /\ ends' = [k \in CodeLengths |-> IF k = l THEN tier ELSE ends[k]]
  BY DEF Tiers, TierTypes
<1>2. S \subseteq Nat
  BY DEF CanonicalTier
<1>3. TierTypes'
  BY <1>1, <1>2 DEF Tiers, TierTypes
<1>4. Canonical'
  BY <1>1 DEF Tiers, Canonical
<1>. QED  BY <1>1, <1>3, <1>4 DEF Tiers

(* The merge of the scripts is the merge of the in-process allocator. *)
LEMMA MergeStep ==
    ASSUME Tiers, NEW l \in CodeLengths, NEW id \in Ids(l),
           ~IntervalContains(l, id), MergeFreeInterval(l, id)
    PROVE  /\ Tiers'
           /\ FreeIds(ends'[l]) = FreeIds(ends[l]) \cup {id}
           /\ \A k \in CodeLengths : k # l => ends'[k] = ends[k]
<1> DEFINE tier == MergeFree(ends[l], id)
           start == MergedStart(ends[l], id)
           end == MergedEnd(ends[l], id)
<1>1. /\ DOMAIN ends[l] = starts[l]
      /\ CanonicalTier(ends[l], Capacity[l])
      /\ ends[l] \in [DOMAIN ends[l] -> Nat]
      /\ id \in Nat /\ id < Capacity[l] /\ Capacity[l] \in Nat
  BY CapacityNat, IdsNat DEF Tiers, TierTypes, Canonical
<1>2. id \notin FreeIds(ends[l])
  BY ContainsFree
<1>3. {s \in LeftStart(l, id) : ends[l][s] + 1 = id} = LeftAdjacent(ends[l], id)
  BY LookupsAgree DEF LeftAdjacent
<1>4. tier = Insert(Drop(ends[l], {id + 1}), start, end)
  BY DEF MergeFree, Drop, Remove
<1>5. /\ starts' = [starts EXCEPT ![l] = (starts[l] \ {id + 1}) \cup {start}]
      /\ ends' = [ends EXCEPT ![l] = tier]
  BY <1>1, <1>3, <1>4 DEF MergeFreeInterval, MergedStart, MergedEnd
<1>6. DOMAIN tier = (starts[l] \ {id + 1}) \cup {start}
  BY <1>1 DEF MergeFree, Insert, Remove
<1>7. start \in Nat /\ end \in Nat
  BY <1>1, MergedStartCases DEF MergedEnd, CanonicalTier
<1>8. tier \in [DOMAIN tier -> Nat]
  BY <1>1, <1>7 DEF MergeFree, Insert, Remove
<1>9. CanonicalTier(tier, Capacity[l]) /\ FreeIds(tier) = FreeIds(ends[l]) \cup {id}
  BY <1>1, <1>2, MergeFreeIds
<1> HIDE DEF tier, start, end
<1>. QED  BY <1>5, <1>6, <1>8, <1>9, TierStep

(* clip_create.lua takes the lowest free id of its tier. *)
LEMMA CreateStep ==
    ASSUME Tiers, NEW l \in CodeLengths, NEW id \in Smallest(l),
           starts' = [starts EXCEPT ![l] =
                        (@ \ {id}) \cup (IF id < ends[l][id] THEN {id + 1} ELSE {})],
           ends' = [ends EXCEPT ![l] =
                      IF id < ends[l][id] THEN Insert(Drop(@, {id}), id + 1, ends[l][id])
                                          ELSE Drop(@, {id})]
    PROVE  /\ Tiers'
           /\ FreeIds(ends'[l]) = FreeIds(ends[l]) \ {id}
           /\ \A k \in CodeLengths : k # l => ends'[k] = ends[k]
           /\ id \in Ids(l)
           /\ id \in FreeIds(ends[l])
           /\ \A other \in FreeIds(ends[l]) : id <= other
<1> DEFINE tier == TakeFirst(ends[l], id)
           S == (starts[l] \ {id}) \cup (IF id < ends[l][id] THEN {id + 1} ELSE {})
<1>1. /\ DOMAIN ends[l] = starts[l]
      /\ CanonicalTier(ends[l], Capacity[l])
      /\ ends[l] \in [DOMAIN ends[l] -> Nat]
      /\ Capacity[l] \in Nat
      /\ id \in DOMAIN ends[l] /\ id \in First(ends[l])
  BY CapacityNat, LookupsAgree DEF Tiers, TierTypes, Canonical, First
<1>2. id \in Nat /\ id < Capacity[l] /\ ends[l][id] \in Nat
  BY <1>1 DEF CanonicalTier
<1>3. Drop(ends[l], {id}) = Remove(ends[l], id)
  BY DEF Drop, Remove
<1>4. starts' = [starts EXCEPT ![l] = S] /\ ends' = [ends EXCEPT ![l] = tier]
  BY <1>3 DEF TakeFirst
<1>5. DOMAIN tier = S /\ tier \in [DOMAIN tier -> Nat]
  <2>1. CASE id < ends[l][id]
    BY <2>1, <1>1, <1>2 DEF TakeFirst, Insert, Remove
  <2>2. CASE ~(id < ends[l][id])
    BY <2>2, <1>1, <1>2 DEF TakeFirst, Remove
  <2>. QED  BY <2>1, <2>2
<1>6. CanonicalTier(tier, Capacity[l]) /\ FreeIds(tier) = FreeIds(ends[l]) \ {id}
  BY <1>1, TakeFirstIds
<1>7. id \in FreeIds(ends[l]) /\ \A other \in FreeIds(ends[l]) : id <= other
  BY <1>1, FirstIsLowest
<1>8. id \in Ids(l)
  BY <1>1, <1>2 DEF Ids
<1> HIDE DEF tier, S
<1>9. /\ Tiers'
      /\ ends'[l] = tier
      /\ \A k \in CodeLengths : k # l => ends'[k] = ends[k]
  BY <1>4, <1>5, <1>6, TierStep
<1>. QED  BY <1>6, <1>7, <1>8, <1>9

(* alloc_init.lua seeds every tier with one interval of all its ids. *)
LEMMA SeedStep ==
    ASSUME starts' = [l \in CodeLengths |-> {0}],
           ends' = [l \in CodeLengths |-> Insert(Empty, 0, Capacity[l] - 1)]
    PROVE  Tiers' /\ \A l \in CodeLengths : FreeIds(ends'[l]) = Ids(l)
<1>1. ASSUME NEW l \in CodeLengths
      PROVE  /\ DOMAIN ends'[l] = {0} /\ ends'[l][0] = Capacity[l] - 1
             /\ starts'[l] = {0}
             /\ ends'[l] \in [{0} -> Nat]
  BY CapacityNat DEF Insert, Empty
<1>2. TierTypes'
  BY <1>1 DEF TierTypes
<1>3. Canonical'
  BY <1>1, CapacityNat DEF Canonical, CanonicalTier
<1>4. ASSUME NEW l \in CodeLengths
      PROVE  FreeIds(ends'[l]) = Ids(l)
  BY <1>1 DEF FreeIds, Ids
<1>. QED  BY <1>2, <1>3, <1>4 DEF Tiers

-----------------------------------------------------------------------------
(* Nothing is stored before the tiers are seeded. *)
Fresh == ~initialized => DOMAIN clips = {} /\ DOMAIN expiring = {} /\ batch = {}

IInv == TypeOK /\ Canonical /\ Fresh /\ NoLiveFree

(* The parts of TypeOK that are not about tiers. *)
RestTypes ==
    /\ initialized \in BOOLEAN
    /\ DOMAIN clips \subseteq Members
    /\ clips \in [DOMAIN clips -> ClipType]
    /\ DOMAIN expiring \subseteq Members
    /\ expiring \in [DOMAIN expiring -> Nat]
    /\ clock \in Nat
    /\ batch \subseteq DOMAIN expiring
    /\ reply \in Replies

LEMMA TypeParts ==
    /\ TypeOK /\ Canonical <=> Tiers /\ RestTypes
    /\ TypeOK' /\ Canonical' <=> Tiers' /\ RestTypes'
  BY DEF TypeOK, Tiers, TierTypes, RestTypes

(* The answers that the actions give. *)
LEMMA RepliesType ==
    /\ Replies' = Replies
    /\ Pool!NoReply \in Replies
    /\ Pool!Refused \in Replies
    /\ \A l \in CodeLengths : \A id \in Ids(l) :
          /\ Pool!Allocated(l, id) \in Replies
          /\ Pool!Freed(l, id) \in Replies
          /\ Pool!AlreadyFree(l, id) \in Replies
<1>1. Pool!NoReply \in Replies /\ Pool!Refused \in Replies
  BY DEF Replies
<1>2. ASSUME NEW l \in CodeLengths, NEW id \in Ids(l)
      PROVE  /\ Pool!Allocated(l, id) \in Replies
             /\ Pool!Freed(l, id) \in Replies
             /\ Pool!AlreadyFree(l, id) \in Replies
  <2>1. RepliesAbout(l, id) \subseteq Replies
    BY DEF Replies
  <2>. QED  BY <2>1 DEF RepliesAbout
<1>3. Replies' = Replies
  BY DEF Replies, RepliesAbout, Ids
<1>. QED  BY <1>1, <1>2, <1>3

(* The maps from members keep their types when an entry is set or dropped. *)
LEMMA InsertMap ==
    ASSUME NEW map, NEW T, NEW m \in Members, NEW v \in T,
           DOMAIN map \subseteq Members, map \in [DOMAIN map -> T]
    PROVE  /\ DOMAIN Insert(map, m, v) = DOMAIN map \cup {m}
           /\ DOMAIN Insert(map, m, v) \subseteq Members
           /\ Insert(map, m, v) \in [DOMAIN Insert(map, m, v) -> T]
           /\ Insert(map, m, v)[m] = v
           /\ \A k \in DOMAIN map : k # m => Insert(map, m, v)[k] = map[k]
  BY DEF Insert

LEMMA DropMap ==
    ASSUME NEW map, NEW T, NEW M,
           DOMAIN map \subseteq Members, map \in [DOMAIN map -> T]
    PROVE  /\ DOMAIN Drop(map, M) = DOMAIN map \ M
           /\ DOMAIN Drop(map, M) \subseteq Members
           /\ Drop(map, M) \in [DOMAIN Drop(map, M) -> T]
           /\ \A k \in DOMAIN map : k \notin M => Drop(map, M)[k] = map[k]
  BY DEF Drop

LEMMA RecordType ==
    ASSUME RestTypes, NEW version \in 1 .. MaxVersion, NEW now \in Nows
    PROVE  Record(version, now) \in ClipType /\ now + TTL \in Nat
<1>1. now \in Nat /\ clock \in Nat /\ TTL \in Nat
  BY RedisAssumption DEF Nows, Times, RestTypes
<1>. QED  BY <1>1 DEF Record, ClipType

(* Which members are free after one id was given out, or given back. *)
LEMMA FreeAfterTake ==
    ASSUME NEW l \in CodeLengths, NEW id \in Ids(l),
           FreeIds(ends'[l]) = FreeIds(ends[l]) \ {id},
           \A k \in CodeLengths : k # l => ends'[k] = ends[k]
    PROVE  \A m \in Members : IsFree(m)' <=> IsFree(m) /\ m # <<l, id>>
<1> SUFFICES ASSUME NEW m \in Members
             PROVE  IsFree(m)' <=> IsFree(m) /\ m # <<l, id>>
  OBVIOUS
<1>1. m = <<m[1], m[2]>> /\ m[1] \in CodeLengths
  BY MemberParts
<1>. QED  BY <1>1 DEF IsFree

LEMMA FreeAfterMerge ==
    ASSUME NEW l \in CodeLengths, NEW id \in Ids(l),
           FreeIds(ends'[l]) = FreeIds(ends[l]) \cup {id},
           \A k \in CodeLengths : k # l => ends'[k] = ends[k]
    PROVE  \A m \in Members : IsFree(m)' <=> IsFree(m) \/ m = <<l, id>>
<1> SUFFICES ASSUME NEW m \in Members
             PROVE  IsFree(m)' <=> IsFree(m) \/ m = <<l, id>>
  OBVIOUS
<1>1. m = <<m[1], m[2]>> /\ m[1] \in CodeLengths
  BY MemberParts
<1>. QED  BY <1>1 DEF IsFree

-----------------------------------------------------------------------------
(* What each script that touches a tier does to the state, from which both *)
(* the invariants and the refinement follow.                               *)
LEMMA CreateEffect ==
    ASSUME IInv, NEW l \in CodeLengths, NEW version \in 1 .. MaxVersion, NEW now \in Nows,
           NEW useIndex \in IndexModes, Create(l, version, now, useIndex)
    PROVE  \E id \in Ids(l) :
             /\ Tiers' /\ RestTypes' /\ initialized' /\ initialized
             /\ FreeIds(ends'[l]) = FreeIds(ends[l]) \ {id}
             /\ \A k \in CodeLengths : k # l => ends'[k] = ends[k]
             /\ \A m \in Members : IsFree(m)' <=> IsFree(m) /\ m # <<l, id>>
             /\ IsFree(<<l, id>>)
             /\ \A other \in FreeIds(ends[l]) : id <= other
             /\ clips' = Insert(clips, <<l, id>>, Record(version, now))
             /\ Index(<<l, id>>, now + TTL, useIndex)
             /\ reply' = Pool!Allocated(l, id)
<1>0. Tiers /\ RestTypes
  BY TypeParts DEF IInv
<1>1. PICK id \in Smallest(l) :
        /\ starts' = [starts EXCEPT ![l] =
                        (@ \ {id}) \cup (IF id < ends[l][id] THEN {id + 1} ELSE {})]
        /\ ends' = [ends EXCEPT ![l] =
                      IF id < ends[l][id] THEN Insert(Drop(@, {id}), id + 1, ends[l][id])
                                          ELSE Drop(@, {id})]
        /\ clips' = Insert(clips, <<l, id>>, Record(version, now))
        /\ Index(<<l, id>>, now + TTL, useIndex)
        /\ reply' = Pool!Allocated(l, id)
  BY DEF Create
<1>2. /\ Tiers'
      /\ FreeIds(ends'[l]) = FreeIds(ends[l]) \ {id}
      /\ \A k \in CodeLengths : k # l => ends'[k] = ends[k]
      /\ id \in Ids(l)
      /\ id \in FreeIds(ends[l])
      /\ \A other \in FreeIds(ends[l]) : id <= other
  BY <1>0, <1>1, CreateStep
<1>3. \A m \in Members : IsFree(m)' <=> IsFree(m) /\ m # <<l, id>>
  BY <1>2, FreeAfterTake
<1>4. IsFree(<<l, id>>)
  BY <1>2 DEF IsFree
<1>5. initialized /\ initialized' /\ clock' = clock /\ batch' = {}
  BY DEF Create, Ready
<1>6. <<l, id>> \in Members /\ reply' \in Replies
  BY <1>1, <1>2, MemberParts, RepliesType
<1>7. /\ DOMAIN clips' \subseteq Members
      /\ clips' \in [DOMAIN clips' -> ClipType]
  BY <1>0, <1>1, <1>6, RecordType, InsertMap DEF RestTypes
<1>8. /\ DOMAIN expiring' \subseteq Members
      /\ expiring' \in [DOMAIN expiring' -> Nat]
  <2>1. CASE useIndex
    BY <2>1, <1>0, <1>1, <1>6, RecordType, InsertMap DEF RestTypes, Index
  <2>2. CASE ~useIndex
    BY <2>2, <1>0, <1>1 DEF RestTypes, Index
  <2>. QED  BY <2>1, <2>2
<1>9. RestTypes'
  BY <1>0, <1>5, <1>6, <1>7, <1>8, RepliesType DEF RestTypes, Members, Ids, ClipType
<1>. QED  BY <1>1, <1>2, <1>3, <1>4, <1>5, <1>9

LEMMA FreeEffect ==
    ASSUME IInv, NEW l \in CodeLengths, NEW id \in Ids(l), NEW useIndex \in IndexModes,
           Free(l, id, useIndex)
    PROVE  /\ Tiers' /\ RestTypes' /\ initialized' /\ initialized
           /\ FreeIds(ends'[l]) = FreeIds(ends[l]) \cup {id}
           /\ \A k \in CodeLengths : k # l => ends'[k] = ends[k]
           /\ \A m \in Members : IsFree(m)' <=> IsFree(m) \/ m = <<l, id>>
           /\ ~IsFree(<<l, id>>)
<1>0. Tiers /\ RestTypes
  BY TypeParts DEF IInv
<1>1. ~IntervalContains(l, id) /\ MergeFreeInterval(l, id)
  BY DEF Free
<1>2. /\ Tiers'
      /\ FreeIds(ends'[l]) = FreeIds(ends[l]) \cup {id}
      /\ \A k \in CodeLengths : k # l => ends'[k] = ends[k]
  BY <1>0, <1>1, MergeStep
<1>3. \A m \in Members : IsFree(m)' <=> IsFree(m) \/ m = <<l, id>>
  BY <1>2, FreeAfterMerge
<1>4. ~IsFree(<<l, id>>)
  BY <1>0, <1>1, ContainsFree DEF IsFree
<1>5. /\ initialized /\ initialized' /\ clock' = clock /\ batch' = {}
      /\ reply' \in Replies
  BY RepliesType DEF Free, Ready
<1>6. DOMAIN clips' \subseteq Members /\ clips' \in [DOMAIN clips' -> ClipType]
  BY <1>0, DropMap DEF RestTypes, Free
<1>7. DOMAIN expiring' \subseteq Members /\ expiring' \in [DOMAIN expiring' -> Nat]
  <2>1. CASE useIndex
    BY <2>1, <1>0, DropMap DEF RestTypes, Free, Unindex
  <2>2. CASE ~useIndex
    BY <2>2, <1>0 DEF RestTypes, Free, Unindex
  <2>. QED  BY <2>1, <2>2
<1>8. RestTypes'
  BY <1>0, <1>5, <1>6, <1>7, RepliesType DEF RestTypes, Members, Ids, ClipType
<1>. QED  BY <1>2, <1>3, <1>4, <1>5, <1>8

LEMMA FreeAgainEffect ==
    ASSUME IInv, NEW l \in CodeLengths, NEW id \in Ids(l), NEW useIndex \in IndexModes,
           FreeAgain(l, id, useIndex)
    PROVE  /\ RestTypes' /\ initialized' /\ initialized
           /\ UNCHANGED <<starts, ends>>
           /\ IsFree(<<l, id>>)
<1>0. Tiers /\ RestTypes
  BY TypeParts DEF IInv
<1>1. IsFree(<<l, id>>)
  BY <1>0, ContainsFree DEF IsFree, FreeAgain
<1>2. /\ initialized /\ initialized' /\ clock' = clock /\ batch' = {}
      /\ UNCHANGED <<starts, ends>>
      /\ reply' \in Replies
  BY RepliesType DEF FreeAgain, Ready
<1>3. DOMAIN clips' \subseteq Members /\ clips' \in [DOMAIN clips' -> ClipType]
  BY <1>0, DropMap DEF RestTypes, FreeAgain
<1>4. DOMAIN expiring' \subseteq Members /\ expiring' \in [DOMAIN expiring' -> Nat]
  <2>1. CASE useIndex
    BY <2>1, <1>0, DropMap DEF RestTypes, FreeAgain, Unindex
  <2>2. CASE ~useIndex
    BY <2>2, <1>0 DEF RestTypes, FreeAgain, Unindex
  <2>. QED  BY <2>1, <2>2
<1>5. RestTypes'
  BY <1>0, <1>2, <1>3, <1>4, RepliesType DEF RestTypes, Members, Ids, ClipType
<1>. QED  BY <1>1, <1>2, <1>5

(* The three outcomes of a turn of the reclaim loop. *)
LEMMA ReclaimEffect ==
    ASSUME IInv, NEW l \in CodeLengths, NEW id \in Ids(l), ReclaimEntry(l, id)
    PROVE  /\ Tiers' /\ RestTypes' /\ initialized' /\ initialized
           /\ UNCHANGED <<clips, reply>>
           /\ \/ /\ <<l, id>> \in DOMAIN clips
                 /\ UNCHANGED <<starts, ends, expiring>>
              \/ /\ <<l, id>> \notin DOMAIN clips
                 /\ IsFree(<<l, id>>)
                 /\ expiring' = Drop(expiring, {<<l, id>>})
                 /\ UNCHANGED <<starts, ends>>
              \/ /\ <<l, id>> \notin DOMAIN clips
                 /\ ~IsFree(<<l, id>>)
                 /\ expiring' = Drop(expiring, {<<l, id>>})
                 /\ FreeIds(ends'[l]) = FreeIds(ends[l]) \cup {id}
                 /\ \A k \in CodeLengths : k # l => ends'[k] = ends[k]
                 /\ \A m \in Members : IsFree(m)' <=> IsFree(m) \/ m = <<l, id>>
<1>0. Tiers /\ RestTypes
  BY TypeParts DEF IInv
<1>1. /\ batch' = batch \ {<<l, id>>} /\ batch' \subseteq DOMAIN expiring
      /\ initialized /\ initialized' /\ clock' = clock /\ clips' = clips /\ reply' = reply
  BY <1>0 DEF ReclaimEntry, IInv, Fresh, RestTypes
<1>2. CASE <<l, id>> \in DOMAIN clips
  <2>1. UNCHANGED <<starts, ends, expiring>>
    BY <1>2 DEF ReclaimEntry
  <2>2. Tiers'
    BY <1>0, <2>1 DEF Tiers, TierTypes, Canonical
  <2>3. RestTypes'
    BY <1>0, <1>1, <2>1, RepliesType DEF RestTypes, Members, Ids, ClipType
  <2>. QED  BY <1>1, <1>2, <2>1, <2>2, <2>3
<1>3. CASE <<l, id>> \notin DOMAIN clips
  <2>1. expiring' = Drop(expiring, {<<l, id>>})
    BY <1>3 DEF ReclaimEntry
  <2>2. /\ DOMAIN expiring' = DOMAIN expiring \ {<<l, id>>}
        /\ DOMAIN expiring' \subseteq Members
        /\ expiring' \in [DOMAIN expiring' -> Nat]
    BY <1>0, <2>1, DropMap DEF RestTypes
  <2>3. RestTypes'
    BY <1>0, <1>1, <2>2, RepliesType DEF RestTypes, Members, Ids, ClipType
  <2>4. CASE IntervalContains(l, id)
    <3>1. UNCHANGED <<starts, ends>>
      BY <1>3, <2>4 DEF ReclaimEntry
    <3>2. Tiers'
      BY <1>0, <3>1 DEF Tiers, TierTypes, Canonical
    <3>3. IsFree(<<l, id>>)
      BY <1>0, <2>4, ContainsFree DEF IsFree
    <3>. QED  BY <1>1, <1>3, <2>1, <2>3, <3>1, <3>2, <3>3
  <2>5. CASE ~IntervalContains(l, id)
    <3>1. MergeFreeInterval(l, id)
      BY <1>3, <2>5 DEF ReclaimEntry
    <3>2. /\ Tiers'
          /\ FreeIds(ends'[l]) = FreeIds(ends[l]) \cup {id}
          /\ \A k \in CodeLengths : k # l => ends'[k] = ends[k]
      BY <1>0, <2>5, <3>1, MergeStep
    <3>3. \A m \in Members : IsFree(m)' <=> IsFree(m) \/ m = <<l, id>>
      BY <3>2, FreeAfterMerge
    <3>4. ~IsFree(<<l, id>>)
      BY <1>0, <2>5, ContainsFree DEF IsFree
    <3>. QED  BY <1>1, <1>3, <2>1, <2>3, <3>2, <3>3, <3>4
  <2>. QED  BY <2>4, <2>5
<1>. QED  BY <1>2, <1>3

-----------------------------------------------------------------------------
LEMMA InvInit == Init => IInv
<1> SUFFICES ASSUME Init
             PROVE  IInv
  OBVIOUS
<1>1. Tiers
  BY CapacityNat DEF Init, Tiers, TierTypes, Canonical, CanonicalTier, Empty
<1>2. RestTypes
  BY RepliesType DEF Init, RestTypes, Empty
<1>3. Fresh /\ NoLiveFree
  BY DEF Init, Fresh, NoLiveFree, Empty
<1>. QED  BY <1>1, <1>2, <1>3, TypeParts DEF IInv

(* Scripts that leave the tiers alone keep IInv if they keep the types and *)
(* set only keys that were set before.                                     *)
LEMMA SameTiers ==
    ASSUME IInv, UNCHANGED <<starts, ends>>, RestTypes',
           DOMAIN clips' \subseteq DOMAIN clips,
           initialized \/ UNCHANGED <<initialized, expiring, batch>>,
           initialized => initialized'
    PROVE  IInv'
<1>1. Tiers'
  BY TypeParts DEF IInv, Tiers, TierTypes, Canonical
<1>2. Fresh'
  BY DEF IInv, Fresh
<1>3. NoLiveFree'
  BY DEF IInv, NoLiveFree, IsFree
<1>. QED  BY <1>1, <1>2, <1>3, TypeParts DEF IInv

LEMMA InvNext == IInv /\ [Next]_vars => IInv'
<1> SUFFICES ASSUME IInv, [Next]_vars
             PROVE  IInv'
  OBVIOUS
<1>0. Tiers /\ RestTypes
  BY TypeParts DEF IInv
<1>1. CASE Connect
  <2>1. CASE initialized
    <3>1. UNCHANGED vars
      BY <1>1, <2>1 DEF Connect, vars
    <3>2. RestTypes'
      BY <1>0, <3>1, RepliesType DEF RestTypes, vars, Members, Ids, ClipType
    <3>. QED  BY <3>1, <3>2, SameTiers DEF vars
  <2>2. CASE ~initialized
    <3>1. Tiers'
      BY <1>1, <2>2, SeedStep DEF Connect
    <3>2. RestTypes' /\ Fresh' /\ DOMAIN clips' = {}
      BY <1>0, <1>1, <2>2, RepliesType
      DEF Connect, RestTypes, Members, Ids, ClipType, IInv, Fresh
    <3>3. NoLiveFree'
      BY <3>2 DEF NoLiveFree
    <3>. QED  BY <3>1, <3>2, <3>3, TypeParts DEF IInv
  <2>. QED  BY <2>1, <2>2
<1>2. ASSUME NEW now \in Nows, NEW useIndex \in IndexModes, NEW version \in 1 .. MaxVersion,
             NEW l \in CodeLengths, Create(l, version, now, useIndex)
      PROVE  IInv'
  <2>1. PICK id \in Ids(l) :
          /\ Tiers' /\ RestTypes' /\ initialized'
          /\ \A m \in Members : IsFree(m)' <=> IsFree(m) /\ m # <<l, id>>
          /\ clips' = Insert(clips, <<l, id>>, Record(version, now))
    BY <1>2, CreateEffect
  <2>2. DOMAIN clips' = DOMAIN clips \cup {<<l, id>>}
    BY <2>1 DEF Insert
  <2>3. NoLiveFree'
    <3>1. \A m \in DOMAIN clips' : m \in Members
      BY <2>1 DEF RestTypes, Members, Ids
    <3>. QED  BY <2>1, <2>2, <3>1 DEF IInv, NoLiveFree
  <2>4. Fresh'
    BY <2>1 DEF Fresh
  <2>. QED  BY <2>1, <2>3, <2>4, TypeParts DEF IInv
<1>3. ASSUME NEW now \in Nows, NEW useIndex \in IndexModes, NEW version \in 1 .. MaxVersion,
             NEW m \in Members, Write(m, version, now, useIndex)
      PROVE  IInv'
  <2>1. /\ clips' = Insert(clips, m, Record(version, now))
        /\ m \in DOMAIN clips
        /\ Index(m, now + TTL, useIndex)
        /\ UNCHANGED <<initialized, starts, ends, clock, batch, reply>>
        /\ initialized /\ batch = {}
    BY <1>3 DEF Write, Ready
  <2>2. /\ DOMAIN clips' = DOMAIN clips \cup {m}
        /\ clips' \in [DOMAIN clips' -> ClipType]
    BY <1>0, <2>1, RecordType, InsertMap DEF RestTypes
  <2>3. DOMAIN expiring' \subseteq Members /\ expiring' \in [DOMAIN expiring' -> Nat]
    <3>1. CASE useIndex
      BY <3>1, <1>0, <2>1, RecordType, InsertMap DEF RestTypes, Index
    <3>2. CASE ~useIndex
      BY <3>2, <1>0, <2>1 DEF RestTypes, Index
    <3>. QED  BY <3>1, <3>2
  <2>4. RestTypes'
    BY <1>0, <2>1, <2>2, <2>3, RepliesType DEF RestTypes, Members, Ids, ClipType
  <2>. QED  BY <2>1, <2>2, <2>4, SameTiers
<1>4. CASE CreateExhausted
  <2>1. RestTypes'
    BY <1>0, <1>4, RepliesType DEF CreateExhausted, RestTypes, Members, Ids, ClipType
  <2>. QED  BY <1>4, <2>1, SameTiers DEF CreateExhausted
<1>5. ASSUME NEW l \in CodeLengths, NEW id \in Ids(l), NEW useIndex \in IndexModes,
             FreeAgain(l, id, useIndex)
      PROVE  IInv'
  <2>1. RestTypes' /\ initialized' /\ initialized /\ UNCHANGED <<starts, ends>>
    BY <1>5, FreeAgainEffect
  <2>2. DOMAIN clips' \subseteq DOMAIN clips
    BY <1>5 DEF FreeAgain, Drop
  <2>. QED  BY <2>1, <2>2, SameTiers
<1>6. ASSUME NEW l \in CodeLengths, NEW id \in Ids(l), NEW useIndex \in IndexModes,
             Free(l, id, useIndex)
      PROVE  IInv'
  <2>1. /\ Tiers' /\ RestTypes' /\ initialized'
        /\ \A m \in Members : IsFree(m)' <=> IsFree(m) \/ m = <<l, id>>
    BY <1>6, FreeEffect
  <2>2. DOMAIN clips' = DOMAIN clips \ {<<l, id>>}
    BY <1>6 DEF Free, Drop
  <2>3. NoLiveFree'
    BY <1>0, <2>1, <2>2 DEF IInv, NoLiveFree, RestTypes
  <2>. QED  BY <2>1, <2>3, TypeParts DEF IInv, Fresh
<1>7. ASSUME NEW l \in CodeLengths, NEW id \in Ids(l), ReclaimEntry(l, id)
      PROVE  IInv'
  <2>1. Tiers' /\ RestTypes' /\ initialized' /\ clips' = clips
    BY <1>7, ReclaimEffect
  <2>2. \A m \in DOMAIN clips : ~IsFree(m)'
    <3>1. \A m \in DOMAIN clips : m \in Members /\ ~IsFree(m)
      BY <1>0 DEF IInv, NoLiveFree, RestTypes
    <3>2. CASE UNCHANGED <<starts, ends>>
      BY <3>1, <3>2 DEF IsFree
    <3>3. CASE /\ <<l, id>> \notin DOMAIN clips
               /\ \A m \in Members : IsFree(m)' <=> IsFree(m) \/ m = <<l, id>>
      BY <3>1, <3>3
    <3>. QED  BY <1>7, <3>2, <3>3, ReclaimEffect
  <2>. QED  BY <2>1, <2>2, TypeParts DEF IInv, Fresh, NoLiveFree
<1>8. ASSUME NEW now \in Nows, ReclaimStart(now)
      PROVE  IInv'
  <2>1. /\ batch' \subseteq DOMAIN expiring /\ initialized
        /\ UNCHANGED <<initialized, starts, ends, clips, expiring, clock, reply>>
    BY <1>8 DEF ReclaimStart, Due, Ready
  <2>2. RestTypes'
    BY <1>0, <2>1, RepliesType DEF RestTypes, Members, Ids, ClipType
  <2>. QED  BY <2>1, <2>2, SameTiers
<1>9. CASE Tick
  <2>1. /\ clock' \in Nat
        /\ DOMAIN clips' \subseteq DOMAIN clips
        /\ DOMAIN clips' \subseteq Members
        /\ clips' \in [DOMAIN clips' -> ClipType]
    <3> DEFINE gone == {m \in DOMAIN clips : clips[m].deadline < clock'}
    <3>1. clips' = Drop(clips, gone) /\ clock' = clock + 1
      BY <1>9 DEF Tick
    <3> HIDE DEF gone
    <3>. QED  BY <1>0, <3>1 DEF Drop, RestTypes
  <2>2. UNCHANGED <<initialized, starts, ends, expiring, batch, reply>>
    BY <1>9 DEF Tick
  <2>3. RestTypes'
    BY <1>0, <2>1, <2>2, RepliesType DEF RestTypes, Members, Ids, ClipType
  <2>. QED  BY <2>1, <2>2, <2>3, SameTiers
<1>10. CASE UNCHANGED vars
  <2>1. RestTypes'
    BY <1>0, <1>10, RepliesType DEF RestTypes, vars, Members, Ids, ClipType
  <2>. QED  BY <1>10, <2>1, SameTiers DEF vars
<1>. QED
  BY <1>1, <1>2, <1>3, <1>4, <1>5, <1>6, <1>7, <1>8, <1>9, <1>10 DEF Next

(* The keys keep their types. *)
THEOREM TypeAlways == Spec => []TypeOK
<1>1. IInv => TypeOK
  BY DEF IInv
<1>. QED  BY <1>1, InvInit, InvNext, PTL DEF Spec

(* Both keys of every tier describe the same canonical intervals. *)
THEOREM CanonicalAlways == Spec => []Canonical
<1>1. IInv => Canonical
  BY DEF IInv
<1>. QED  BY <1>1, InvInit, InvNext, PTL DEF Spec

(* The code of a clipboard that Redis still has is never free, however far *)
(* the clocks of servers and Redis are apart and whichever servers keep    *)
(* the expiry index.                                                       *)
THEOREM NoLiveFreeAlways == Spec => []NoLiveFree
<1>1. IInv => NoLiveFree
  BY DEF IInv
<1>. QED  BY <1>1, InvInit, InvNext, PTL DEF Spec

-----------------------------------------------------------------------------
(* When every server keeps the expiry index. *)
IndexInv == IndexExact /\ IndexMatchesRecord

LEMMA IndexInit == Init => IndexInv
  BY DEF Init, IndexInv, IndexExact, IndexMatchesRecord, Empty

LEMMA IndexNext ==
    ASSUME IndexModes = {TRUE}, IInv, IndexInv, [Next]_vars
    PROVE  IndexInv'
<1>0. /\ RestTypes
      /\ initialized => \A m \in Members : m \in DOMAIN expiring <=> ~IsFree(m)
      /\ \A m \in DOMAIN clips :
            m \in DOMAIN expiring /\ expiring[m] = clips[m].expires_at_ms
      /\ \A m \in DOMAIN clips : m \in Members /\ ~IsFree(m)
      /\ Members' = Members
  BY TypeParts DEF IInv, IndexInv, IndexExact, IndexMatchesRecord, NoLiveFree, RestTypes,
                   Members, Ids
(* Scripts that change neither the tiers nor the index. *)
<1>1. ASSUME UNCHANGED <<initialized, starts, ends, expiring>>,
             DOMAIN clips' \subseteq DOMAIN clips,
             \A m \in DOMAIN clips' : clips'[m] = clips[m]
      PROVE  IndexInv'
  BY <1>0, <1>1 DEF IndexInv, IndexExact, IndexMatchesRecord, IsFree
<1>2. CASE Connect
  <2>1. CASE initialized
    BY <1>1, <1>2, <2>1 DEF Connect
  <2>2. CASE ~initialized
    <3>1. \A l \in CodeLengths : FreeIds(ends'[l]) = Ids(l)
      BY <1>2, <2>2, SeedStep DEF Connect
    <3>2. \A m \in Members : IsFree(m)'
      BY <3>1, MemberParts DEF IsFree
    <3>3. DOMAIN expiring' = {} /\ DOMAIN clips' = {}
      BY <1>2, <2>2 DEF Connect, IInv, Fresh
    <3>. QED  BY <1>0, <3>2, <3>3 DEF IndexInv, IndexExact, IndexMatchesRecord
  <2>. QED  BY <2>1, <2>2
<1>3. ASSUME NEW now \in Nows, NEW useIndex \in IndexModes, NEW version \in 1 .. MaxVersion,
             NEW l \in CodeLengths, Create(l, version, now, useIndex)
      PROVE  IndexInv'
  <2>1. PICK id \in Ids(l) :
          /\ \A m \in Members : IsFree(m)' <=> IsFree(m) /\ m # <<l, id>>
          /\ clips' = Insert(clips, <<l, id>>, Record(version, now))
          /\ Index(<<l, id>>, now + TTL, useIndex)
          /\ initialized /\ initialized'
    BY <1>3, CreateEffect
  <2>2. expiring' = Insert(expiring, <<l, id>>, now + TTL)
    BY <2>1 DEF Index
  <2>3. IndexExact'
    BY <1>0, <2>1, <2>2 DEF Insert, IndexExact
  <2>4. IndexMatchesRecord'
    BY <1>0, <2>1, <2>2 DEF Insert, IndexMatchesRecord, Record
  <2>. QED  BY <2>3, <2>4 DEF IndexInv
<1>4. ASSUME NEW now \in Nows, NEW useIndex \in IndexModes, NEW version \in 1 .. MaxVersion,
             NEW k \in Members, Write(k, version, now, useIndex)
      PROVE  IndexInv'
  <2>1. /\ clips' = Insert(clips, k, Record(version, now))
        /\ expiring' = Insert(expiring, k, now + TTL)
        /\ k \in DOMAIN clips
        /\ UNCHANGED <<initialized, ends>>
    BY <1>4 DEF Write, Index
  <2>2. IndexExact'
    BY <1>0, <2>1 DEF Insert, IndexExact, IsFree
  <2>3. IndexMatchesRecord'
    BY <1>0, <2>1 DEF Insert, IndexMatchesRecord, Record
  <2>. QED  BY <2>2, <2>3 DEF IndexInv
<1>5. CASE CreateExhausted
  BY <1>1, <1>5 DEF CreateExhausted
<1>6. ASSUME NEW l \in CodeLengths, NEW id \in Ids(l), NEW useIndex \in IndexModes,
             FreeAgain(l, id, useIndex)
      PROVE  IndexInv'
  <2>1. /\ IsFree(<<l, id>>) /\ initialized /\ initialized' /\ <<l, id>> \in Members
        /\ UNCHANGED <<starts, ends>>
    BY <1>6, FreeAgainEffect, MemberParts
  <2>2. expiring' = Drop(expiring, {<<l, id>>}) /\ clips' = Drop(clips, {<<l, id>>})
    BY <1>6 DEF FreeAgain, Unindex
  <2>3. IndexExact'
    BY <1>0, <2>1, <2>2 DEF Drop, IndexExact, IsFree
  <2>4. IndexMatchesRecord'
    BY <1>0, <2>2 DEF Drop, IndexMatchesRecord
  <2>. QED  BY <2>3, <2>4 DEF IndexInv
<1>7. ASSUME NEW l \in CodeLengths, NEW id \in Ids(l), NEW useIndex \in IndexModes,
             Free(l, id, useIndex)
      PROVE  IndexInv'
  <2>1. /\ \A m \in Members : IsFree(m)' <=> IsFree(m) \/ m = <<l, id>>
        /\ initialized /\ initialized'
    BY <1>7, FreeEffect
  <2>2. expiring' = Drop(expiring, {<<l, id>>}) /\ clips' = Drop(clips, {<<l, id>>})
    BY <1>7 DEF Free, Unindex
  <2>3. IndexExact'
    BY <1>0, <2>1, <2>2 DEF Drop, IndexExact
  <2>4. IndexMatchesRecord'
    BY <1>0, <2>2 DEF Drop, IndexMatchesRecord
  <2>. QED  BY <2>3, <2>4 DEF IndexInv
<1>8. ASSUME NEW l \in CodeLengths, NEW id \in Ids(l), ReclaimEntry(l, id)
      PROVE  IndexInv'
  <2>1. initialized /\ initialized' /\ clips' = clips /\ <<l, id>> \in Members
    BY <1>8, ReclaimEffect, MemberParts
  <2>2. CASE UNCHANGED <<starts, ends, expiring>>
    BY <1>1, <2>1, <2>2
  <2>3. CASE /\ <<l, id>> \notin DOMAIN clips
             /\ IsFree(<<l, id>>)
             /\ expiring' = Drop(expiring, {<<l, id>>})
             /\ UNCHANGED <<starts, ends>>
    <3>1. IndexExact'
      BY <1>0, <2>1, <2>3 DEF Drop, IndexExact, IsFree
    <3>2. IndexMatchesRecord'
      BY <1>0, <2>1, <2>3 DEF Drop, IndexMatchesRecord
    <3>. QED  BY <3>1, <3>2 DEF IndexInv
  <2>4. CASE /\ <<l, id>> \notin DOMAIN clips
             /\ expiring' = Drop(expiring, {<<l, id>>})
             /\ \A m \in Members : IsFree(m)' <=> IsFree(m) \/ m = <<l, id>>
    <3>1. IndexExact'
      BY <1>0, <2>1, <2>4 DEF Drop, IndexExact
    <3>2. IndexMatchesRecord'
      BY <1>0, <2>1, <2>4 DEF Drop, IndexMatchesRecord
    <3>. QED  BY <3>1, <3>2 DEF IndexInv
  <2>. QED  BY <1>8, <2>2, <2>3, <2>4, ReclaimEffect
<1>9. ASSUME NEW now \in Nows, ReclaimStart(now)
      PROVE  IndexInv'
  BY <1>1, <1>9 DEF ReclaimStart
<1>10. CASE Tick
  BY <1>1, <1>10 DEF Tick, Drop
<1>11. CASE UNCHANGED vars
  BY <1>1, <1>11 DEF vars
<1>. QED
  BY <1>2, <1>3, <1>4, <1>5, <1>6, <1>7, <1>8, <1>9, <1>10, <1>11 DEF Next

(* When every server keeps the expiry index, it has exactly the codes that *)
(* are given out: none is lost and no free one is reclaimed.               *)
THEOREM IndexExactAlways ==
    ASSUME IndexModes = {TRUE}
    PROVE  Spec => []IndexExact
<1>1. IInv /\ IndexInv /\ [Next]_vars => IndexInv'
  BY IndexNext
<1>2. IndexInv => IndexExact
  BY DEF IndexInv
<1>. QED  BY <1>1, <1>2, InvInit, InvNext, IndexInit, PTL DEF Spec

(* When every server keeps the expiry index, the score of a live clipboard *)
(* is the time at which its record says it expires.                        *)
THEOREM IndexMatchesRecordAlways ==
    ASSUME IndexModes = {TRUE}
    PROVE  Spec => []IndexMatchesRecord
<1>1. IInv /\ IndexInv /\ [Next]_vars => IndexInv'
  BY IndexNext
<1>2. IndexInv => IndexMatchesRecord
  BY DEF IndexInv
<1>. QED  BY <1>1, <1>2, InvInit, InvNext, IndexInit, PTL DEF Spec

-----------------------------------------------------------------------------
(* Every script is a step of the pool or leaves the pool alone. *)
LEMMA StepSimulation == IInv /\ [Next]_vars => [Pool!PoolNext]_(Pool!poolVars)
<1> SUFFICES ASSUME IInv, [Next]_vars
             PROVE  [Pool!PoolNext]_(Pool!poolVars)
  OBVIOUS
<1> DEFINE free == [l \in CodeLengths |-> IF initialized THEN FreeIds(ends[l]) ELSE Ids(l)]
<1>0. Tiers /\ RestTypes /\ \A l \in CodeLengths : Pool!PoolIds(l) = Ids(l)
  BY TypeParts DEF IInv, Ids, Pool!PoolIds
<1>1. CASE Connect
  <2>1. CASE initialized
    BY <1>1, <2>1 DEF Connect, Pool!poolVars
  <2>2. CASE ~initialized
    <3>1. \A l \in CodeLengths : FreeIds(ends'[l]) = Ids(l)
      BY <1>1, <2>2, SeedStep DEF Connect
    <3>2. free' = free /\ reply' = reply
      BY <1>1, <2>2, <3>1 DEF Connect, Ids
    <3>. QED  BY <3>2 DEF Pool!poolVars
  <2>. QED  BY <2>1, <2>2
<1>2. ASSUME NEW now \in Nows, NEW useIndex \in IndexModes, NEW version \in 1 .. MaxVersion,
             NEW l \in CodeLengths, Create(l, version, now, useIndex)
      PROVE  Pool!PoolNext
  <2>1. PICK id \in Ids(l) :
          /\ FreeIds(ends'[l]) = FreeIds(ends[l]) \ {id}
          /\ \A k \in CodeLengths : k # l => ends'[k] = ends[k]
          /\ IsFree(<<l, id>>)
          /\ \A other \in FreeIds(ends[l]) : id <= other
          /\ reply' = Pool!Allocated(l, id)
          /\ initialized /\ initialized'
    BY <1>2, CreateEffect
  <2>2. free' = [free EXCEPT ![l] = @ \ {id}]
    BY <2>1
  <2>3. id \in free[l] /\ \A other \in free[l] : id <= other
    BY <2>1 DEF IsFree
  <2>4. \A k \in CodeLengths : k < l => free[k] = {}
    <3>1. \A k \in CodeLengths : k < l => starts[k] = {}
      BY <1>2 DEF Create
    <3>. QED  BY <1>0, <2>1, <3>1 DEF Tiers, Canonical, FreeIds
  <2>5. Pool!PoolAllocate(l, id)
    BY <2>1, <2>2, <2>3, <2>4 DEF Pool!PoolAllocate
  <2>. QED  BY <1>0, <2>5 DEF Pool!PoolNext
<1>3. CASE CreateExhausted
  <2>1. \A l \in CodeLengths : free[l] = {}
    BY <1>0, <1>3 DEF CreateExhausted, Ready, Tiers, Canonical, FreeIds
  <2>2. Pool!PoolRefuse
    BY <1>3, <2>1 DEF CreateExhausted, Pool!PoolRefuse
  <2>. QED  BY <2>2 DEF Pool!PoolNext
<1>4. ASSUME NEW l \in CodeLengths, NEW id \in Ids(l), NEW useIndex \in IndexModes,
             FreeAgain(l, id, useIndex)
      PROVE  Pool!PoolNext
  <2>1. /\ UNCHANGED <<initialized, ends>> /\ initialized
        /\ id \in FreeIds(ends[l])
        /\ reply' = Pool!AlreadyFree(l, id)
    BY <1>4, FreeAgainEffect DEF FreeAgain, IsFree
  <2>2. id \in free[l] /\ free' = [free EXCEPT ![l] = @ \cup {id}]
    BY <2>1
  <2>3. Pool!PoolFree(l, id)
    BY <2>1, <2>2 DEF Pool!PoolFree
  <2>. QED  BY <1>0, <2>3 DEF Pool!PoolNext
<1>5. ASSUME NEW l \in CodeLengths, NEW id \in Ids(l), NEW useIndex \in IndexModes,
             Free(l, id, useIndex)
      PROVE  Pool!PoolNext
  <2>1. /\ FreeIds(ends'[l]) = FreeIds(ends[l]) \cup {id}
        /\ \A k \in CodeLengths : k # l => ends'[k] = ends[k]
        /\ id \notin FreeIds(ends[l])
        /\ reply' = Pool!Freed(l, id)
        /\ initialized /\ initialized'
    BY <1>5, FreeEffect DEF Free, IsFree
  <2>2. id \notin free[l] /\ free' = [free EXCEPT ![l] = @ \cup {id}]
    BY <2>1
  <2>3. Pool!PoolFree(l, id)
    BY <2>1, <2>2 DEF Pool!PoolFree
  <2>. QED  BY <1>0, <2>3 DEF Pool!PoolNext
<1>6. ASSUME NEW l \in CodeLengths, NEW id \in Ids(l), ReclaimEntry(l, id)
      PROVE  [Pool!PoolNext]_(Pool!poolVars)
  <2>1. initialized /\ initialized' /\ reply' = reply
    BY <1>6, ReclaimEffect
  <2>2. CASE UNCHANGED ends
    BY <2>1, <2>2 DEF Pool!poolVars
  <2>3. CASE /\ FreeIds(ends'[l]) = FreeIds(ends[l]) \cup {id}
             /\ \A k \in CodeLengths : k # l => ends'[k] = ends[k]
    <3>1. free' = [free EXCEPT ![l] = @ \cup {id}]
      BY <2>1, <2>3
    <3>2. Pool!PoolReclaim(l, id)
      BY <2>1, <3>1 DEF Pool!PoolReclaim
    <3>. QED  BY <1>0, <3>2 DEF Pool!PoolNext
  <2>. QED  BY <1>6, <2>2, <2>3, ReclaimEffect
<1>7. ASSUME UNCHANGED <<initialized, ends, reply>>
      PROVE  UNCHANGED Pool!poolVars
  BY <1>7 DEF Pool!poolVars
<1>8. ASSUME NEW now \in Nows, NEW useIndex \in IndexModes, NEW version \in 1 .. MaxVersion,
             NEW m \in Members, Write(m, version, now, useIndex)
      PROVE  UNCHANGED Pool!poolVars
  BY <1>7, <1>8 DEF Write
<1>9. ASSUME NEW now \in Nows, ReclaimStart(now)
      PROVE  UNCHANGED Pool!poolVars
  BY <1>7, <1>9 DEF ReclaimStart
<1>10. CASE Tick
  BY <1>7, <1>10 DEF Tick
<1>11. CASE UNCHANGED vars
  BY <1>7, <1>11 DEF vars
<1>. QED
  BY <1>1, <1>2, <1>3, <1>4, <1>5, <1>6, <1>8, <1>9, <1>10, <1>11 DEF Next

LEMMA InitSimulation == Init => Pool!PoolInit
  BY DEF Init, Pool!PoolInit, Pool!PoolIds, Ids

(* The scripts implement the pool of free codes. *)
THEOREM Implements == Spec => ImplementsPool
<1>. QED
  BY InvInit, InvNext, InitSimulation, StepSimulation, PTL DEF Spec, ImplementsPool, Pool!PoolSpec
=============================================================================
