----------------------------- MODULE RedisClips -----------------------------
(***************************************************************************)
(* The clipboards and the allocator of codes as the Lua scripts of         *)
(* src/redis keep them in Redis, shared by any number of servers.  Redis   *)
(* runs one script at a time, so a script is an action; the loop of        *)
(* clip_reclaim_expired.lua is one action per entry, and while it runs     *)
(* nothing else does and Redis' own clock stands still.                    *)
(*                                                                         *)
(* Two clocks matter.  clock is Redis' own: a clipboard key disappears     *)
(* when it passes the key's deadline.  The scripts are given now_ms by the *)
(* server that calls them, which is at most Skew away from clock.          *)
(***************************************************************************)
EXTENDS Intervals, FiniteSets

CONSTANTS
    CodeLengths,  \* the code lengths, each one a tier
    Capacity,     \* Capacity[l] is the number of codes of length l
    TTL,          \* time a clipboard lives after it was last written
    Skew,         \* how far a server's clock is from Redis' clock
    IndexModes,   \* the values of use_expiry_index among the servers
    BatchLimit,   \* entries one run of the reclaim script looks at
    MaxVersion,   \* bound: content versions go from 1 to MaxVersion
    LastTime      \* bound: clocks go from 0 to LastTime

ASSUME RedisAssumption ==
    /\ CodeLengths \subseteq Nat
    /\ Capacity \in [CodeLengths -> Nat \ {0}]
    /\ TTL \in Nat \ {0}
    /\ Skew \in Nat
    /\ IndexModes \subseteq BOOLEAN
    /\ BatchLimit \in Nat \ {0}
    /\ MaxVersion \in Nat
    /\ LastTime \in Nat

VARIABLES
    initialized,  \* the key alloc:init:v1 exists
    starts,       \* starts[l] is the zset alloc:l:starts, scored by member
    ends,         \* ends[l] is the hash alloc:l:ends
    clips,        \* the keys clip:l:id, from members <<l, id>> to records
    expiring,     \* the zset clip:expiring, from members to scores
    clock,        \* Redis' clock
    batch,        \* members the running reclaim script has yet to look at
    reply         \* the answer to the last create or free

vars == <<initialized, starts, ends, clips, expiring, clock, batch, reply>>

Ids(l) == 0 .. (Capacity[l] - 1)
Members == UNION {{l} \X Ids(l) : l \in CodeLengths}
Times == 0 .. LastTime

Pool == INSTANCE FreeIdPool WITH
            free <- [l \in CodeLengths |-> IF initialized THEN FreeIds(ends[l]) ELSE Ids(l)]

(* The values of now_ms a server may send. *)
Nows == {now \in Times : clock <= now + Skew /\ now <= clock + Skew}

(* Bound: clipboards written at clock with now_ms expire within Times. *)
WithinHorizon(now) == clock + TTL < LastTime /\ now + TTL <= LastTime

(* No script runs while the reclaim script does, and none before a server  *)
(* has connected, which runs alloc_init.lua.                               *)
Ready == initialized /\ batch = {}

(* DEL, HDEL and ZREM; Insert is SET, HSET and ZADD. *)
Drop(map, members) == [m \in DOMAIN map \ members |-> map[m]]

-----------------------------------------------------------------------------
Empty == [m \in {} |-> 0]

Init ==
    /\ initialized = FALSE
    /\ starts = [l \in CodeLengths |-> {}]
    /\ ends = [l \in CodeLengths |-> Empty]
    /\ clips = Empty
    /\ expiring = Empty
    /\ clock = 0
    /\ batch = {}
    /\ reply = Pool!NoReply

(* RedisRoomStore::connect_with_options runs alloc_init.lua: every server  *)
(* that starts does, only the first one seeds the tiers.                   *)
ConnectTooFar ==
    /\ batch = {} /\ ~initialized
    /\ initialized' = TRUE
    /\ starts' = [l \in CodeLengths |-> {0}]
    /\ ends' = [l \in CodeLengths |-> Insert(Empty, 0, Capacity[l])]
    /\ UNCHANGED <<clips, expiring, clock, batch, reply>>

Connect ==
    /\ batch = {}
    /\ IF initialized
       THEN UNCHANGED <<initialized, starts, ends>>
       ELSE /\ initialized' = TRUE
            /\ starts' = [l \in CodeLengths |-> {0}]
            /\ ends' = [l \in CodeLengths |-> Insert(Empty, 0, Capacity[l] - 1)]
    /\ UNCHANGED <<clips, expiring, clock, batch, reply>>

(* The lowest start of a tier: ZRANGE starts 0 0. *)
Smallest(l) == {s \in starts[l] : \A t \in starts[l] : s <= t}

(* ZADD clip:expiring, by a server that keeps the index. *)
IndexForgets(member, score, useIndex) == UNCHANGED expiring

Index(member, score, useIndex) ==
    expiring' = IF useIndex THEN Insert(expiring, member, score) ELSE expiring

Unindex(member, useIndex) ==
    expiring' = IF useIndex THEN Drop(expiring, {member}) ELSE expiring

Record(version, now) ==
    [version |-> version, expires_at_ms |-> now + TTL, deadline |-> clock + TTL]

(* clip_create.lua gives out the first id of the first interval of the     *)
(* shortest tier that has one, and sets the clipboard.                     *)
Create(l, version, now, useIndex) ==
    /\ Ready
    /\ WithinHorizon(now)
    /\ \A shorter \in CodeLengths : shorter < l => starts[shorter] = {}
    /\ \E id \in Smallest(l) :
         LET end == ends[l][id]
             rest == IF id < end THEN {id + 1} ELSE {}
         IN  /\ starts' = [starts EXCEPT ![l] = (@ \ {id}) \cup rest]
             /\ ends' = [ends EXCEPT ![l] =
                           IF id < end THEN Insert(Drop(@, {id}), id + 1, end)
                                       ELSE Drop(@, {id})]
             /\ clips' = Insert(clips, <<l, id>>, Record(version, now))
             /\ Index(<<l, id>>, now + TTL, useIndex)
             /\ reply' = Pool!Allocated(l, id)
    /\ UNCHANGED <<initialized, clock, batch>>

CreateExhausted ==
    /\ Ready
    /\ \A l \in CodeLengths : starts[l] = {}
    /\ reply' = Pool!Refused
    /\ UNCHANGED <<initialized, starts, ends, clips, expiring, clock, batch>>

(* clip_write.lua replaces a live clipboard by its next version and starts *)
(* its time to live anew.  Without a live clipboard, or with any other     *)
(* version, it changes nothing.                                            *)
WriteForgetsIndex(member, version, now, useIndex) ==
    /\ Ready /\ WithinHorizon(now) /\ member \in DOMAIN clips
    /\ version = clips[member].version + 1
    /\ clips' = Insert(clips, member, Record(version, now))
    /\ UNCHANGED <<initialized, starts, ends, expiring, clock, batch, reply>>

Write(member, version, now, useIndex) ==
    /\ Ready
    /\ WithinHorizon(now)
    /\ member \in DOMAIN clips
    /\ version = clips[member].version + 1
    /\ clips' = Insert(clips, member, Record(version, now))
    /\ Index(member, now + TTL, useIndex)
    /\ UNCHANGED <<initialized, starts, ends, clock, batch, reply>>

(* interval_contains(id), which clip_free.lua and clip_reclaim_expired.lua *)
(* both define: the last interval that starts no later than id holds it.   *)
LeftStartTooFar(l, id) == {s \in starts[l] : s < id /\ \A t \in starts[l] : t < id => t <= s}

LeftStart(l, id) == {s \in starts[l] : s <= id /\ \A t \in starts[l] : t <= id => t <= s}

IntervalContains(l, id) == \E s \in LeftStart(l, id) : id <= ends[l][s]

(* merge_free_interval(id), the end of clip_free.lua: the new interval     *)
(* starts with the one that ends just before id and ends with the one that *)
(* starts just after it, where there are such intervals.                   *)
MergeFreeInterval(l, id) ==
    LET left == {s \in LeftStart(l, id) : ends[l][s] + 1 = id}
        start == IF left = {} THEN id ELSE CHOOSE s \in left : TRUE
        end == IF id + 1 \in starts[l] THEN ends[l][id + 1] ELSE id
    IN  /\ starts' = [starts EXCEPT ![l] = (@ \ {id + 1}) \cup {start}]
        /\ ends' = [ends EXCEPT ![l] = Insert(Drop(@, {id + 1}), start, end)]

(* clip_free.lua. *)
FreeAgain(l, id, useIndex) ==
    /\ Ready
    /\ IntervalContains(l, id)
    /\ clips' = Drop(clips, {<<l, id>>})
    /\ Unindex(<<l, id>>, useIndex)
    /\ reply' = Pool!AlreadyFree(l, id)
    /\ UNCHANGED <<initialized, starts, ends, clock, batch>>

Free(l, id, useIndex) ==
    /\ Ready
    /\ ~IntervalContains(l, id)
    /\ clips' = Drop(clips, {<<l, id>>})
    /\ Unindex(<<l, id>>, useIndex)
    /\ MergeFreeInterval(l, id)
    /\ reply' = Pool!Freed(l, id)
    /\ UNCHANGED <<initialized, clock, batch>>

(* clip_reclaim_expired.lua selects the entries of the index with the      *)
(* lowest scores up to now_ms, BatchLimit at most; which of several with   *)
(* the same score does not matter.                                         *)
Due(now) == {m \in DOMAIN expiring : expiring[m] <= now}

ReclaimStart(now) ==
    /\ Ready
    /\ batch' \in (SUBSET Due(now)) \ {{}}
    /\ \A m \in batch', other \in Due(now) \ batch' : expiring[m] <= expiring[other]
    /\ LET selected == Cardinality(batch')
       IN  selected <= BatchLimit /\ (selected < BatchLimit => batch' = Due(now))
    /\ UNCHANGED <<initialized, starts, ends, clips, expiring, clock, reply>>

(* One turn of its loop.  The entry of a clipboard that Redis still has is *)
(* left for later; otherwise the entry goes, and the code becomes free     *)
(* unless it is free already.                                              *)
ReclaimEntryForgetsLive(l, id) ==
    LET member == <<l, id>>
    IN  /\ member \in batch
        /\ batch' = batch \ {member}
        /\ expiring' = Drop(expiring, {member})
        /\ IF member \in DOMAIN clips \/ IntervalContains(l, id)
           THEN UNCHANGED <<starts, ends>>
           ELSE MergeFreeInterval(l, id)
        /\ UNCHANGED <<initialized, clips, clock, reply>>

ReclaimEntrySkipsExists(l, id) ==
    /\ <<l, id>> \in batch
    /\ batch' = batch \ {<<l, id>>}
    /\ expiring' = Drop(expiring, {<<l, id>>})
    /\ IF IntervalContains(l, id) THEN UNCHANGED <<starts, ends>> ELSE MergeFreeInterval(l, id)
    /\ UNCHANGED <<initialized, clips, clock, reply>>

ReclaimEntrySkipsContains(l, id) ==
    /\ <<l, id>> \in batch
    /\ batch' = batch \ {<<l, id>>}
    /\ IF <<l, id>> \in DOMAIN clips
       THEN UNCHANGED <<starts, ends, expiring>>
       ELSE expiring' = Drop(expiring, {<<l, id>>}) /\ MergeFreeInterval(l, id)
    /\ UNCHANGED <<initialized, clips, clock, reply>>

ReclaimEntry(l, id) ==
    LET member == <<l, id>>
    IN  /\ member \in batch
        /\ batch' = batch \ {member}
        /\ IF member \in DOMAIN clips
           THEN UNCHANGED <<starts, ends, expiring>>
           ELSE /\ expiring' = Drop(expiring, {member})
                /\ IF IntervalContains(l, id)
                   THEN UNCHANGED <<starts, ends>>
                   ELSE MergeFreeInterval(l, id)
        /\ UNCHANGED <<initialized, clips, clock, reply>>

(* Redis' clock moves on, and keys whose deadline it passes are gone.  It  *)
(* stands still while a script runs.                                       *)
Tick ==
    /\ batch = {}
    /\ clock < LastTime
    /\ clock' = clock + 1
    /\ clips' = Drop(clips, {m \in DOMAIN clips : clips[m].deadline < clock'})
    /\ UNCHANGED <<initialized, starts, ends, expiring, batch, reply>>

Next ==
    \/ Connect
    \/ \E now \in Nows, useIndex \in IndexModes, version \in 1 .. MaxVersion :
         \/ \E l \in CodeLengths : Create(l, version, now, useIndex)
         \/ \E member \in Members : Write(member, version, now, useIndex)
    \/ CreateExhausted
    \/ \E l \in CodeLengths : \E id \in Ids(l) :
         \/ \E useIndex \in IndexModes : FreeAgain(l, id, useIndex) \/ Free(l, id, useIndex)
         \/ ReclaimEntry(l, id)
    \/ \E now \in Nows : ReclaimStart(now)
    \/ Tick

Spec == Init /\ [][Next]_vars

(* The maintenance loop of redis_with_reclaimer() runs the reclaim script  *)
(* again and again, and a script that was started finishes.  Time passes   *)
(* whatever scripts run: Tick waits for the end of a running script only   *)
(* because the model runs a script in several steps.                       *)
Reclaim ==
    \/ \E now \in Nows : ReclaimStart(now)
    \/ \E l \in CodeLengths : \E id \in Ids(l) : ReclaimEntry(l, id)

Fairness == SF_vars(Tick) /\ WF_vars(Reclaim)

FairSpec == Spec /\ Fairness

-----------------------------------------------------------------------------
ClipType == [version : 1 .. MaxVersion, expires_at_ms : Nat, deadline : Nat]

RepliesAbout(l, id) == {Pool!Allocated(l, id), Pool!Freed(l, id), Pool!AlreadyFree(l, id)}

Replies ==
    {Pool!NoReply, Pool!Refused}
        \cup UNION {UNION {RepliesAbout(l, id) : id \in Ids(l)} : l \in CodeLengths}

(* The keys hold what their names say; a server's reclaim script works on  *)
(* members the index has.                                                  *)
TypeOK ==
    /\ initialized \in BOOLEAN
    /\ starts \in [CodeLengths -> SUBSET Nat]
    /\ ends = [l \in CodeLengths |-> ends[l]]
    /\ \A l \in CodeLengths : ends[l] \in [DOMAIN ends[l] -> Nat]
    /\ DOMAIN clips \subseteq Members
    /\ clips \in [DOMAIN clips -> ClipType]
    /\ DOMAIN expiring \subseteq Members
    /\ expiring \in [DOMAIN expiring -> Nat]
    /\ clock \in Nat
    /\ batch \subseteq DOMAIN expiring
    /\ reply \in Replies

(* The two keys of a tier always describe the same intervals, and these    *)
(* satisfy the invariants docs/redis_allocator.md lists, in whatever order *)
(* the scripts of several servers run.                                     *)
Canonical ==
    \A l \in CodeLengths :
        /\ DOMAIN ends[l] = starts[l]
        /\ CanonicalTier(ends[l], Capacity[l])

IsFree(member) == member[2] \in FreeIds(ends[member[1]])

(* The code of a clipboard that Redis still has is never handed out again: *)
(* neither a late or early reclaim (clocks apart, a stale index entry) nor *)
(* a free makes it available while the clipboard is there.                 *)
NoLiveFree == \A member \in DOMAIN clips : ~IsFree(member)

(* When every server keeps the expiry index, the index has exactly the     *)
(* codes that are given out: no code is lost when its clipboard expires,   *)
(* and no free code is reclaimed.                                          *)
IndexExact ==
    initialized => \A member \in Members : member \in DOMAIN expiring <=> ~IsFree(member)

(* When every server keeps the expiry index, its score for a clipboard is  *)
(* the time the record itself says it expires: a refresh is never missed.  *)
IndexMatchesRecord ==
    \A member \in DOMAIN clips :
        member \in DOMAIN expiring /\ expiring[member] = clips[member].expires_at_ms

(* Create, free and reclaim together implement the pool of free codes: a   *)
(* create gets the lowest free code of the shortest length, answers are    *)
(* true, and no other script changes which codes are free.                 *)
ImplementsPool == Pool!PoolSpec

(* A code whose clipboard has expired becomes available again. *)
ExpiredReclaimed ==
    \A member \in Members :
        initialized /\ member \notin DOMAIN clips ~> IsFree(member) \/ member \in DOMAIN clips
=============================================================================
