----------------------------- MODULE FreeIdPool -----------------------------
(***************************************************************************)
(* What an allocator of room codes promises, whatever it is built from.    *)
(* Every tier of codes (one per code length) has the ids 0..Capacity-1,    *)
(* each of which is free or given out.  A request gets the lowest free id  *)
(* of the shortest length that has one.  The in-process allocator of       *)
(* src/src/allocator.rs and the Lua scripts of src/redis are shown to      *)
(* implement this module.                                                  *)
(***************************************************************************)
EXTENDS Naturals

CONSTANTS
    CodeLengths,  \* the code lengths, natural numbers, each one a tier
    Capacity      \* Capacity[l] > 0 is the number of codes of length l

VARIABLES
    free,  \* free[l] is the set of the free ids of tier l
    reply  \* the answer to the last request

poolVars == <<free, reply>>

PoolIds(l) == 0 .. (Capacity[l] - 1)

NoReply         == [outcome |-> "none", code_len |-> 0, local_id |-> 0]
Allocated(l, i) == [outcome |-> "allocated", code_len |-> l, local_id |-> i]
Refused         == [outcome |-> "exhausted", code_len |-> 0, local_id |-> 0]
Freed(l, i)     == [outcome |-> "freed", code_len |-> l, local_id |-> i]
AlreadyFree(l, i) == [outcome |-> "already_free", code_len |-> l, local_id |-> i]
Rejected        == [outcome |-> "invalid", code_len |-> 0, local_id |-> 0]

PoolInit ==
    /\ free = [l \in CodeLengths |-> PoolIds(l)]
    /\ reply = NoReply

(* The lowest free id of the shortest length that has a free id. *)
PoolAllocate(l, i) ==
    /\ i \in free[l]
    /\ \A other \in free[l] : i <= other
    /\ \A shorter \in CodeLengths : shorter < l => free[shorter] = {}
    /\ free' = [free EXCEPT ![l] = @ \ {i}]
    /\ reply' = Allocated(l, i)

(* A request is refused only when no id of any length is free. *)
PoolRefuse ==
    /\ \A l \in CodeLengths : free[l] = {}
    /\ reply' = Refused
    /\ UNCHANGED free

(* Giving an id back makes it free and nothing else; the answer says       *)
(* whether it was free already.                                            *)
PoolFree(l, i) ==
    /\ free' = [free EXCEPT ![l] = @ \cup {i}]
    /\ reply' = IF i \in free[l] THEN AlreadyFree(l, i) ELSE Freed(l, i)

(* An id outside its tier is refused. *)
PoolReject ==
    /\ reply' = Rejected
    /\ UNCHANGED free

(* Ids also come back without a request: their clipboard has expired. *)
PoolReclaim(l, i) ==
    /\ free' = [free EXCEPT ![l] = @ \cup {i}]
    /\ UNCHANGED reply

PoolNext ==
    \/ \E l \in CodeLengths : \E i \in PoolIds(l) :
           \/ PoolAllocate(l, i)
           \/ PoolFree(l, i)
           \/ PoolReclaim(l, i)
    \/ PoolRefuse
    \/ PoolReject

PoolSpec == PoolInit /\ [][PoolNext]_poolVars
=============================================================================
