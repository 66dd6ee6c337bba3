----------------------------- MODULE MemoryRooms -----------------------------
(***************************************************************************)
(* MemoryRoomStore of src/src/store.rs: the map of rooms and the allocator *)
(* of codes, each behind a lock of its own.  An operation takes one lock   *)
(* at a time and awaits in between, so other operations run there, and a   *)
(* request whose client disconnects is dropped there.  An action is what   *)
(* an operation does under one lock.                                       *)
(*                                                                         *)
(* The allocator is the pool of free codes that TieredAllocator is shown   *)
(* to implement, of one tier.                                              *)
(***************************************************************************)
EXTENDS Naturals

CONSTANTS
    Codes,     \* the codes of the tier, numbers
    Tasks,     \* bound: as many operations run at a time
    TTL,       \* time a room lives after it was last written
    MaxVersion, \* the largest content version, u64::MAX
    LastTime   \* bound: instants go from 0 to LastTime

ASSUME MemoryAssumption ==
    /\ Codes \subseteq Nat
    /\ TTL \in Nat \ {0}
    /\ MaxVersion \in Nat
    /\ LastTime \in Nat

VARIABLES
    free,   \* the allocator's free codes
    rooms,  \* the map of rooms, from codes
    clock,  \* Instant::now()
    task,   \* the operation each task is at, and what it keeps meanwhile
    lost,   \* codes that dropped operations had taken and not given back
    lives   \* lives[code] is the number of rooms the code was given to so far

vars == <<free, rooms, clock, task, lost, lives>>

Idle == [at |-> "idle"]
Room(life, version, now) == [life |-> life, version |-> version, expires_at |-> now + TTL]
Expired(code, now) == rooms[code].expires_at <= now
(* content_version + 1; a build that checks for overflow panics instead of *)
(* 0, which refuses the update as well.                                    *)
NextVersion(version) == IF version = MaxVersion THEN 0 ELSE version + 1

Become(t, state) == task' = [task EXCEPT ![t] = state]

-----------------------------------------------------------------------------
Init ==
    /\ free = Codes
    /\ rooms = [code \in {} |-> 0]
    /\ clock = 0
    /\ task = [t \in Tasks |-> Idle]
    /\ lost = {}
    /\ lives = [code \in Codes |-> 0]

(* create: the allocator's lock, then Instant::now(), then the rooms'.     *)
Allocate(t) ==
    /\ task[t] = Idle
    /\ \E code \in free :
         /\ \A other \in free : code <= other
         /\ free' = free \ {code}
         /\ Become(t, [at |-> "insert", code |-> code, now |-> clock])
    /\ UNCHANGED <<rooms, clock, lost, lives>>

InsertUnversioned(t) ==
    /\ task[t].at = "insert"
    /\ rooms' = [c \in DOMAIN rooms \cup {task[t].code} |->
                   IF c = task[t].code THEN Room(1, 0, task[t].now) ELSE rooms[c]]
    /\ Become(t, Idle)
    /\ UNCHANGED <<free, clock, lost, lives>>

(* The client chooses the first version; handlers refuse version 0.        *)
InsertRoom(t) ==
    /\ task[t].at = "insert"
    /\ \E first \in 1 .. MaxVersion : LET code == task[t].code
       IN  /\ lives' = [lives EXCEPT ![code] = @ + 1]
           /\ rooms' = [c \in DOMAIN rooms \cup {code} |->
                          IF c = code THEN Room(lives'[code], first, task[t].now) ELSE rooms[c]]
    /\ Become(t, Idle)
    /\ UNCHANGED <<free, clock, lost>>

(* get, which attempts no version, and update take Instant::now() before   *)
(* they wait for any lock.                                                 *)
Begin(t, code, attempt) ==
    /\ task[t] = Idle
    /\ Become(t, [at |-> "look", code |-> code, now |-> clock, version |-> attempt])
    /\ UNCHANGED <<free, rooms, clock, lost, lives>>

(* The read lock: a room that has expired at that instant is evicted, and  *)
(* update (whose version is not 0) goes on to write one that has not.      *)
LookWritesZero(t) ==
    /\ task[t].at = "look"
    /\ LET code == task[t].code
       IN  IF code \notin DOMAIN rooms THEN Become(t, Idle)
           ELSE Become(t, [task[t] EXCEPT !.at = IF Expired(code, task[t].now) THEN "evict" ELSE "write"])
    /\ UNCHANGED <<free, rooms, clock, lost, lives>>

Look(t) ==
    /\ task[t].at = "look"
    /\ LET code == task[t].code
       IN  IF code \notin DOMAIN rooms THEN Become(t, Idle)
           ELSE IF Expired(code, task[t].now) THEN Become(t, [task[t] EXCEPT !.at = "evict"])
           ELSE IF task[t].version = 0 THEN Become(t, Idle)
           ELSE Become(t, [task[t] EXCEPT !.at = "write"])
    /\ UNCHANGED <<free, rooms, clock, lost, lives>>

Saved(update, room) ==
    [at |-> "saved", code |-> update.code, version |-> update.version, life |-> room.life]

(* update under the write lock; the room may be gone or written meanwhile. *)
WriteUnchecked(t) ==
    /\ task[t].at = "write" /\ task[t].code \in DOMAIN rooms
    /\ LET room == rooms[task[t].code]
       IN  /\ rooms' = [rooms EXCEPT ![task[t].code] = Room(room.life, task[t].version, task[t].now)]
           /\ Become(t, Saved(task[t], room))
    /\ UNCHANGED <<free, clock, lost, lives>>

Write(t) ==
    /\ task[t].at = "write"
    /\ LET code == task[t].code
       IN  IF code \in DOMAIN rooms /\ task[t].version = NextVersion(rooms[code].version)
           THEN /\ rooms' = [rooms EXCEPT ![code] =
                                Room(@.life, task[t].version, task[t].now)]
                /\ Become(t, Saved(task[t], rooms[code]))
           ELSE UNCHANGED rooms /\ Become(t, Idle)
    /\ UNCHANGED <<free, clock, lost, lives>>

(* remove_if_expired: looks again under the write lock, at the instant the *)
(* operation began, then gives the code back under the allocator's lock.   *)
RemoveUnchecked(t) ==
    /\ task[t].at = "evict"
    /\ rooms' = [c \in DOMAIN rooms \ {task[t].code} |-> rooms[c]]
    /\ Become(t, [task[t] EXCEPT !.at = "release"])
    /\ UNCHANGED <<free, clock, lost, lives>>

RemoveAsOfNow(t) ==
    /\ task[t].at = "evict"
    /\ IF task[t].code \in DOMAIN rooms
       THEN rooms' = [c \in DOMAIN rooms \ {task[t].code} |-> rooms[c]] /\ Become(t, [task[t] EXCEPT !.at = "release"])
       ELSE UNCHANGED rooms /\ Become(t, Idle)
    /\ UNCHANGED <<free, clock, lost, lives>>

Remove(t) ==
    /\ task[t].at = "evict"
    /\ LET code == task[t].code
       IN  IF code \in DOMAIN rooms /\ Expired(code, task[t].now)
           THEN /\ rooms' = [c \in DOMAIN rooms \ {code} |-> rooms[c]]
                /\ Become(t, [task[t] EXCEPT !.at = "release"])
           ELSE UNCHANGED rooms /\ Become(t, Idle)
    /\ UNCHANGED <<free, clock, lost, lives>>

Release(t) ==
    /\ task[t].at = "release"
    /\ free' = free \cup {task[t].code}
    /\ Become(t, Idle)
    /\ UNCHANGED <<rooms, clock, lost, lives>>

(* update() has returned the record it wrote. *)
Return(t) ==
    /\ task[t].at = "saved"
    /\ Become(t, Idle)
    /\ UNCHANGED <<free, rooms, clock, lost, lives>>

Holds(t, code) == task[t].at \in {"insert", "release"} /\ task[t].code = code

(* The operation is dropped where it awaits a lock. *)
Cancel(t) ==
    /\ task[t].at \in {"insert", "look", "write", "evict", "release"}
    /\ lost' = lost \cup {code \in Codes : Holds(t, code)}
    /\ Become(t, Idle)
    /\ UNCHANGED <<free, rooms, clock, lives>>

Tick ==
    /\ clock < LastTime
    /\ clock' = clock + 1
    /\ UNCHANGED <<free, rooms, task, lost, lives>>

Next ==
    \/ \E t \in Tasks :
         \/ Allocate(t) \/ InsertRoom(t)
         \/ \E code \in Codes, attempt \in 0 .. MaxVersion : Begin(t, code, attempt)
         \/ Look(t) \/ Write(t) \/ Remove(t) \/ Release(t) \/ Return(t) \/ Cancel(t)
    \/ Tick

Spec == Init /\ [][Next]_vars

-----------------------------------------------------------------------------
Instants == 0 .. LastTime

States ==
    {Idle}
        \cup [at : {"insert"}, code : Codes, now : Instants]
        \cup [at : {"look", "evict", "release"}, code : Codes, now : Instants,
              version : 0 .. MaxVersion]
        \cup [at : {"write"}, code : Codes, now : Instants, version : 1 .. MaxVersion]
        \cup [at : {"saved"}, code : Codes, version : 1 .. MaxVersion, life : Nat]

(* What the locks guard and what the operations keep. *)
TypeOK ==
    /\ free \subseteq Codes
    /\ DOMAIN rooms \subseteq Codes
    /\ rooms \in [DOMAIN rooms -> [life : Nat, version : 1 .. MaxVersion, expires_at : Nat]]
    /\ clock \in Instants
    /\ task \in [Tasks -> States]
    /\ lost \subseteq Codes
    /\ lives \in [Codes -> Nat]

(* However operations interleave between their locks, a code is in exactly *)
(* one place: free, given to a room, held by one operation that is about   *)
(* to insert or to release it, or lost with an operation that was dropped  *)
(* there.  So no code is given out twice or freed twice, and none is lost  *)
(* in another way.                                                         *)
CodesConserved ==
    \A code \in Codes :
        LET holders == {t \in Tasks : Holds(t, code)}
        IN  /\ \A t, u \in holders : t = u
            /\ holders # {} => code \notin free \cup DOMAIN rooms \cup lost
            /\ code \in free => code \notin DOMAIN rooms \cup lost
            /\ code \in DOMAIN rooms => code \notin lost
            /\ holders = {} => code \in free \cup DOMAIN rooms \cup lost

(* Updates of one room that overlap are never both answered that they      *)
(* saved the same version of it: the version is checked under the lock     *)
(* that the room is written under.                                         *)
OneSavePerVersion ==
    LET saved == {t \in Tasks : task[t].at = "saved"}
    IN  \A t, u \in saved : task[t] = task[u] => t = u

(* The version of a room only grows while the room lives, also when its    *)
(* first version is the largest there is: what a page has seen is never    *)
(* followed by a text with that version or an earlier one.                 *)
VersionsGrow ==
    [][\A code \in DOMAIN rooms \cap DOMAIN rooms' :
          rooms[code] = rooms'[code] \/ rooms[code].version < rooms'[code].version]_vars

(* A room goes only when its time is over: an operation that saw it        *)
(* expired does not remove it once another one has written it.             *)
OnlyExpiredGo ==
    [][\A code \in DOMAIN rooms \ DOMAIN rooms' : Expired(code, clock)]_vars

(* What callers of the store see.                                          *)
RoomVersions == [code \in Codes |-> IF code \in DOMAIN rooms THEN rooms[code].version ELSE 0]
SavesTaken ==
    [t \in Tasks |->
       IF task[t].at = "saved"
       THEN [code |-> task[t].code, life |-> task[t].life, version |-> task[t].version]
       ELSE [version |-> 0]]
Abstract == INSTANCE VersionedRooms WITH Callers <- Tasks, version <- RoomVersions, taken <- SavesTaken

(* Behind its locks, and with operations that are dropped between them,    *)
(* the store is one that creates, saves and expires in single steps: every *)
(* save that is answered took the next version of the room that the code   *)
(* had at that moment, and no code gets a room while it has one.           *)
ImplementsRooms == Abstract!Spec
=============================================================================
