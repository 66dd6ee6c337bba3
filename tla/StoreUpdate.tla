----------------------------- MODULE StoreUpdate -----------------------------
(***************************************************************************)
(* RedisRoomStore::update of src/src/store.rs on one room code: it runs    *)
(* clip_write.lua and then, in a second request to Redis, reads the record *)
(* again and compares it with what the script answered.  In between other  *)
(* servers' updates run, the clipboard may expire and the code may be      *)
(* given to another clipboard.                                             *)
(*                                                                         *)
(* Record, key expiry and clocks are those of RedisClips.  A text is       *)
(* identified by the request that wrote it, a clipboard by its life.       *)
(***************************************************************************)
EXTENDS Naturals

CONSTANTS
    Requests,    \* calls of update(), by any server
    Creator,     \* the author of the texts that clipboards are created with
    TTL,         \* time a clipboard lives after it was last written
    Skew,        \* how far a server's clock is from Redis' clock
    MaxVersion,  \* bound: versions go from 1 to MaxVersion
    LastTime     \* bound: clocks go from 0 to LastTime

ASSUME UpdateAssumption ==
    /\ Creator \notin Requests
    /\ TTL \in Nat \ {0}
    /\ Skew \in Nat
    /\ MaxVersion \in Nat \ {0}
    /\ LastTime \in Nat

(* Two servers' clocks differ by no more than a clipboard lives. *)
ClocksAgree == 2 * Skew <= TTL

VARIABLES
    clock,   \* Redis' clock
    life,    \* number of clipboards that had the code so far
    clip,    \* the record under the key of the code, or Absent
    request  \* how far each call is, and the record its script wrote

vars == <<clock, life, clip, request>>

Absent == [version |-> 0]
Nows == {now \in 0 .. LastTime : clock <= now + Skew /\ now <= clock + Skew}
Record(n, author, version, now) ==
    [life |-> n, author |-> author, version |-> version,
     expires_at_ms |-> now + TTL, deadline |-> clock + TTL]
Become(r, state) == request' = [request EXCEPT ![r] = state]

-----------------------------------------------------------------------------
Init ==
    /\ clock = 0
    /\ life = 0
    /\ clip = Absent
    /\ request = [r \in Requests |-> [at |-> "not sent"]]

CreateUnversioned(first, now) ==
    /\ clip = Absent
    /\ life' = life + 1
    /\ clip' = Record(life + 1, Creator, 0, now)
    /\ UNCHANGED <<clock, request>>

(* clip_create.lua gives the code to a new clipboard, which starts with    *)
(* the version its creator chose: the one before has expired and has been  *)
(* reclaimed.                                                              *)
Create(first, now) ==
    /\ clip = Absent
    /\ life' = life + 1
    /\ clip' = Record(life + 1, Creator, first, now)
    /\ UNCHANGED <<clock, request>>

(* clip_write.lua *)
Write(r, version, now) ==
    /\ request[r].at = "not sent"
    /\ IF clip # Absent /\ version = clip.version + 1
       THEN /\ clip' = Record(clip.life, r, version, now)
            /\ Become(r, [at |-> "read again", wrote |-> clip'])
       ELSE /\ UNCHANGED clip
            /\ Become(r, [at |-> "refused"])
    /\ UNCHANGED <<clock, life>>

(* GET, and the comparison with the script's answer.                       *)
ReadAgainComparesVersion(r) ==
    /\ request[r].at = "read again"
    /\ IF clip.version = request[r].wrote.version
       THEN Become(r, [at |-> "saved", wrote |-> request[r].wrote, answer |-> clip])
       ELSE Become(r, [at |-> "error", wrote |-> request[r].wrote])
    /\ UNCHANGED <<clock, life, clip>>

ReadAgainComparesDeadline(r) ==
    /\ request[r].at = "read again"
    /\ LET wrote == request[r].wrote
       IN  IF /\ clip # Absent
              /\ clip.version = wrote.version
              /\ clip.deadline = wrote.expires_at_ms
           THEN Become(r, [at |-> "saved", wrote |-> wrote, answer |-> clip])
           ELSE Become(r, [at |-> "error", wrote |-> wrote])
    /\ UNCHANGED <<clock, life, clip>>

ReadAgain(r) ==
    /\ request[r].at = "read again"
    /\ LET wrote == request[r].wrote
       IN  IF /\ clip # Absent
              /\ clip.version = wrote.version
              /\ clip.expires_at_ms = wrote.expires_at_ms
           THEN Become(r, [at |-> "saved", wrote |-> wrote, answer |-> clip])
           ELSE Become(r, [at |-> "error", wrote |-> wrote])
    /\ UNCHANGED <<clock, life, clip>>

(* The second request to Redis fails, or the call is dropped.              *)
Fail(r) ==
    /\ request[r].at = "read again"
    /\ Become(r, [at |-> "failed"])
    /\ UNCHANGED <<clock, life, clip>>

Tick ==
    /\ clock < LastTime
    /\ clock' = clock + 1
    /\ clip' = IF clip # Absent /\ clip.deadline < clock' THEN Absent ELSE clip
    /\ UNCHANGED <<life, request>>

Next ==
    \/ \E now \in Nows, version \in 1 .. MaxVersion :
         \/ Create(version, now)
         \/ \E r \in Requests : Write(r, version, now)
    \/ \E r \in Requests : ReadAgain(r) \/ Fail(r)
    \/ Tick

Spec == Init /\ [][Next]_vars

-----------------------------------------------------------------------------
Records == [life : Nat, author : Requests \cup {Creator}, version : 1 .. MaxVersion,
            expires_at_ms : Nat, deadline : Nat]

Calls ==
    [at : {"not sent", "refused", "failed"}]
        \cup [at : {"read again", "error"}, wrote : Records]
        \cup [at : {"saved"}, wrote : Records, answer : Records]

(* What Redis and the calls keep, and times that are possible. *)
TypeOK ==
    /\ clock \in 0 .. LastTime
    /\ life \in Nat
    /\ clip \in Records \cup {Absent}
    /\ request \in [Requests -> Calls]

(* The record that update() returns, and that is then announced to all     *)
(* browsers, is the one its own script wrote, although the comparison is   *)
(* of version and expiry time only: a later clipboard of the same code     *)
(* with the same version expires at another time.                          *)
AnswersOwnSave ==
    \A r \in Requests : request[r].at = "saved" => request[r].answer = request[r].wrote

(* A call whose script has stored the text is answered with an error only  *)
(* if the record has been overtaken before the second read: by a later     *)
(* save, or because its clipboard is no longer there.  Nothing else that   *)
(* happens to the key in between makes version or expiry time differ,      *)
(* whatever the clocks of the servers say.                                 *)
ErrorOnlyIfOvertaken ==
    \A r \in Requests : request[r].at = "error" =>
        LET wrote == request[r].wrote
        IN  clip = Absent \/ clip.life # wrote.life \/ clip.version > wrote.version

(* What callers of update() see of the code, here 0.                       *)
SavesTaken ==
    [r \in Requests |->
       LET at == request[r].at
           record == IF at = "saved" THEN request[r].answer ELSE request[r].wrote
       IN  IF at \in {"read again", "error", "saved"}
           THEN [code |-> 0, life |-> record.life, version |-> record.version]
           ELSE [version |-> 0]]
Abstract ==
    INSTANCE VersionedRooms WITH
        Codes <- {0}, Callers <- Requests,
        lives <- [code \in {0} |-> life], version <- [code \in {0} |-> clip.version],
        taken <- SavesTaken

(* The script and the second request to Redis together are one step of a   *)
(* store that saves in single steps, which took place before the answer:   *)
(* what update() answers is what its script did then, whatever other calls *)
(* and later clipboards have done to the record in between.                *)
ImplementsRooms == Abstract!Spec
=============================================================================
