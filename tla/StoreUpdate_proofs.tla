-------------------------- MODULE StoreUpdate_proofs --------------------------
(***************************************************************************)
(* update() answers its own save, for any number of calls, any bounds and  *)
(* all clocks that agree, and fails only when its save was overtaken.      *)
(*                                                                         *)
(* A record that was written and is not read again yet is still there,     *)
(* has been followed by a later version in its life, or its life is over   *)
(* (Known).  In the last case any later clipboard was written after the    *)
(* record's deadline, hence expires later than the record did by any       *)
(* server's clock: that is where ClocksAgree is needed, and only there.    *)
(* A call that finds the record changed is in one of the last two cases,   *)
(* and stays there (Overtaken).                                            *)
(***************************************************************************)
EXTENDS StoreUpdate, TLAPS

ClipInTime == clip # Absent => clip.life = life /\ clip.deadline <= clock + TTL

Known(w) ==
    /\ w.life <= life
    /\ w.expires_at_ms <= w.deadline + Skew
    /\ clip # Absent /\ clip.life = w.life =>
         /\ w.version <= clip.version
         /\ w.version = clip.version => clip = w
         /\ w.deadline <= clip.deadline
    /\ clip = Absent \/ clip.life # w.life =>
         /\ w.deadline < clock
         /\ clip # Absent => w.deadline + TTL < clip.expires_at_ms + Skew

WritesKnown == \A r \in Requests : request[r].at = "read again" => Known(request[r].wrote)

Overtaken(w) ==
    /\ w.life <= life
    /\ clip = Absent \/ clip.life # w.life \/ clip.version > w.version

ErrorsOvertaken == \A r \in Requests : request[r].at = "error" => Overtaken(request[r].wrote)

IInv ==
    /\ TypeOK
    /\ ClipInTime
    /\ WritesKnown
    /\ ErrorsOvertaken
    /\ ClocksAgree => AnswersOwnSave

(* A record that a script writes now. *)
LEMMA RecordNow ==
    ASSUME TypeOK, NEW now \in Nows, NEW n \in Nat, NEW author \in Requests \cup {Creator},
           NEW version \in 1 .. MaxVersion
    PROVE  LET w == Record(n, author, version, now)
           IN  /\ w \in Records /\ w # Absent
               /\ w.life = n /\ w.version = version /\ w.deadline = clock + TTL
               /\ w.expires_at_ms <= w.deadline + Skew
               /\ w.deadline <= w.expires_at_ms + Skew
<1>1. now \in Nat /\ clock \in Nat /\ now <= clock + Skew /\ clock <= now + Skew
  BY DEF Nows, TypeOK
<1> DEFINE w == Record(n, author, version, now)
<1>2. /\ w.life = n /\ w.version = version /\ w.deadline = clock + TTL
      /\ w.expires_at_ms = now + TTL
  BY DEF Record
<1>3. w \in Records
  BY <1>1, UpdateAssumption DEF Record, Records
<1>4. w # Absent
  BY <1>2 DEF Absent
<1> HIDE DEF w
<1>5. w.expires_at_ms <= w.deadline + Skew /\ w.deadline <= w.expires_at_ms + Skew
  BY <1>1, <1>2, UpdateAssumption
<1>. QED  BY <1>2, <1>3, <1>4, <1>5 DEF w

LEMMA RecordFields ==
    ASSUME NEW w \in Records
    PROVE  /\ w.life \in Nat /\ w.version \in Nat /\ w.version >= 1
           /\ w.expires_at_ms \in Nat /\ w.deadline \in Nat
           /\ w # Absent
  BY DEF Records, Absent

LEMMA CallFields ==
    ASSUME TypeOK, NEW r \in Requests
    PROVE  /\ request[r].at \in {"read again", "error"} => request[r].wrote \in Records
           /\ request[r].at \in {"not sent", "refused", "failed", "read again", "error", "saved"}
  BY DEF TypeOK, Calls

(* Only the call that takes a step changes. *)
LEMMA OthersAlone ==
    ASSUME TypeOK, NEW r \in Requests, NEW state \in Calls, Become(r, state)
    PROVE  /\ request' \in [Requests -> Calls]
           /\ request'[r] = state
           /\ \A q \in Requests \ {r} : request'[q] = request[q]
  BY DEF TypeOK, Become

(* What is known of a record remains true when the key is written. *)
LEMMA KnownAfterWrite ==
    ASSUME TypeOK, ClipInTime, NEW w \in Records, Known(w), NEW now \in Nows,
           NEW author \in Requests \cup {Creator}, NEW version \in 1 .. MaxVersion,
           NEW n \in Nat, life' = n, clock' = clock,
           clip' = Record(n, author, version, now),
           \/ clip = Absent /\ n = life + 1
           \/ clip # Absent /\ n = clip.life /\ version = clip.version + 1
    PROVE  Known(w)'
<1>1. /\ clip' \in Records /\ clip' # Absent
      /\ clip'.life = n /\ clip'.version = version /\ clip'.deadline = clock + TTL
      /\ clip'.deadline <= clip'.expires_at_ms + Skew
  BY RecordNow
<1>2. /\ w.life \in Nat /\ w.version \in Nat /\ w.deadline \in Nat /\ clock \in Nat /\ life \in Nat
      /\ clip'.expires_at_ms \in Nat
  BY <1>1, RecordFields DEF TypeOK
<1>3. CASE clip = Absent /\ n = life + 1
  BY <1>1, <1>2, <1>3, UpdateAssumption DEF Known
<1>4. CASE clip # Absent /\ n = clip.life /\ version = clip.version + 1
  <2>1. clip \in Records /\ clip.version \in Nat /\ clip.deadline \in Nat /\ clip.life = life
    BY <1>4, RecordFields DEF TypeOK, ClipInTime
  <2>2. clip.deadline <= clock + TTL
    BY <1>4 DEF ClipInTime
  <2>3. CASE clip.life = w.life
    <3>1. w.version <= clip.version /\ w.deadline <= clip.deadline
      BY <1>4, <2>3 DEF Known
    <3>2. w.version < version /\ w.deadline <= clip'.deadline
      BY <1>1, <1>2, <1>4, <2>1, <2>2, <3>1, UpdateAssumption
    <3>. QED  BY <1>1, <1>2, <1>4, <2>1, <2>3, <3>2 DEF Known
  <2>4. CASE clip.life # w.life
    <3>1. w.deadline < clock
      BY <2>4 DEF Known
    <3>2. w.deadline + TTL < clip'.expires_at_ms + Skew
      BY <1>1, <1>2, <3>1, UpdateAssumption
    <3>. QED  BY <1>1, <1>4, <2>1, <2>4, <3>1, <3>2 DEF Known
  <2>. QED  BY <2>3, <2>4
<1>. QED  BY <1>3, <1>4

LEMMA InitIInv == Init => IInv
<1> SUFFICES ASSUME Init PROVE IInv
  OBVIOUS
<1>1. \A r \in Requests : request[r].at = "not sent" /\ request[r] \in Calls
  BY DEF Init, Calls
<1>2. TypeOK
  <2>1. request \in [Requests -> Calls]
    BY <1>1 DEF Init
  <2>2. clock \in 0 .. LastTime /\ life \in Nat
    <3>1. clock = 0 /\ life = 0
      BY DEF Init
    <3>. QED  BY <3>1, UpdateAssumption
  <2>3. clip \in Records \cup {Absent}
    BY DEF Init
  <2>. QED  BY <2>1, <2>2, <2>3 DEF TypeOK
<1>. QED  BY <1>1, <1>2 DEF Init, IInv, ClipInTime, WritesKnown, ErrorsOvertaken, Overtaken, AnswersOwnSave

(* A record that was overtaken remains so when the key is written or goes. *)
LEMMA OvertakenStays ==
    ASSUME TypeOK, ClipInTime, NEW w \in Records, Overtaken(w),
           \/ clip' = Absent /\ life' = life
           \/ clip = Absent /\ life' = life + 1 /\ clip'.life = life'
           \/ clip # Absent /\ life' = life /\ clip'.life = clip.life /\ clip'.version = clip.version + 1
    PROVE  Overtaken(w)'
<1>1. w.life \in Nat /\ w.version \in Nat /\ life \in Nat
  BY RecordFields DEF TypeOK
<1>2. clip # Absent => clip.version \in Nat
  BY RecordFields DEF TypeOK
<1>. QED  BY <1>1, <1>2 DEF Overtaken

LEMMA NextIInv ==
    ASSUME IInv, [Next]_vars
    PROVE  IInv'
<1> USE DEF IInv
<1>1. ASSUME NEW first \in 1 .. MaxVersion, NEW now \in Nows, Create(first, now)  PROVE IInv'
  <2>1. /\ clip = Absent /\ life' = life + 1 /\ clip' = Record(life + 1, Creator, first, now)
        /\ UNCHANGED <<clock, request>> /\ life + 1 \in Nat
    BY <1>1, UpdateAssumption DEF Create, TypeOK
  <2>2. clip' \in Records /\ clip'.life = life' /\ clip'.deadline = clock + TTL
    BY <2>1, RecordNow
  <2>3. TypeOK'
    BY <2>1, <2>2 DEF TypeOK
  <2>4. ClipInTime'
    BY <2>1, <2>2, UpdateAssumption DEF ClipInTime, TypeOK
  <2>5. ASSUME NEW r \in Requests, request'[r].at = "read again"
        PROVE  Known(request[r].wrote)'
    <3>1. Known(request[r].wrote) /\ request[r].wrote \in Records
      BY <2>1, <2>5, CallFields DEF WritesKnown
    <3>2. PICK w \in Records : w = request[r].wrote
      BY <3>1
    <3>3. Known(w)'
      BY <2>1, <3>1, <3>2, KnownAfterWrite
    <3>. QED  BY <2>1, <3>2, <3>3 DEF Known
  <2>6. ClocksAgree => AnswersOwnSave'
    BY <2>1 DEF AnswersOwnSave
  <2>7. ASSUME NEW r \in Requests, request'[r].at = "error"
        PROVE  Overtaken(request[r].wrote)'
    <3>1. PICK w \in Records : w = request[r].wrote /\ Overtaken(w)
      BY <2>1, <2>7, CallFields DEF ErrorsOvertaken
    <3>2. Overtaken(w)'
      BY <2>1, <2>2, <3>1, OvertakenStays
    <3>. QED  BY <2>1, <3>1, <3>2 DEF Overtaken
  <2>. QED  BY <2>3, <2>4, <2>5, <2>6, <2>7 DEF WritesKnown, ErrorsOvertaken
<1>2. ASSUME NEW r \in Requests, NEW version \in 1 .. MaxVersion, NEW now \in Nows,
             Write(r, version, now)
      PROVE  IInv'
  <2>0. UNCHANGED <<clock, life>>
    BY <1>2 DEF Write
  <2>1. CASE clip # Absent /\ version = clip.version + 1
    <3>1. /\ clip' = Record(clip.life, r, version, now)
          /\ Become(r, [at |-> "read again", wrote |-> clip'])
      BY <1>2, <2>1 DEF Write
    <3>2. clip \in Records /\ clip.life \in Nat /\ clip.life = life
      BY <2>1, RecordFields DEF TypeOK, ClipInTime
    <3>3. /\ clip' \in Records /\ clip' # Absent /\ clip'.life = clip.life
          /\ clip'.deadline = clock + TTL
          /\ clip'.expires_at_ms <= clip'.deadline + Skew
      <4>1. PICK n \in Nat, author \in Requests \cup {Creator} : n = clip.life /\ author = r
        BY <3>2
      <4>2. clip' = Record(n, author, version, now)
        BY <3>1, <4>1
      <4>. QED  BY <4>1, <4>2, RecordNow
    <3>4. PICK v \in Records : v = clip'
      BY <3>3
    <3>5. [at |-> "read again", wrote |-> v] \in Calls
      BY DEF Calls
    <3>6. /\ request' \in [Requests -> Calls]
          /\ request'[r].at = "read again" /\ request'[r].wrote = v
          /\ \A q \in Requests \ {r} : request'[q] = request[q]
      <4>1. PICK c \in Calls : c = [at |-> "read again", wrote |-> v]
        BY <3>5
      <4>2. c.at = "read again" /\ c.wrote = v
        BY <4>1
      <4>3. Become(r, c)
        BY <3>1, <3>4, <4>1
      <4>. QED  BY <4>2, <4>3, OthersAlone
    <3>7. TypeOK'
      BY <2>0, <3>3, <3>6 DEF TypeOK
    <3>8. ClipInTime'
      BY <2>0, <3>2, <3>3, UpdateAssumption DEF ClipInTime, TypeOK
    <3>9. Known(v)'
      <4>1. v.deadline \in Nat /\ v.version \in Nat /\ v.life \in Nat
        BY RecordFields
      <4>. QED  BY <2>0, <3>2, <3>3, <3>4, <4>1 DEF Known
    <3>10. ASSUME NEW q \in Requests \ {r}, request'[q].at = "read again"
           PROVE  Known(request[q].wrote)'
      <4>1. PICK w \in Records : w = request[q].wrote /\ Known(w)
        BY <3>6, <3>10, CallFields DEF WritesKnown
      <4>2. PICK n \in Nat, author \in Requests \cup {Creator} : n = clip.life /\ author = r
        BY <3>2
      <4>3. Known(w)'
        BY <2>0, <2>1, <3>1, <3>2, <4>1, <4>2, KnownAfterWrite
      <4>4. request'[q].wrote = w
        BY <3>6, <4>1
      <4>. QED  BY <4>3, <4>4 DEF Known
    <3>11. WritesKnown'
      <4>1. request'[r].wrote = v
        BY <3>6
      <4>2. Known(request[r].wrote)'
        BY <3>9, <4>1 DEF Known
      <4>. QED  BY <3>10, <4>2 DEF WritesKnown
    <3>12. ClocksAgree => AnswersOwnSave'
      BY <3>6 DEF AnswersOwnSave
    <3>13. clip'.version = clip.version + 1
      <4>1. PICK n \in Nat, author \in Requests \cup {Creator} : n = clip.life /\ author = r
        BY <3>2
      <4>2. clip' = Record(n, author, version, now)
        BY <3>1, <4>1
      <4>. QED  BY <2>1, <4>1, <4>2, RecordNow
    <3>14. ASSUME NEW q \in Requests, request'[q].at = "error"
           PROVE  Overtaken(request[q].wrote)'
      <4>1. q # r /\ request'[q] = request[q]
        BY <3>6, <3>14
      <4>2. PICK w \in Records : w = request[q].wrote /\ Overtaken(w)
        BY <3>14, <4>1, CallFields DEF ErrorsOvertaken
      <4>3. Overtaken(w)'
        BY <2>0, <2>1, <3>3, <3>13, <4>2, OvertakenStays
      <4>. QED  BY <4>1, <4>2, <4>3 DEF Overtaken
    <3>. QED  BY <3>7, <3>8, <3>11, <3>12, <3>14 DEF ErrorsOvertaken
  <2>2. CASE ~(clip # Absent /\ version = clip.version + 1)
    <3>1. UNCHANGED clip /\ Become(r, [at |-> "refused"])
      BY <1>2, <2>2 DEF Write
    <3>2. [at |-> "refused"] \in Calls
      BY DEF Calls
    <3>3. /\ request' \in [Requests -> Calls]
          /\ request'[r].at = "refused"
          /\ \A q \in Requests \ {r} : request'[q] = request[q]
      BY <3>1, <3>2, OthersAlone
    <3>. QED  BY <2>0, <3>1, <3>3 DEF TypeOK, ClipInTime, WritesKnown, Known, ErrorsOvertaken, Overtaken, AnswersOwnSave
  <2>. QED  BY <2>1, <2>2
<1>3. ASSUME NEW r \in Requests, ReadAgain(r)  PROVE IInv'
  <2>1. PICK w \in Records : w = request[r].wrote /\ Known(w)
    BY <1>3, CallFields DEF ReadAgain, WritesKnown
  <2>2. UNCHANGED <<clock, life, clip>>
    BY <1>3 DEF ReadAgain
  <2>3. CASE clip # Absent /\ clip.version = w.version /\ clip.expires_at_ms = w.expires_at_ms
    <3>1. clip \in Records /\ clip.expires_at_ms \in Nat
      BY <2>3, RecordFields DEF TypeOK
    <3>2. ClocksAgree => clip.life = w.life
      <4>1. SUFFICES ASSUME ClocksAgree, clip.life # w.life PROVE FALSE
        OBVIOUS
      <4>2. /\ w.deadline + TTL < clip.expires_at_ms + Skew
            /\ w.expires_at_ms <= w.deadline + Skew
        BY <2>1, <2>3, <4>1 DEF Known
      <4>3. w.deadline \in Nat /\ w.expires_at_ms \in Nat
        BY RecordFields
      <4>. QED  BY <2>3, <4>1, <4>2, <4>3, UpdateAssumption DEF ClocksAgree
    <3>3. ClocksAgree => clip = w
      BY <2>1, <2>3, <3>2 DEF Known
    <3>4. Become(r, [at |-> "saved", wrote |-> w, answer |-> clip])
      BY <1>3, <2>1, <2>3 DEF ReadAgain
    <3>5. [at |-> "saved", wrote |-> w, answer |-> clip] \in Calls
      BY <3>1 DEF Calls
    <3>6. /\ request' \in [Requests -> Calls]
          /\ request'[r].at = "saved" /\ request'[r].wrote = w /\ request'[r].answer = clip
          /\ \A q \in Requests \ {r} : request'[q] = request[q]
      <4>1. PICK c \in Calls : c = [at |-> "saved", wrote |-> w, answer |-> clip]
        BY <3>5
      <4>2. c.at = "saved" /\ c.wrote = w /\ c.answer = clip
        BY <4>1
      <4>3. Become(r, c)
        BY <3>4, <4>1
      <4>. QED  BY <4>2, <4>3, OthersAlone
    <3>7. TypeOK' /\ ClipInTime'
      BY <2>2, <3>6 DEF TypeOK, ClipInTime
    <3>8. WritesKnown' /\ ErrorsOvertaken'
      BY <2>2, <3>6 DEF WritesKnown, Known, ErrorsOvertaken, Overtaken
    <3>9. ClocksAgree => AnswersOwnSave'
      BY <3>3, <3>6 DEF AnswersOwnSave
    <3>. QED  BY <3>7, <3>8, <3>9
  <2>4. CASE ~(clip # Absent /\ clip.version = w.version /\ clip.expires_at_ms = w.expires_at_ms)
    <3>1. Become(r, [at |-> "error", wrote |-> w])
      BY <1>3, <2>1, <2>4 DEF ReadAgain
    <3>2. [at |-> "error", wrote |-> w] \in Calls
      BY DEF Calls
    <3>3. /\ request' \in [Requests -> Calls]
          /\ request'[r].at = "error" /\ request'[r].wrote = w
          /\ \A q \in Requests \ {r} : request'[q] = request[q]
      <4>1. PICK c \in Calls : c = [at |-> "error", wrote |-> w]
        BY <3>2
      <4>2. c.at = "error" /\ c.wrote = w
        BY <4>1
      <4>3. Become(r, c)
        BY <3>1, <4>1
      <4>. QED  BY <4>2, <4>3, OthersAlone
    <3>4. Overtaken(w)
      <4>1. clip # Absent => clip.version \in Nat /\ clip.expires_at_ms \in Nat
        BY RecordFields DEF TypeOK
      <4>2. w.version \in Nat
        BY RecordFields
      <4>. QED  BY <2>1, <2>4, <4>1, <4>2 DEF Known, Overtaken
    <3>. QED  BY <2>2, <3>3, <3>4 DEF TypeOK, ClipInTime, WritesKnown, Known, ErrorsOvertaken, Overtaken, AnswersOwnSave
  <2>. QED  BY <2>3, <2>4
<1>4. ASSUME NEW r \in Requests, Fail(r)  PROVE IInv'
  <2>1. UNCHANGED <<clock, life, clip>> /\ Become(r, [at |-> "failed"])
    BY <1>4 DEF Fail
  <2>2. [at |-> "failed"] \in Calls
    BY DEF Calls
  <2>3. /\ request' \in [Requests -> Calls]
        /\ request'[r].at = "failed"
        /\ \A q \in Requests \ {r} : request'[q] = request[q]
    BY <2>1, <2>2, OthersAlone
  <2>. QED  BY <2>1, <2>3 DEF TypeOK, ClipInTime, WritesKnown, Known, ErrorsOvertaken, Overtaken, AnswersOwnSave
<1>5. CASE Tick
  <2>1. /\ clock' = clock + 1 /\ UNCHANGED <<life, request>> /\ clock' \in 0 .. LastTime
        /\ clock \in Nat
        /\ clip' = IF clip # Absent /\ clip.deadline < clock' THEN Absent ELSE clip
    BY <1>5, UpdateAssumption DEF Tick, TypeOK
  <2>2. TypeOK'
    BY <2>1 DEF TypeOK
  <2>3. ClipInTime'
    <3>1. clip # Absent => clip.deadline \in Nat
      BY RecordFields DEF TypeOK
    <3>. QED  BY <2>1, <3>1, UpdateAssumption DEF ClipInTime
  <2>4. ASSUME NEW r \in Requests, request[r].at = "read again"
        PROVE  Known(request[r].wrote)'
    <3>1. PICK w \in Records : w = request[r].wrote /\ Known(w)
      BY <2>4, CallFields DEF WritesKnown
    <3>2. w.deadline \in Nat /\ (clip # Absent => clip.deadline \in Nat)
      BY RecordFields DEF TypeOK
    <3>3. Known(w)'
      <4>1. CASE clip' = clip
        BY <2>1, <3>1, <3>2, <4>1 DEF Known
      <4>2. CASE clip # Absent /\ clip.deadline < clock' /\ clip' = Absent
        BY <2>1, <3>1, <3>2, <4>2 DEF Known
      <4>. QED  BY <2>1, <4>1, <4>2
    <3>. QED  BY <2>1, <3>1, <3>3 DEF Known
  <2>5. WritesKnown'
    BY <2>1, <2>4 DEF WritesKnown, Known
  <2>6. ASSUME NEW r \in Requests, request[r].at = "error"
        PROVE  Overtaken(request[r].wrote)'
    BY <2>1, <2>6 DEF ErrorsOvertaken, Overtaken
  <2>7. ErrorsOvertaken'
    BY <2>1, <2>6 DEF ErrorsOvertaken, Overtaken
  <2>. QED  BY <2>1, <2>2, <2>3, <2>5, <2>7 DEF AnswersOwnSave
<1>6. CASE UNCHANGED vars
  BY <1>6 DEF vars, TypeOK, ClipInTime, WritesKnown, Known, ErrorsOvertaken, Overtaken, AnswersOwnSave
<1>. QED  BY <1>1, <1>2, <1>3, <1>4, <1>5, <1>6 DEF Next

LEMMA AlwaysIInv == Spec => []IInv
  BY InitIInv, NextIInv, PTL DEF Spec

(* The record under the key and the calls keep their types, whatever the   *)
(* servers' clocks say.                                                    *)
THEOREM TypeAlways == Spec => []TypeOK
<1>1. IInv => TypeOK
  BY DEF IInv
<1>. QED  BY AlwaysIInv, <1>1, PTL

(* A save that was stored is answered with an error only if the record was *)
(* overtaken before the second read, whatever the servers' clocks say.     *)
THEOREM ErrorOnlyIfOvertakenAlways == Spec => []ErrorOnlyIfOvertaken
<1>1. IInv => ErrorOnlyIfOvertaken
  BY DEF IInv, ErrorsOvertaken, Overtaken, ErrorOnlyIfOvertaken
<1>. QED  BY AlwaysIInv, <1>1, PTL

(* If two servers' clocks differ by no more than a clipboard lives, then   *)
(* update() never returns, and so never announces, another text than its   *)
(* script stored, although it compares version and expiry time only.       *)
THEOREM AnswersOwnSaveAlways ==
    ASSUME ClocksAgree
    PROVE  Spec => []AnswersOwnSave
<1>1. IInv => AnswersOwnSave
  BY DEF IInv
<1>. QED  BY AlwaysIInv, <1>1, PTL

-----------------------------------------------------------------------------
(* The values of the refinement's variables, and what a step does to them. *)
LEMMA SaveOf ==
    ASSUME NEW r \in Requests
    PROVE  /\ request[r].at \in {"not sent", "refused", "failed"} =>
                 SavesTaken[r] = [version |-> 0]
           /\ request[r].at \in {"read again", "error"} =>
                 SavesTaken[r] = [code |-> 0, life |-> request[r].wrote.life,
                                  version |-> request[r].wrote.version]
           /\ request[r].at = "saved" =>
                 SavesTaken[r] = [code |-> 0, life |-> request[r].answer.life,
                                  version |-> request[r].answer.version]
  BY DEF SavesTaken

LEMMA OneSaveChanges ==
    ASSUME NEW r \in Requests, NEW v, SavesTaken'[r] = v,
           \A q \in Requests \ {r} : request'[q] = request[q]
    PROVE  SavesTaken' = [SavesTaken EXCEPT ![r] = v]
  BY DEF SavesTaken

LEMMA StepSimulation ==
    ASSUME ClocksAgree, IInv, [Next]_vars
    PROVE  [Abstract!Next]_(Abstract!vars)
<1> DEFINE Version == [code \in {0} |-> clip.version]
           Lives == [code \in {0} |-> life]
<1>0. /\ clip # Absent => /\ clip \in Records /\ clip.version \in 1 .. MaxVersion
                          /\ clip.life = life
      /\ life \in Nat /\ MaxVersion \in Nat /\ Absent.version = 0
  BY UpdateAssumption DEF IInv, TypeOK, ClipInTime, Records, Absent
<1>1. ASSUME UNCHANGED <<Lives, Version, SavesTaken>>
      PROVE  [Abstract!Next]_(Abstract!vars)
  BY <1>1 DEF Abstract!vars
<1>2. ASSUME NEW first \in 1 .. MaxVersion, NEW now \in Nows, Create(first, now)  PROVE Abstract!Next
  <2>1. clip = Absent /\ life' = life + 1 /\ clip'.version = first /\ UNCHANGED request
    BY <1>2 DEF Create, Record
  <2>3. Version[0] = 0 /\ Version' = [Version EXCEPT ![0] = first] /\ Lives' = [Lives EXCEPT ![0] = @ + 1]
    BY <1>0, <2>1
  <2>4. UNCHANGED SavesTaken
    BY <2>1 DEF SavesTaken
  <2>5. Abstract!Create(0)
    BY <2>3, <2>4 DEF Abstract!Create
  <2>. QED  BY <2>5 DEF Abstract!Next
<1>3. ASSUME NEW r \in Requests, NEW version \in 1 .. MaxVersion, NEW now \in Nows,
             Write(r, version, now)
      PROVE  [Abstract!Next]_(Abstract!vars)
  <2>1. UNCHANGED life /\ request[r].at = "not sent"
    BY <1>3 DEF Write
  <2>2. ASSUME NEW state \in Calls, Become(r, state)
        PROVE  request'[r] = state /\ \A q \in Requests \ {r} : request'[q] = request[q]
    BY <2>2, OthersAlone DEF IInv
  <2>3. CASE clip # Absent /\ version = clip.version + 1
    <3>1. PICK n \in Nat, author \in Requests \cup {Creator} : n = clip.life /\ author = r
      BY <1>0, <2>3
    <3>2. clip' = Record(n, author, version, now) /\ Become(r, [at |-> "read again", wrote |-> clip'])
      BY <1>3, <2>3, <3>1 DEF Write
    <3>3. PICK w \in Records : w = clip' /\ w.life = life /\ w.version = clip.version + 1
      <4>1. clip' \in Records /\ clip'.life = n /\ clip'.version = version
        <5>1. /\ Record(n, author, version, now) \in Records
              /\ Record(n, author, version, now).life = n
              /\ Record(n, author, version, now).version = version
          BY RecordNow DEF IInv
        <5>. QED  BY <3>2, <5>1
      <4>. QED  BY <1>0, <2>3, <3>1, <4>1
    <3>4. PICK call \in Calls : call = [at |-> "read again", wrote |-> w]
      BY DEF Calls
    <3>5. call.at = "read again" /\ call.wrote = w
      BY <3>4
    <3>6. request'[r] = call /\ \A q \in Requests \ {r} : request'[q] = request[q]
      BY <2>2, <3>2, <3>3, <3>4
    <3>7. SavesTaken'[r] = [code |-> 0, life |-> w.life, version |-> w.version]
      BY <3>5, <3>6 DEF SavesTaken
    <3>8. /\ Version[0] = clip.version /\ Version[0] \in 1 .. MaxVersion - 1
          /\ Version' = [Version EXCEPT ![0] = @ + 1]
          /\ UNCHANGED Lives /\ Lives[0] = life
      <4>1. clip.version \in 1 .. MaxVersion - 1 /\ clip'.version = clip.version + 1
        BY <1>0, <2>3, <3>3
      <4>2. Version[0] = clip.version /\ Version'[0] = clip'.version
        OBVIOUS
      <4>3. Version' = [Version EXCEPT ![0] = clip'.version]
        OBVIOUS
      <4>. QED  BY <2>1, <4>1, <4>2, <4>3
    <3>9. SavesTaken' = [SavesTaken EXCEPT ![r] =
             [code |-> 0, life |-> Lives[0], version |-> Version[0] + 1]]
      BY <3>3, <3>6, <3>7, <3>8, OneSaveChanges
    <3>10. SavesTaken[r] = [version |-> 0]
      BY <2>1, SaveOf
    <3>11. Abstract!Take(r, 0)
      BY <3>8, <3>9, <3>10 DEF Abstract!Take, Abstract!Save, Abstract!Nothing
    <3>. QED  BY <3>11 DEF Abstract!Next
  <2>4. CASE ~(clip # Absent /\ version = clip.version + 1)
    <3>1. UNCHANGED clip /\ Become(r, [at |-> "refused"])
      BY <1>3, <2>4 DEF Write
    <3>2. PICK call \in Calls : call = [at |-> "refused"] /\ call.at = "refused"
      <4>1. [at |-> "refused"] \in Calls /\ [at |-> "refused"].at = "refused"
        BY DEF Calls
      <4>. QED  BY <4>1
    <3>3. request'[r] = call /\ \A q \in Requests \ {r} : request'[q] = request[q]
      BY <2>2, <3>1, <3>2
    <3>4. UNCHANGED SavesTaken
      BY <2>1, <3>2, <3>3 DEF SavesTaken
    <3>. QED  BY <1>1, <2>1, <3>1, <3>4
  <2>. QED  BY <2>3, <2>4
<1>4. ASSUME NEW r \in Requests, ReadAgain(r)  PROVE [Abstract!Next]_(Abstract!vars)
  <2>0. PICK w \in Records : w = request[r].wrote
    BY <1>4, CallFields DEF ReadAgain, IInv
  <2>1. request[r].at = "read again" /\ UNCHANGED <<clip, life>>
    BY <1>4 DEF ReadAgain
  <2>2. PICK call \in Calls :
          /\ Become(r, call)
          /\ \/ call.at = "saved" /\ call.wrote = w
             \/ call.at = "error" /\ call.wrote = w
    <3>1. \/ clip \in Records /\ Become(r, [at |-> "saved", wrote |-> w, answer |-> clip])
          \/ Become(r, [at |-> "error", wrote |-> w])
      BY <1>4, <2>0 DEF ReadAgain, IInv, TypeOK
    <3>2. /\ [at |-> "error", wrote |-> w] \in Calls
          /\ clip \in Records => [at |-> "saved", wrote |-> w, answer |-> clip] \in Calls
      BY DEF Calls
    <3>. QED  BY <3>1, <3>2
  <2>3. request'[r] = call /\ \A q \in Requests \ {r} : request'[q] = request[q]
    BY <2>2, OthersAlone DEF IInv
  <2>4. call.at = "saved" => call.answer = w
    BY <2>2, <2>3, NextIInv DEF IInv, AnswersOwnSave
  <2>5. UNCHANGED SavesTaken
    BY <2>0, <2>1, <2>2, <2>3, <2>4 DEF SavesTaken
  <2>. QED  BY <1>1, <2>1, <2>5
<1>5. ASSUME NEW r \in Requests, Fail(r)  PROVE Abstract!Next
  <2>1. request[r].at = "read again" /\ UNCHANGED <<clip, life>> /\ Become(r, [at |-> "failed"])
    BY <1>5 DEF Fail
  <2>2. PICK call \in Calls : call = [at |-> "failed"] /\ call.at = "failed"
    <3>1. [at |-> "failed"] \in Calls /\ [at |-> "failed"].at = "failed"
      BY DEF Calls
    <3>. QED  BY <3>1
  <2>3. request'[r] = call /\ \A q \in Requests \ {r} : request'[q] = request[q]
    BY <2>1, <2>2, OthersAlone DEF IInv
  <2>4. SavesTaken'[r] = [version |-> 0]
    BY <2>2, <2>3 DEF SavesTaken
  <2>5. SavesTaken' = [SavesTaken EXCEPT ![r] = [version |-> 0]]
    BY <2>3, <2>4, OneSaveChanges
  <2>6. SavesTaken[r] # [version |-> 0]
    <3>1. /\ request[r].wrote \in Records
          /\ SavesTaken[r] = [code |-> 0, life |-> request[r].wrote.life,
                              version |-> request[r].wrote.version]
      BY <2>1, CallFields, SaveOf DEF IInv
    <3>2. SavesTaken[r].version >= 1
      BY <3>1, RecordFields
    <3>. QED  BY <3>2
  <2>7. Abstract!Answer(r)
    BY <2>1, <2>5, <2>6 DEF Abstract!Answer, Abstract!Nothing
  <2>. QED  BY <2>7 DEF Abstract!Next
<1>6. CASE Tick
  <2>1. UNCHANGED <<life, request>> /\ (clip' = clip \/ (clip # Absent /\ clip' = Absent))
    <3>1. clip' = IF clip # Absent /\ clip.deadline < clock' THEN Absent ELSE clip
      BY <1>6 DEF Tick
    <3>2. clip' = clip \/ (clip # Absent /\ clip' = Absent)
      BY <3>1
    <3>. QED  BY <1>6, <3>2 DEF Tick
  <2>2. UNCHANGED <<Lives, SavesTaken>>
    BY <2>1 DEF SavesTaken
  <2>3. CASE clip' = clip
    BY <1>1, <2>2, <2>3
  <2>4. CASE clip # Absent /\ clip' = Absent
    <3>1. Version[0] # 0 /\ Version' = [Version EXCEPT ![0] = 0]
      BY <1>0, <2>4
    <3>2. Abstract!Expire(0)
      BY <2>2, <3>1 DEF Abstract!Expire
    <3>. QED  BY <3>2 DEF Abstract!Next
  <2>. QED  BY <2>1, <2>3, <2>4
<1>7. CASE UNCHANGED vars
  BY <1>1, <1>7 DEF vars, SavesTaken
<1>. QED  BY <1>2, <1>3, <1>4, <1>5, <1>6, <1>7 DEF Next

(* To its callers update() is a save in a single step, before its answer,  *)
(* if two servers' clocks differ by no more than a clipboard lives.        *)
THEOREM Implements ==
    ASSUME ClocksAgree
    PROVE  Spec => ImplementsRooms
<1>1. ASSUME Init PROVE Abstract!Init
  <2>1. \A r \in Requests : request[r].at = "not sent"
    BY <1>1 DEF Init
  <2>2. SavesTaken = [r \in Requests |-> [version |-> 0]]
    BY <2>1 DEF SavesTaken
  <2>3. life = 0 /\ clip.version = 0
    BY <1>1 DEF Init, Absent
  <2>. QED  BY <2>2, <2>3 DEF Abstract!Init, Abstract!Nothing
<1>2. IInv /\ [Next]_vars => [Abstract!Next]_(Abstract!vars)
  BY StepSimulation
<1>. QED  BY AlwaysIInv, <1>1, <1>2, PTL DEF Spec, ImplementsRooms, Abstract!Spec
=============================================================================
