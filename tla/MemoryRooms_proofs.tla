-------------------------- MODULE MemoryRooms_proofs --------------------------
(***************************************************************************)
(* The safety of MemoryRooms for any set of codes, any number of           *)
(* operations at a time, any time to live and any bounds.                  *)
(*                                                                         *)
(* CodesConserved is inductive; OnePlace says the same without the set of  *)
(* holders.  OneSavePerVersion needs that a room's version never falls     *)
(* below one that was saved in its life and that later rooms have other    *)
(* lives (SavesPast).  OnlyExpiredGo needs that the instant an operation   *)
(* began at is not in the future (InstantsPast).  VersionsGrow needs       *)
(* OnePlace, so that no room is inserted over another, and ImplementsRooms *)
(* needs it for the same reason.                                           *)
(***************************************************************************)
EXTENDS MemoryRooms, TLAPS

OnePlace ==
    /\ \A code \in Codes : \A t, u \in Tasks : Holds(t, code) /\ Holds(u, code) => t = u
    /\ \A code \in Codes : \A t \in Tasks :
         Holds(t, code) => code \notin free /\ code \notin DOMAIN rooms /\ code \notin lost
    /\ \A code \in free : code \notin DOMAIN rooms /\ code \notin lost
    /\ \A code \in DOMAIN rooms : code \notin lost
    /\ \A code \in Codes :
         code \in free \/ code \in DOMAIN rooms \/ code \in lost \/ \E t \in Tasks : Holds(t, code)

SavesPast ==
    /\ \A code \in DOMAIN rooms : rooms[code].life = lives[code]
    /\ \A t \in Tasks : task[t].at = "saved" =>
         /\ task[t].life <= lives[task[t].code]
         /\ task[t].code \in DOMAIN rooms /\ rooms[task[t].code].life = task[t].life =>
              task[t].version <= rooms[task[t].code].version
    /\ \A t, u \in Tasks : task[t].at = "saved" /\ task[t] = task[u] => t = u

InstantsPast == \A t \in Tasks : task[t].at \in {"look", "evict"} => task[t].now <= clock

IInv == TypeOK /\ OnePlace /\ SavesPast /\ InstantsPast

-----------------------------------------------------------------------------
(* What an operation keeps at each place. *)
LEMMA StateKinds ==
    ASSUME TypeOK, NEW t \in Tasks
    PROVE  /\ task[t] \in States
           /\ task[t].at # "idle" => task[t].code \in Codes
           /\ task[t].at \in {"insert", "look", "write", "evict", "release"} => task[t].now \in Instants
           /\ task[t].at \in {"look", "write", "evict", "release"} => task[t].version \in 0 .. MaxVersion
           /\ task[t].at = "write" => task[t].version \in 1 .. MaxVersion
           /\ task[t].at = "saved" => task[t].version \in 1 .. MaxVersion /\ task[t].life \in Nat
  BY DEF TypeOK, States, Idle

LEMMA OthersAlone ==
    ASSUME TypeOK, NEW t \in Tasks, NEW state, Become(t, state)
    PROVE  task'[t] = state /\ \A u \in Tasks \ {t} : task'[u] = task[u]
  BY DEF TypeOK, Become

LEMMA InsertedRoom ==
    ASSUME TypeOK, NEW t \in Tasks, InsertRoom(t)
    PROVE  LET code == task[t].code
           IN  /\ code \in Codes /\ task[t].at = "insert"
               /\ task[t].now \in Instants
               /\ lives' \in [Codes -> Nat] /\ lives'[code] = lives[code] + 1
               /\ \A c \in Codes \ {code} : lives'[c] = lives[c]
               /\ DOMAIN rooms' = DOMAIN rooms \cup {code}
               /\ rooms' = [c \in DOMAIN rooms' |-> rooms'[c]]
               /\ \E first \in 1 .. MaxVersion : rooms'[code] = Room(lives'[code], first, task[t].now)
               /\ \A c \in DOMAIN rooms \ {code} : rooms'[c] = rooms[c]
<1>1. task[t].code \in Codes /\ task[t].at = "insert" /\ task[t].now \in Instants
  BY StateKinds DEF InsertRoom
<1>2. lives' = [lives EXCEPT ![task[t].code] = @ + 1]
  BY DEF InsertRoom
<1>3. /\ lives' \in [Codes -> Nat] /\ lives'[task[t].code] = lives[task[t].code] + 1
      /\ \A c \in Codes \ {task[t].code} : lives'[c] = lives[c]
  BY <1>1, <1>2 DEF TypeOK
<1>. QED  BY <1>1, <1>3 DEF InsertRoom

(* Under the write lock an update either writes the next version or does   *)
(* nothing.                                                                *)
LEMMA WriteOutcome ==
    ASSUME TypeOK, NEW t \in Tasks, Write(t)
    PROVE  LET code == task[t].code
           IN  /\ task[t].at = "write" /\ code \in Codes
               /\ \/ /\ code \in DOMAIN rooms
                     /\ task[t].version = rooms[code].version + 1
                     /\ task[t].version \in 1 .. MaxVersion
                     /\ task[t].now \in Instants
                     /\ DOMAIN rooms' = DOMAIN rooms
                     /\ rooms' = [c \in DOMAIN rooms' |-> rooms'[c]]
                     /\ rooms'[code] = Room(rooms[code].life, task[t].version, task[t].now)
                     /\ \A c \in DOMAIN rooms \ {code} : rooms'[c] = rooms[c]
                     /\ Become(t, Saved(task[t], rooms[code]))
                  \/ rooms' = rooms /\ Become(t, Idle)
<1>1. /\ task[t].at = "write" /\ task[t].code \in Codes /\ task[t].now \in Instants
      /\ task[t].version \in 1 .. MaxVersion
  BY StateKinds DEF Write
<1>2. CASE /\ task[t].code \in DOMAIN rooms
           /\ task[t].version = NextVersion(rooms[task[t].code].version)
  <2>0. task[t].version = rooms[task[t].code].version + 1
    <3>1. rooms[task[t].code].version \in 1 .. MaxVersion /\ MaxVersion \in Nat
      BY <1>2, MemoryAssumption DEF TypeOK
    <3>. QED  BY <1>1, <1>2, <3>1 DEF NextVersion
  <2>1. rooms' = [rooms EXCEPT ![task[t].code] = Room(@.life, task[t].version, task[t].now)]
    BY <1>2 DEF Write
  <2>2. Become(t, Saved(task[t], rooms[task[t].code]))
    BY <1>2 DEF Write
  <2>4. rooms = [c \in DOMAIN rooms |-> rooms[c]]
    BY DEF TypeOK
  <2>5. /\ DOMAIN rooms' = DOMAIN rooms
        /\ rooms' = [c \in DOMAIN rooms' |-> rooms'[c]]
        /\ rooms'[task[t].code] = Room(rooms[task[t].code].life, task[t].version, task[t].now)
        /\ \A c \in DOMAIN rooms \ {task[t].code} : rooms'[c] = rooms[c]
    BY <1>2, <2>1, <2>4
  <2>. QED  BY <1>1, <1>2, <2>0, <2>2, <2>5
<1>3. CASE ~ (task[t].code \in DOMAIN rooms /\ task[t].version = NextVersion(rooms[task[t].code].version))
  BY <1>1, <1>3 DEF Write
<1>. QED  BY <1>2, <1>3

(* A removal takes the code's room, which had expired when the operation   *)
(* began, or does nothing.                                                 *)
LEMMA RemoveOutcome ==
    ASSUME TypeOK, NEW t \in Tasks, Remove(t)
    PROVE  LET code == task[t].code
           IN  /\ task[t].at = "evict" /\ code \in Codes
               /\ \/ /\ code \in DOMAIN rooms /\ Expired(code, task[t].now)
                     /\ DOMAIN rooms' = DOMAIN rooms \ {code}
                     /\ rooms' = [c \in DOMAIN rooms' |-> rooms'[c]]
                     /\ \A c \in DOMAIN rooms' : rooms'[c] = rooms[c]
                     /\ Become(t, [task[t] EXCEPT !.at = "release"])
                  \/ rooms' = rooms /\ Become(t, Idle)
  BY StateKinds DEF Remove

LEMMA LookOutcome ==
    ASSUME TypeOK, NEW t \in Tasks, Look(t)
    PROVE  /\ task[t].at = "look"
           /\ \E state \in States :
                /\ Become(t, state)
                /\ state.at \in {"idle", "evict", "write"}
                /\ state.at = "evict" => state.now = task[t].now
<1>1. task[t].at = "look" /\ task[t] \in [at : {"look", "evict", "release"}, code : Codes,
                                          now : Instants, version : 0 .. MaxVersion]
  BY StateKinds DEF Look, States, Idle
<1>2. [task[t] EXCEPT !.at = "evict"] \in States
  BY <1>1 DEF States
<1>5. task[t].version # 0 => [task[t] EXCEPT !.at = "write"] \in States
  <2>1. task[t].version # 0 => task[t].version \in 1 .. MaxVersion
    BY <1>1, MemoryAssumption
  <2>2. task[t].version # 0 =>
           [task[t] EXCEPT !.at = "write"] \in
              [at : {"write"}, code : Codes, now : Instants, version : 1 .. MaxVersion]
    BY <1>1, <2>1
  <2>. QED  BY <2>2 DEF States
<1>6. \A at \in {"evict", "write"} :
         /\ [task[t] EXCEPT !.at = at].at = at
         /\ [task[t] EXCEPT !.at = at].now = task[t].now
  BY <1>1
<1>3. Idle \in States /\ Idle.at = "idle"
  BY DEF States, Idle
<1>4. \/ Become(t, Idle)
      \/ Become(t, [task[t] EXCEPT !.at = "evict"])
      \/ task[t].version # 0 /\ Become(t, [task[t] EXCEPT !.at = "write"])
  BY DEF Look
<1>. QED  BY <1>1, <1>2, <1>5, <1>6, <1>3, <1>4

-----------------------------------------------------------------------------
(* What the actions keep of the rooms. *)
RoomsOK ==
    /\ DOMAIN rooms \subseteq Codes
    /\ rooms \in [DOMAIN rooms -> [life : Nat, version : 1 .. MaxVersion, expires_at : Nat]]

LEMMA TypeStep ==
    ASSUME TypeOK, [Next]_vars
    PROVE  TypeOK'
<1> USE MemoryAssumption
<1>0. Idle \in States
  BY DEF States
<1>1. ASSUME NEW t \in Tasks, NEW state \in States, Become(t, state)
      PROVE  task' \in [Tasks -> States]
  BY <1>1 DEF Become, TypeOK
<1>2. ASSUME NEW t \in Tasks, Allocate(t)  PROVE TypeOK'
  <2>1. PICK code \in free : /\ free' = free \ {code}
                             /\ Become(t, [at |-> "insert", code |-> code, now |-> clock])
    BY <1>2 DEF Allocate
  <2>2. [at |-> "insert", code |-> code, now |-> clock] \in States
    BY DEF TypeOK, States
  <2>3. task' \in [Tasks -> States]
    BY <1>1, <2>1, <2>2
  <2>. QED  BY <1>2, <2>1, <2>3 DEF Allocate, TypeOK
<1>3. ASSUME NEW t \in Tasks, InsertRoom(t)  PROVE TypeOK'
  <2> DEFINE code == task[t].code
  <2>1. /\ code \in Codes /\ task[t].now \in Instants
        /\ lives' \in [Codes -> Nat]
        /\ DOMAIN rooms' = DOMAIN rooms \cup {code}
        /\ rooms' = [c \in DOMAIN rooms' |-> rooms'[c]]
        /\ \E first \in 1 .. MaxVersion : rooms'[code] = Room(lives'[code], first, task[t].now)
        /\ \A c \in DOMAIN rooms \ {code} : rooms'[c] = rooms[c]
    BY <1>3, InsertedRoom
  <2> HIDE DEF code
  <2>2. rooms'[code] \in [life : Nat, version : 1 .. MaxVersion, expires_at : Nat]
    <3>1. PICK first \in 1 .. MaxVersion : rooms'[code] = Room(lives'[code], first, task[t].now)
      BY <2>1
    <3>. QED  BY <2>1, <3>1 DEF Room, Instants
  <2>3. \A c \in DOMAIN rooms' : rooms'[c] \in [life : Nat, version : 1 .. MaxVersion, expires_at : Nat]
    BY <2>1, <2>2 DEF TypeOK
  <2>4. RoomsOK'
    BY <2>1, <2>3 DEF RoomsOK, TypeOK
  <2>5. task' \in [Tasks -> States]
    BY <1>0, <1>1, <1>3 DEF InsertRoom
  <2>. QED  BY <1>3, <2>1, <2>4, <2>5 DEF InsertRoom, TypeOK, RoomsOK
<1>4. ASSUME NEW t \in Tasks, NEW code \in Codes, NEW attempt \in 0 .. MaxVersion,
             Begin(t, code, attempt)
      PROVE  TypeOK'
  <2>1. [at |-> "look", code |-> code, now |-> clock, version |-> attempt] \in States
    BY DEF TypeOK, States
  <2>2. task' \in [Tasks -> States]
    BY <1>1, <1>4, <2>1 DEF Begin
  <2>. QED  BY <1>4, <2>2 DEF Begin, TypeOK
<1>5. ASSUME NEW t \in Tasks, Look(t)  PROVE TypeOK'
  <2>1. task' \in [Tasks -> States]
    BY <1>1, <1>5, LookOutcome
  <2>. QED  BY <1>5, <2>1 DEF Look, TypeOK
<1>6. ASSUME NEW t \in Tasks, Write(t)  PROVE TypeOK'
  <2> DEFINE code == task[t].code
  <2>1. CASE rooms' = rooms /\ Become(t, Idle)
    <3>1. task' \in [Tasks -> States]
      BY <1>0, <1>1, <2>1
    <3>. QED  BY <1>6, <2>1, <3>1 DEF Write, TypeOK
  <2>2. CASE /\ code \in DOMAIN rooms
             /\ task[t].version \in 1 .. MaxVersion
             /\ task[t].now \in Instants
             /\ DOMAIN rooms' = DOMAIN rooms
             /\ rooms' = [c \in DOMAIN rooms' |-> rooms'[c]]
             /\ rooms'[code] = Room(rooms[code].life, task[t].version, task[t].now)
             /\ \A c \in DOMAIN rooms \ {code} : rooms'[c] = rooms[c]
             /\ Become(t, Saved(task[t], rooms[code]))
    <3>1. rooms[code].life \in Nat /\ code \in Codes
      BY <2>2 DEF TypeOK
    <3>2. rooms'[code] \in [life : Nat, version : 1 .. MaxVersion, expires_at : Nat]
      BY <2>2, <3>1 DEF Room, Instants
    <3>3. Saved(task[t], rooms[code]) \in States
      BY <2>2, <3>1 DEF Saved, States
    <3>4. task' \in [Tasks -> States]
      BY <1>1, <2>2, <3>3
    <3>5. RoomsOK'
      BY <2>2, <3>2 DEF RoomsOK, TypeOK
    <3>. QED  BY <1>6, <3>4, <3>5 DEF Write, TypeOK, RoomsOK
  <2>. QED  BY <1>6, <2>1, <2>2, WriteOutcome
<1>7. ASSUME NEW t \in Tasks, Remove(t)  PROVE TypeOK'
  <2>1. CASE rooms' = rooms /\ Become(t, Idle)
    <3>1. task' \in [Tasks -> States]
      BY <1>0, <1>1, <2>1
    <3>. QED  BY <1>7, <2>1, <3>1 DEF Remove, TypeOK
  <2>2. CASE /\ DOMAIN rooms' = DOMAIN rooms \ {task[t].code}
             /\ rooms' = [c \in DOMAIN rooms' |-> rooms'[c]]
             /\ \A c \in DOMAIN rooms' : rooms'[c] = rooms[c]
             /\ Become(t, [task[t] EXCEPT !.at = "release"])
    <3>1. [task[t] EXCEPT !.at = "release"] \in States
      <4>1. task[t] \in [at : {"look", "evict", "release"}, code : Codes,
                         now : Instants, version : 0 .. MaxVersion]
        BY <1>7, StateKinds DEF Remove, States, Idle
      <4>. QED  BY <4>1 DEF States
    <3>2. task' \in [Tasks -> States]
      BY <1>1, <2>2, <3>1
    <3>3. RoomsOK'
      BY <2>2 DEF RoomsOK, TypeOK
    <3>. QED  BY <1>7, <3>2, <3>3 DEF Remove, TypeOK, RoomsOK
  <2>. QED  BY <1>7, <2>1, <2>2, RemoveOutcome
<1>8. ASSUME NEW t \in Tasks, Release(t) \/ Return(t) \/ Cancel(t)  PROVE TypeOK'
  <2>1. task' \in [Tasks -> States]
    BY <1>0, <1>1, <1>8 DEF Release, Return, Cancel
  <2>2. Release(t) => task[t].code \in Codes
    BY StateKinds DEF Release
  <2>. QED  BY <1>8, <2>1, <2>2 DEF Release, Return, Cancel, TypeOK
<1>9. CASE Tick
  BY <1>9 DEF Tick, TypeOK, Instants
<1>10. CASE UNCHANGED vars
  BY <1>10 DEF vars, TypeOK
<1>. QED
  BY <1>2, <1>3, <1>4, <1>5, <1>6, <1>7, <1>8, <1>9, <1>10 DEF Next

(* Every code stays in one place. *)
LEMMA OnePlaceStep ==
    ASSUME TypeOK, OnePlace, [Next]_vars
    PROVE  OnePlace'
<1>0. \A t \in Tasks, code \in Codes : Holds(t, code) => task[t].code = code
  BY DEF Holds
<1>1. ASSUME NEW t \in Tasks, NEW state, Become(t, state),
             state.at \notin {"insert", "release"}, task[t].at \notin {"insert", "release"}
      PROVE  \A u \in Tasks, code \in Codes : Holds(u, code)' <=> Holds(u, code)
  BY <1>1, OthersAlone DEF Holds
<1>2. ASSUME \A u \in Tasks, code \in Codes : Holds(u, code)' <=> Holds(u, code),
             UNCHANGED <<free, lost>>, DOMAIN rooms' = DOMAIN rooms
      PROVE  OnePlace'
  <2>1. \A code \in DOMAIN rooms : code \in Codes
    BY DEF TypeOK
  <2>. QED  BY <1>2, <2>1 DEF OnePlace
<1>3. ASSUME NEW t \in Tasks, Allocate(t)  PROVE OnePlace'
  <2>1. PICK code \in free : /\ free' = free \ {code}
                             /\ Become(t, [at |-> "insert", code |-> code, now |-> clock])
    BY <1>3 DEF Allocate
  <2>2. /\ task'[t].at = "insert" /\ task'[t].code = code
        /\ \A u \in Tasks \ {t} : task'[u] = task[u]
    BY <2>1, OthersAlone
  <2>3. task[t].at = "idle"
    BY <1>3 DEF Allocate, Idle
  <2>4. /\ \A u \in Tasks \ {t}, c \in Codes : Holds(u, c)' <=> Holds(u, c)
        /\ \A c \in Codes : Holds(t, c)' <=> c = code
        /\ \A c \in Codes : ~ Holds(t, c)
    BY <2>2, <2>3 DEF Holds
  <2>5. UNCHANGED <<rooms, lost>>
    BY <1>3 DEF Allocate
  <2>6. code \in Codes
    BY DEF TypeOK
  <2>. QED  BY <2>1, <2>4, <2>5, <2>6 DEF OnePlace
<1>4. ASSUME NEW t \in Tasks, InsertRoom(t)  PROVE OnePlace'
  <2>1. task[t].code \in Codes /\ task[t].at = "insert" /\ DOMAIN rooms' = DOMAIN rooms \cup {task[t].code}
    BY <1>4, InsertedRoom
  <2>2. task'[t] = Idle /\ \A u \in Tasks \ {t} : task'[u] = task[u]
    BY <1>4, OthersAlone DEF InsertRoom
  <2>3. /\ \A u \in Tasks \ {t}, c \in Codes : Holds(u, c)' <=> Holds(u, c)
        /\ \A c \in Codes : Holds(t, c) <=> c = task[t].code
        /\ \A c \in Codes : ~ Holds(t, c)'
    BY <2>1, <2>2 DEF Holds, Idle
  <2>4. UNCHANGED <<free, lost>>
    BY <1>4 DEF InsertRoom
  <2>. QED  BY <2>1, <2>3, <2>4 DEF OnePlace, TypeOK
<1>5. ASSUME NEW t \in Tasks, NEW code \in Codes, NEW attempt, Begin(t, code, attempt)
      PROVE  OnePlace'
  <2>1. task[t].at = "idle"
    BY <1>5 DEF Begin, Idle
  <2>. QED  BY <1>1, <1>2, <1>5, <2>1 DEF Begin
<1>6. ASSUME NEW t \in Tasks, Look(t)  PROVE OnePlace'
  <2>1. task[t].at = "look" /\ \E state \in States : Become(t, state) /\ state.at \in {"idle", "evict", "write"}
    BY <1>6, LookOutcome
  <2>. QED  BY <1>1, <1>2, <1>6, <2>1 DEF Look
<1>7. ASSUME NEW t \in Tasks, Write(t)  PROVE OnePlace'
  <2>1. task[t].at = "write" /\ DOMAIN rooms' = DOMAIN rooms
    BY <1>7, WriteOutcome
  <2>2. \E state : Become(t, state) /\ state.at \in {"idle", "saved"}
    <3>1. Idle.at = "idle" /\ Saved(task[t], rooms[task[t].code]).at = "saved"
      BY DEF Saved, Idle
    <3>2. Become(t, Idle) \/ Become(t, Saved(task[t], rooms[task[t].code]))
      BY <1>7, WriteOutcome
    <3>. QED  BY <3>1, <3>2
  <2>. QED  BY <1>1, <1>2, <1>7, <2>1, <2>2 DEF Write
<1>8. ASSUME NEW t \in Tasks, Remove(t)  PROVE OnePlace'
  <2>1. task[t].at = "evict" /\ task[t].code \in Codes
    BY <1>8, RemoveOutcome
  <2>2. UNCHANGED <<free, lost>>
    BY <1>8 DEF Remove
  <2>3. CASE rooms' = rooms /\ Become(t, Idle)
    BY <1>1, <1>2, <2>1, <2>2, <2>3 DEF Idle
  <2>4. CASE /\ task[t].code \in DOMAIN rooms
             /\ DOMAIN rooms' = DOMAIN rooms \ {task[t].code}
             /\ Become(t, [task[t] EXCEPT !.at = "release"])
    <3>1. task'[t].at = "release" /\ task'[t].code = task[t].code
      <4>1. task[t] \in [at : {"look", "evict", "release"}, code : Codes,
                         now : Instants, version : 0 .. MaxVersion]
        BY <2>1, StateKinds DEF States, Idle
      <4>. QED  BY <2>4, <4>1, OthersAlone
    <3>2. \A u \in Tasks \ {t} : task'[u] = task[u]
      BY <2>4, OthersAlone
    <3>3. /\ \A u \in Tasks \ {t}, c \in Codes : Holds(u, c)' <=> Holds(u, c)
          /\ \A c \in Codes : ~ Holds(t, c)
          /\ \A c \in Codes : Holds(t, c)' <=> c = task[t].code
      BY <2>1, <3>1, <3>2 DEF Holds
    <3>0. PICK code \in Codes : code = task[t].code
      BY <2>1
    <3>4. /\ code \notin free /\ code \notin lost
          /\ \A u \in Tasks : ~ Holds(u, code)
      BY <2>1, <2>4, <3>0 DEF OnePlace
    <3>5. \A c \in Codes \ {code} : /\ c \in DOMAIN rooms' <=> c \in DOMAIN rooms
                                   /\ \A u \in Tasks : Holds(u, c)' <=> Holds(u, c)
      BY <2>4, <3>0, <3>3
    <3>6. /\ code \notin DOMAIN rooms'
          /\ \A u \in Tasks : Holds(u, code)' <=> u = t
      <4>1. code \in Codes /\ code \notin DOMAIN rooms'
        BY <2>1, <2>4, <3>0
      <4>2. Holds(t, code)'
        BY <3>0, <3>3, <4>1
      <4>3. \A u \in Tasks \ {t} : ~ Holds(u, code)'
        BY <3>3, <3>4, <4>1
      <4>. QED  BY <4>1, <4>2, <4>3
    <3>7. free \subseteq Codes /\ DOMAIN rooms' \subseteq Codes
      BY <2>4 DEF TypeOK
    <3>8. \A c \in Codes : \A u, v \in Tasks : Holds(u, c)' /\ Holds(v, c)' => u = v
      BY <3>5, <3>6 DEF OnePlace
    <3>9. \A c \in Codes : \A u \in Tasks :
             Holds(u, c)' => c \notin free /\ c \notin DOMAIN rooms' /\ c \notin lost
      BY <3>4, <3>5, <3>6 DEF OnePlace
    <3>10. /\ \A c \in free : c \notin DOMAIN rooms' /\ c \notin lost
           /\ \A c \in DOMAIN rooms' : c \notin lost
      BY <3>5, <3>6, <3>7 DEF OnePlace
    <3>11. \A c \in Codes :
              c \in free \/ c \in DOMAIN rooms' \/ c \in lost \/ \E u \in Tasks : Holds(u, c)'
      BY <3>5, <3>6 DEF OnePlace
    <3>. QED  BY <2>2, <3>8, <3>9, <3>10, <3>11 DEF OnePlace
  <2>. QED  BY <1>8, <2>3, <2>4, RemoveOutcome
<1>9. ASSUME NEW t \in Tasks, Release(t)  PROVE OnePlace'
  <2>1. task[t].at = "release" /\ task[t].code \in Codes
    BY <1>9, StateKinds DEF Release
  <2>2. task'[t] = Idle /\ \A u \in Tasks \ {t} : task'[u] = task[u]
    BY <1>9, OthersAlone DEF Release
  <2>3. /\ \A u \in Tasks \ {t}, c \in Codes : Holds(u, c)' <=> Holds(u, c)
        /\ \A c \in Codes : Holds(t, c) <=> c = task[t].code
        /\ \A c \in Codes : ~ Holds(t, c)'
    BY <2>1, <2>2 DEF Holds, Idle
  <2>4. UNCHANGED <<rooms, lost>> /\ free' = free \cup {task[t].code}
    BY <1>9 DEF Release
  <2>. QED  BY <2>1, <2>3, <2>4 DEF OnePlace, TypeOK
<1>10. ASSUME NEW t \in Tasks, Return(t)  PROVE OnePlace'
  BY <1>1, <1>2, <1>10 DEF Return, Idle
<1>11. ASSUME NEW t \in Tasks, Cancel(t)  PROVE OnePlace'
  <2>1. task'[t] = Idle /\ \A u \in Tasks \ {t} : task'[u] = task[u]
    BY <1>11, OthersAlone DEF Cancel
  <2>2. /\ \A u \in Tasks \ {t}, c \in Codes : Holds(u, c)' <=> Holds(u, c)
        /\ \A c \in Codes : ~ Holds(t, c)'
    BY <2>1 DEF Holds, Idle
  <2>3. UNCHANGED <<free, rooms>>
    BY <1>11 DEF Cancel
  <2>4. \A c \in Codes : c \in lost' <=> c \in lost \/ Holds(t, c)
    BY <1>11 DEF Cancel, TypeOK
  <2>. QED  BY <2>2, <2>3, <2>4 DEF OnePlace, TypeOK
<1>12. CASE Tick \/ UNCHANGED vars
  BY <1>2, <1>12 DEF Tick, vars, Holds
<1>. QED
  BY <1>3, <1>4, <1>5, <1>6, <1>7, <1>8, <1>9, <1>10, <1>11, <1>12 DEF Next

(* A room's version stays past what was saved in its life, and the next    *)
(* room of the code has another life.                                      *)
LEMMA SavesStep ==
    ASSUME TypeOK, SavesPast, [Next]_vars
    PROVE  SavesPast'
<1>0. /\ \A code \in DOMAIN rooms : /\ code \in Codes /\ rooms[code].life \in Nat
                                    /\ rooms[code].version \in Nat
      /\ \A code \in Codes : lives[code] \in Nat
      /\ \A u \in Tasks : task[u].at = "saved" =>
            task[u].code \in Codes /\ task[u].life \in Nat /\ task[u].version \in Nat
  BY StateKinds, MemoryAssumption DEF TypeOK
<1>1. ASSUME NEW t \in Tasks, task'[t].at # "saved", \A u \in Tasks \ {t} : task'[u] = task[u],
             UNCHANGED lives, DOMAIN rooms' \subseteq DOMAIN rooms,
             \A code \in DOMAIN rooms' : rooms'[code] = rooms[code]
      PROVE  SavesPast'
  BY <1>1 DEF SavesPast
<1>2. CASE UNCHANGED <<task, rooms, lives>>
  BY <1>2 DEF SavesPast
<1>3. ASSUME NEW t \in Tasks, NEW state, Become(t, state), state.at # "saved",
             UNCHANGED <<rooms, lives>>
      PROVE  SavesPast'
  BY <1>1, <1>3, OthersAlone
<1>4. ASSUME NEW t \in Tasks, InsertRoom(t)  PROVE SavesPast'
  <2>1. PICK code \in Codes :
          /\ code = task[t].code
          /\ lives'[code] = lives[code] + 1
          /\ \A c \in Codes \ {code} : lives'[c] = lives[c]
          /\ DOMAIN rooms' = DOMAIN rooms \cup {code}
          /\ \E first \in 1 .. MaxVersion : rooms'[code] = Room(lives'[code], first, task[t].now)
          /\ \A c \in DOMAIN rooms \ {code} : rooms'[c] = rooms[c]
    BY <1>4, InsertedRoom
  <2>2. task'[t] = Idle /\ \A u \in Tasks \ {t} : task'[u] = task[u]
    BY <1>4, OthersAlone DEF InsertRoom
  <2>3. rooms'[code].life = lives'[code]
    BY <2>1 DEF Room
  <2>4. \A c \in DOMAIN rooms' : rooms'[c].life = lives'[c]
    BY <1>0, <2>1, <2>3 DEF SavesPast
  <2>5. ASSUME NEW u \in Tasks, task'[u].at = "saved"
        PROVE  /\ task'[u].life <= lives'[task'[u].code]
               /\ task'[u].code \in DOMAIN rooms' /\ rooms'[task'[u].code].life = task'[u].life =>
                    task'[u].version <= rooms'[task'[u].code].version
    <3>1. u # t /\ task'[u] = task[u]
      BY <2>2, <2>5 DEF Idle
    <3>2. task[u].life <= lives[task[u].code] /\ task[u].code \in Codes /\ task[u].life \in Nat
      BY <1>0, <2>5, <3>1 DEF SavesPast
    <3>3. CASE task[u].code = code
      BY <1>0, <2>1, <2>3, <3>1, <3>2, <3>3
    <3>4. CASE task[u].code # code
      BY <1>0, <2>1, <2>5, <3>1, <3>2, <3>4 DEF SavesPast
    <3>. QED  BY <3>3, <3>4
  <2>6. \A u, v \in Tasks : task'[u].at = "saved" /\ task'[u] = task'[v] => u = v
    BY <2>2 DEF SavesPast, Idle
  <2>. QED  BY <2>4, <2>5, <2>6 DEF SavesPast
<1>5. ASSUME NEW t \in Tasks, Write(t)  PROVE SavesPast'
  <2>0. PICK code \in Codes : code = task[t].code
    BY <1>5, WriteOutcome
  <2>1. CASE rooms' = rooms /\ Become(t, Idle)
    BY <1>3, <1>5, <2>1 DEF Write, Idle
  <2>2. CASE /\ code \in DOMAIN rooms
             /\ task[t].version = rooms[code].version + 1
             /\ DOMAIN rooms' = DOMAIN rooms
             /\ rooms'[code] = Room(rooms[code].life, task[t].version, task[t].now)
             /\ \A c \in DOMAIN rooms \ {code} : rooms'[c] = rooms[c]
             /\ Become(t, Saved(task[t], rooms[code]))
    <3>1. /\ task'[t].at = "saved" /\ task'[t].code = code
          /\ task'[t].version = task[t].version /\ task'[t].life = rooms[code].life
          /\ \A u \in Tasks \ {t} : task'[u] = task[u]
      BY <2>0, <2>2, OthersAlone DEF Saved
    <3>2. rooms'[code].life = rooms[code].life /\ rooms'[code].version = task[t].version
      BY <2>2 DEF Room
    <3>3. UNCHANGED lives
      BY <1>5 DEF Write
    <3>4. \A c \in DOMAIN rooms' : rooms'[c].life = lives'[c]
      BY <2>2, <3>2, <3>3 DEF SavesPast
    <3>5. ASSUME NEW u \in Tasks \ {t}, task[u].at = "saved"
          PROVE  /\ task[u].life <= lives[task[u].code]
                 /\ task[u].code \in DOMAIN rooms /\ rooms'[task[u].code].life = task[u].life =>
                      task[u].version <= rooms'[task[u].code].version
                 /\ task[u] # task'[t]
      <4>1. task[u].life <= lives[task[u].code]
        BY <3>5 DEF SavesPast
      <4>2. CASE task[u].code = code
        <5>1. rooms[code].life = task[u].life => task[u].version <= rooms[code].version
          BY <2>2, <3>5, <4>2 DEF SavesPast
        <5>2. rooms[code].version \in Nat /\ task[u].version \in Nat
          BY <1>0, <2>2, <3>5
        <5>3. rooms[code].life = task[u].life => task[u].version < task[t].version
          BY <2>2, <5>1, <5>2
        <5>4. task[u] # task'[t]
          BY <3>1, <5>2, <5>3, <2>2
        <5>. QED  BY <2>2, <3>2, <4>1, <4>2, <5>2, <5>3, <5>4
      <4>3. CASE task[u].code # code
        BY <2>2, <3>1, <3>5, <4>1, <4>3 DEF SavesPast
      <4>. QED  BY <4>2, <4>3
    <3>6. /\ rooms[code].life <= lives[code]
          /\ task'[t].version <= rooms'[code].version
      BY <1>0, <2>2, <3>1, <3>2 DEF SavesPast
    <3>7. \A u \in Tasks : task'[u].at = "saved" =>
            /\ task'[u].life <= lives'[task'[u].code]
            /\ task'[u].code \in DOMAIN rooms' /\ rooms'[task'[u].code].life = task'[u].life =>
                 task'[u].version <= rooms'[task'[u].code].version
      BY <2>2, <3>1, <3>3, <3>5, <3>6
    <3>8. \A u, v \in Tasks : task'[u].at = "saved" /\ task'[u] = task'[v] => u = v
      BY <3>1, <3>5 DEF SavesPast
    <3>. QED  BY <3>4, <3>7, <3>8 DEF SavesPast
  <2>. QED  BY <1>5, <2>0, <2>1, <2>2, WriteOutcome
<1>6. ASSUME NEW t \in Tasks, Remove(t)  PROVE SavesPast'
  <2>0. UNCHANGED lives
    BY <1>6 DEF Remove
  <2>1. CASE rooms' = rooms /\ Become(t, Idle)
    BY <1>3, <2>0, <2>1 DEF Idle
  <2>2. CASE /\ DOMAIN rooms' = DOMAIN rooms \ {task[t].code}
             /\ \A c \in DOMAIN rooms' : rooms'[c] = rooms[c]
             /\ Become(t, [task[t] EXCEPT !.at = "release"])
    <3>1. task'[t].at # "saved" /\ \A u \in Tasks \ {t} : task'[u] = task[u]
      <4>1. task[t] \in [at : {"look", "evict", "release"}, code : Codes,
                         now : Instants, version : 0 .. MaxVersion]
        BY <1>6, StateKinds DEF Remove, States, Idle
      <4>. QED  BY <2>2, <4>1, OthersAlone
    <3>. QED  BY <1>1, <2>0, <2>2, <3>1
  <2>. QED  BY <1>6, <2>1, <2>2, RemoveOutcome
<1>7. ASSUME NEW t \in Tasks, Look(t)  PROVE SavesPast'
  <2>1. \E state \in States : Become(t, state) /\ state.at \in {"idle", "evict", "write"}
    BY <1>7, LookOutcome
  <2>. QED  BY <1>3, <1>7, <2>1 DEF Look
<1>8. ASSUME NEW t \in Tasks, Allocate(t)  PROVE SavesPast'
  BY <1>3, <1>8 DEF Allocate
<1>9. ASSUME NEW t \in Tasks, NEW code, NEW attempt, Begin(t, code, attempt)  PROVE SavesPast'
  BY <1>3, <1>9 DEF Begin
<1>10. ASSUME NEW t \in Tasks, Release(t) \/ Return(t) \/ Cancel(t)  PROVE SavesPast'
  <2>1. UNCHANGED <<rooms, lives>> /\ Become(t, Idle)
    BY <1>10 DEF Release, Return, Cancel
  <2>2. Idle.at # "saved"
    BY DEF Idle
  <2>. QED  BY <1>3, <2>1, <2>2
<1>11. CASE Tick \/ UNCHANGED vars
  BY <1>2, <1>11 DEF Tick, vars
<1>. QED
  BY <1>4, <1>5, <1>6, <1>7, <1>8, <1>9, <1>10, <1>11 DEF Next

(* An operation that looks and evicts began in the past. *)
LEMMA InstantsStep ==
    ASSUME TypeOK, InstantsPast, [Next]_vars
    PROVE  InstantsPast'
<1>1. ASSUME NEW t \in Tasks, UNCHANGED clock, \A u \in Tasks \ {t} : task'[u] = task[u],
             task'[t].at \notin {"look", "evict"}
      PROVE  InstantsPast'
  BY <1>1 DEF InstantsPast
<1>2. ASSUME NEW t \in Tasks, Allocate(t)  PROVE InstantsPast'
  <2>1. task'[t].at = "insert" /\ \A u \in Tasks \ {t} : task'[u] = task[u]
    BY <1>2, OthersAlone DEF Allocate
  <2>. QED  BY <1>1, <1>2, <2>1 DEF Allocate
<1>3. ASSUME NEW t \in Tasks, InsertRoom(t) \/ Release(t) \/ Return(t) \/ Cancel(t)
      PROVE  InstantsPast'
  <2>1. task'[t].at = "idle" /\ \A u \in Tasks \ {t} : task'[u] = task[u]
    BY <1>3, OthersAlone DEF InsertRoom, Release, Return, Cancel, Idle
  <2>. QED  BY <1>1, <1>3, <2>1 DEF InsertRoom, Release, Return, Cancel
<1>4. ASSUME NEW t \in Tasks, NEW code, NEW attempt, Begin(t, code, attempt)  PROVE InstantsPast'
  <2>1. task'[t].now = clock /\ \A u \in Tasks \ {t} : task'[u] = task[u]
    BY <1>4, OthersAlone DEF Begin
  <2>2. clock \in Nat /\ clock' = clock
    BY <1>4 DEF Begin, TypeOK, Instants
  <2>. QED  BY <2>1, <2>2 DEF InstantsPast
<1>5. ASSUME NEW t \in Tasks, Look(t)  PROVE InstantsPast'
  <2>1. PICK state \in States : /\ Become(t, state)
                                /\ state.at \in {"idle", "evict", "write"}
                                /\ state.at = "evict" => state.now = task[t].now
    BY <1>5, LookOutcome
  <2>2. task'[t] = state /\ \A u \in Tasks \ {t} : task'[u] = task[u]
    BY <2>1, OthersAlone
  <2>3. task[t].at = "look" /\ clock' = clock
    BY <1>5 DEF Look
  <2>. QED  BY <2>1, <2>2, <2>3 DEF InstantsPast
<1>6. ASSUME NEW t \in Tasks, Write(t)  PROVE InstantsPast'
  <2>1. Idle.at = "idle" /\ Saved(task[t], rooms[task[t].code]).at = "saved"
    BY DEF Idle, Saved
  <2>2. Become(t, Idle) \/ Become(t, Saved(task[t], rooms[task[t].code]))
    BY <1>6, WriteOutcome
  <2>3. task'[t].at \in {"idle", "saved"} /\ \A u \in Tasks \ {t} : task'[u] = task[u]
    BY <2>1, <2>2, OthersAlone
  <2>. QED  BY <1>1, <1>6, <2>3 DEF Write
<1>7. ASSUME NEW t \in Tasks, Remove(t)  PROVE InstantsPast'
  <2>1. Idle.at = "idle" /\ [task[t] EXCEPT !.at = "release"].at = "release"
    <3>1. task[t] \in [at : {"look", "evict", "release"}, code : Codes,
                       now : Instants, version : 0 .. MaxVersion]
      BY <1>7, StateKinds DEF Remove, States, Idle
    <3>. QED  BY <3>1 DEF Idle
  <2>2. Become(t, Idle) \/ Become(t, [task[t] EXCEPT !.at = "release"])
    BY <1>7, RemoveOutcome
  <2>3. task'[t].at \in {"idle", "release"} /\ \A u \in Tasks \ {t} : task'[u] = task[u]
    BY <2>1, <2>2, OthersAlone
  <2>. QED  BY <1>1, <1>7, <2>3 DEF Remove
<1>8. CASE Tick
  BY <1>8, StateKinds DEF Tick, InstantsPast, TypeOK, Instants
<1>9. CASE UNCHANGED vars
  BY <1>9 DEF vars, InstantsPast
<1>. QED
  BY <1>2, <1>3, <1>4, <1>5, <1>6, <1>7, <1>8, <1>9 DEF Next

-----------------------------------------------------------------------------
LEMMA InitIInv == Init => IInv
<1> SUFFICES ASSUME Init PROVE IInv
  OBVIOUS
<1>1. \A t \in Tasks : task[t].at = "idle" /\ task[t] \in States
  BY DEF Init, Idle, States
<1>2. DOMAIN rooms = {} /\ rooms = [code \in {} |-> rooms[code]]
  BY DEF Init
<1>3. TypeOK
  BY <1>1, <1>2, MemoryAssumption DEF Init, TypeOK, Instants
<1>4. OnePlace
  BY <1>1, <1>2 DEF Init, OnePlace, Holds
<1>5. SavesPast /\ InstantsPast
  BY <1>1, <1>2 DEF SavesPast, InstantsPast
<1>. QED  BY <1>3, <1>4, <1>5 DEF IInv

LEMMA NextIInv == IInv /\ [Next]_vars => IInv'
  BY TypeStep, OnePlaceStep, SavesStep, InstantsStep DEF IInv

LEMMA AlwaysIInv == Spec => []IInv
  BY InitIInv, NextIInv, PTL DEF Spec

(* What the locks of the store guard keeps its type. *)
THEOREM TypeAlways == Spec => []TypeOK
<1>1. IInv => TypeOK
  BY DEF IInv
<1>. QED  BY AlwaysIInv, <1>1, PTL

(* Between their two locks, create and remove_if_expired interleave as     *)
(* they like and may be dropped: a code is in exactly one place.           *)
THEOREM CodesConservedAlways == Spec => []CodesConserved
<1>1. IInv => CodesConserved
  BY DEF IInv, OnePlace, CodesConserved
<1>. QED  BY AlwaysIInv, <1>1, PTL

(* No two updates are answered that they saved the same version of a room. *)
THEOREM OneSavePerVersionAlways == Spec => []OneSavePerVersion
<1>1. IInv => OneSavePerVersion
  BY DEF IInv, SavesPast, OneSavePerVersion
<1>. QED  BY AlwaysIInv, <1>1, PTL

(* The version of a room that lives only grows, up to the largest one. *)
THEOREM VersionsGrowAlways == Spec => VersionsGrow
<1>1. ASSUME IInv, [Next]_vars
      PROVE  \A code \in DOMAIN rooms \cap DOMAIN rooms' :
                rooms[code] = rooms'[code] \/ rooms[code].version < rooms'[code].version
  <2> TAKE code \in DOMAIN rooms \cap DOMAIN rooms'
  <2>1. CASE UNCHANGED rooms
    BY <2>1
  <2>2. ASSUME NEW t \in Tasks, InsertRoom(t)  PROVE rooms'[code] = rooms[code]
    <3>1. Holds(t, task[t].code) /\ task[t].code \in Codes
      BY <1>1, <2>2, InsertedRoom DEF IInv, Holds
    <3>2. task[t].code \notin DOMAIN rooms
      BY <1>1, <3>1 DEF IInv, OnePlace
    <3>. QED  BY <1>1, <2>2, <3>2, InsertedRoom DEF IInv
  <2>3. ASSUME NEW t \in Tasks, Remove(t)  PROVE rooms'[code] = rooms[code]
    BY <1>1, <2>3, RemoveOutcome DEF IInv
  <2>4. ASSUME NEW t \in Tasks, Write(t)
        PROVE  rooms[code] = rooms'[code] \/ rooms[code].version < rooms'[code].version
    <3>1. rooms[code].version \in 1 .. MaxVersion
      BY <1>1 DEF IInv, TypeOK
    <3>2. CASE code = task[t].code /\ rooms' # rooms
      <4>1. /\ task[t].version = rooms[code].version + 1
            /\ rooms'[code] = Room(rooms[code].life, task[t].version, task[t].now)
        BY <1>1, <2>4, <3>2, WriteOutcome DEF IInv
      <4>2. rooms'[code].version = rooms[code].version + 1
        BY <4>1 DEF Room
      <4>. QED  BY <3>1, <4>2
    <3>3. CASE code # task[t].code \/ rooms' = rooms
      BY <1>1, <2>4, <3>3, WriteOutcome DEF IInv
    <3>. QED  BY <3>2, <3>3
  <2>5. CASE \E t \in Tasks : \/ Allocate(t) \/ Look(t) \/ Release(t) \/ Return(t) \/ Cancel(t)
                             \/ \E c \in Codes, attempt \in 0 .. MaxVersion : Begin(t, c, attempt)
    BY <2>1, <2>5 DEF Allocate, Look, Release, Return, Cancel, Begin
  <2>6. CASE Tick \/ UNCHANGED vars
    BY <2>1, <2>6 DEF Tick, vars
  <2>. QED  BY <1>1, <2>2, <2>3, <2>4, <2>5, <2>6 DEF Next
<1>. QED  BY AlwaysIInv, <1>1, PTL DEF Spec, VersionsGrow

(* remove_if_expired never takes a room that lives, although it decides    *)
(* with an instant from before the operation waited for any lock.          *)
THEOREM OnlyExpiredGoAlways == Spec => OnlyExpiredGo
<1>1. ASSUME IInv, [Next]_vars
      PROVE  \A code \in DOMAIN rooms \ DOMAIN rooms' : Expired(code, clock)
  <2>1. CASE DOMAIN rooms \subseteq DOMAIN rooms'
    BY <2>1
  <2>2. ASSUME NEW t \in Tasks, Remove(t), NEW code \in DOMAIN rooms \ DOMAIN rooms'
        PROVE  Expired(code, clock)
    <3>1. /\ task[t].at = "evict" /\ code = task[t].code
          /\ Expired(code, task[t].now)
      BY <1>1, <2>2, RemoveOutcome DEF IInv
    <3>2. task[t].now <= clock /\ task[t].now \in Nat /\ clock \in Nat
      BY <1>1, <3>1, StateKinds DEF IInv, InstantsPast, TypeOK, Instants
    <3>3. rooms[code].expires_at \in Nat
      BY <1>1 DEF IInv, TypeOK
    <3>. QED  BY <3>1, <3>2, <3>3 DEF Expired
  <2>3. ASSUME NEW t \in Tasks, InsertRoom(t) \/ Write(t)  PROVE DOMAIN rooms \subseteq DOMAIN rooms'
    BY <1>1, <2>3, InsertedRoom, WriteOutcome DEF IInv
  <2>4. CASE UNCHANGED rooms
    BY <2>1, <2>4
  <2>5. CASE \E t \in Tasks : \/ Allocate(t) \/ Look(t) \/ Release(t) \/ Return(t) \/ Cancel(t)
                             \/ \E code \in Codes, attempt \in 0 .. MaxVersion : Begin(t, code, attempt)
    BY <2>4, <2>5 DEF Allocate, Look, Release, Return, Cancel, Begin
  <2>6. CASE Tick \/ UNCHANGED vars
    BY <2>4, <2>6 DEF Tick, vars
  <2>. QED  BY <1>1, <2>1, <2>2, <2>3, <2>5, <2>6 DEF Next
<1>. QED  BY AlwaysIInv, <1>1, PTL DEF Spec, OnlyExpiredGo

-----------------------------------------------------------------------------
(* Only the save of the operation that takes a step can change. *)
LEMMA OtherSavesAlone ==
    ASSUME TypeOK, NEW t \in Tasks, NEW state, Become(t, state)
    PROVE  /\ SavesTaken' = [SavesTaken EXCEPT ![t] = SavesTaken'[t]]
           /\ SavesTaken'[t] = IF state.at = "saved"
                               THEN [code |-> state.code, life |-> state.life, version |-> state.version]
                               ELSE [version |-> 0]
  BY OthersAlone DEF SavesTaken

LEMMA SameSaves ==
    ASSUME TypeOK, NEW t \in Tasks, NEW state, Become(t, state),
           state.at # "saved", task[t].at # "saved"
    PROVE  UNCHANGED SavesTaken
  BY OthersAlone DEF SavesTaken

LEMMA SameVersions ==
    ASSUME UNCHANGED rooms
    PROVE  UNCHANGED RoomVersions
  BY DEF RoomVersions

LEMMA VersionsAt ==
    /\ \A c \in Codes : RoomVersions[c] = IF c \in DOMAIN rooms THEN rooms[c].version ELSE 0
    /\ \A c \in Codes : RoomVersions'[c] = IF c \in DOMAIN rooms' THEN rooms'[c].version ELSE 0
  BY DEF RoomVersions

LEMMA OneVersionChanges ==
    ASSUME NEW code \in Codes, NEW v, RoomVersions'[code] = v,
           \A c \in Codes \ {code} : RoomVersions'[c] = RoomVersions[c]
    PROVE  RoomVersions' = [RoomVersions EXCEPT ![code] = v]
  BY DEF RoomVersions

LEMMA StepSimulation ==
    ASSUME IInv, [Next]_vars
    PROVE  [Abstract!Next]_(Abstract!vars)
<1> USE DEF IInv
<1>0. /\ \A code \in DOMAIN rooms : /\ code \in Codes /\ rooms[code].version \in 1 .. MaxVersion
                                    /\ rooms[code].life = lives[code]
      /\ MaxVersion \in Nat /\ Idle.at = "idle"
  BY MemoryAssumption DEF TypeOK, SavesPast, Idle
<1>1. ASSUME UNCHANGED <<lives, RoomVersions, SavesTaken>>
      PROVE  [Abstract!Next]_(Abstract!vars)
  BY <1>1 DEF Abstract!vars
<1>2. ASSUME NEW t \in Tasks, Allocate(t)  PROVE [Abstract!Next]_(Abstract!vars)
  <2>1. PICK code \in free : Become(t, [at |-> "insert", code |-> code, now |-> clock])
    BY <1>2 DEF Allocate
  <2>2. task[t].at # "saved"
    BY <1>2 DEF Allocate, Idle
  <2>. QED  BY <1>1, <1>2, <2>1, <2>2, SameSaves, SameVersions DEF Allocate
<1>3. ASSUME NEW t \in Tasks, InsertRoom(t)  PROVE Abstract!Next
  <2>1. PICK code \in Codes : code = task[t].code
    BY <1>3, InsertedRoom
  <2>2. PICK first \in 1 .. MaxVersion : rooms'[code] = Room(lives'[code], first, task[t].now)
    BY <1>3, <2>1, InsertedRoom
  <2>3. /\ DOMAIN rooms' = DOMAIN rooms \cup {code}
        /\ \A c \in DOMAIN rooms \ {code} : rooms'[c] = rooms[c]
        /\ lives' = [lives EXCEPT ![code] = @ + 1]
    BY <1>3, <2>1, InsertedRoom DEF InsertRoom
  <2>4. code \notin DOMAIN rooms
    <3>1. Holds(t, code)
      BY <1>3, <2>1, InsertedRoom DEF Holds
    <3>. QED  BY <3>1 DEF OnePlace
  <2>5. RoomVersions[code] = 0 /\ RoomVersions' = [RoomVersions EXCEPT ![code] = first]
    <3>1. rooms'[code].version = first
      BY <2>2 DEF Room
    <3>2. RoomVersions'[code] = first /\ RoomVersions[code] = 0
      BY <2>3, <2>4, <3>1, VersionsAt
    <3>3. \A c \in Codes \ {code} : RoomVersions'[c] = RoomVersions[c]
      BY <2>3, VersionsAt
    <3>. QED  BY <3>2, <3>3, OneVersionChanges
  <2>6. UNCHANGED SavesTaken
    BY <1>0, <1>3, SameSaves DEF InsertRoom
  <2>7. Abstract!Create(code)
    BY <2>3, <2>5, <2>6 DEF Abstract!Create
  <2>. QED  BY <2>7 DEF Abstract!Next
<1>4. ASSUME NEW t \in Tasks, NEW code \in Codes, NEW attempt \in 0 .. MaxVersion,
             Begin(t, code, attempt)
      PROVE  [Abstract!Next]_(Abstract!vars)
  <2>1. task[t].at # "saved"
    BY <1>4 DEF Begin, Idle
  <2>2. UNCHANGED SavesTaken
    BY <1>4, <2>1, SameSaves DEF Begin
  <2>. QED  BY <1>1, <1>4, <2>2, SameVersions DEF Begin
<1>5. ASSUME NEW t \in Tasks, Look(t)  PROVE [Abstract!Next]_(Abstract!vars)
  <2>1. PICK state \in States : Become(t, state) /\ state.at \in {"idle", "evict", "write"}
    BY <1>5, LookOutcome
  <2>2. UNCHANGED SavesTaken
    BY <1>5, <2>1, SameSaves DEF Look
  <2>. QED  BY <1>1, <1>5, <2>2, SameVersions DEF Look
<1>6. ASSUME NEW t \in Tasks, Write(t)  PROVE [Abstract!Next]_(Abstract!vars)
  <2>0. PICK code \in Codes : code = task[t].code /\ task[t].at = "write"
    BY <1>6, WriteOutcome
  <2>1. UNCHANGED lives
    BY <1>6 DEF Write
  <2>2. CASE rooms' = rooms /\ Become(t, Idle)
    BY <1>0, <1>1, <2>0, <2>1, <2>2, SameSaves, SameVersions
  <2>3. CASE /\ code \in DOMAIN rooms
             /\ task[t].version = rooms[code].version + 1
             /\ task[t].version \in 1 .. MaxVersion
             /\ DOMAIN rooms' = DOMAIN rooms
             /\ rooms'[code] = Room(rooms[code].life, task[t].version, task[t].now)
             /\ \A c \in DOMAIN rooms \ {code} : rooms'[c] = rooms[c]
             /\ Become(t, Saved(task[t], rooms[code]))
    <3>1. RoomVersions[code] = rooms[code].version /\ RoomVersions[code] \in 1 .. MaxVersion - 1
      BY <1>0, <2>3 DEF RoomVersions
    <3>2. RoomVersions' = [RoomVersions EXCEPT ![code] = @ + 1]
      <4>1. rooms'[code].version = rooms[code].version + 1
        BY <2>3 DEF Room
      <4>2. RoomVersions'[code] = RoomVersions[code] + 1
        BY <2>3, <3>1, <4>1, VersionsAt
      <4>3. \A c \in Codes \ {code} : RoomVersions'[c] = RoomVersions[c]
        BY <2>3, VersionsAt
      <4>. QED  BY <4>2, <4>3, OneVersionChanges
    <3>3. SavesTaken[t] = [version |-> 0]
      BY <2>0 DEF SavesTaken
    <3>4. PICK state : /\ state = Saved(task[t], rooms[code]) /\ state.at = "saved"
                       /\ state.code = code /\ state.version = RoomVersions[code] + 1
                       /\ state.life = lives[code]
      BY <1>0, <2>0, <2>3, <3>1 DEF Saved
    <3>5. SavesTaken' = [SavesTaken EXCEPT ![t] =
             [code |-> code, life |-> lives[code], version |-> RoomVersions[code] + 1]]
      <4>1. /\ SavesTaken' = [SavesTaken EXCEPT ![t] = SavesTaken'[t]]
            /\ SavesTaken'[t] = [code |-> state.code, life |-> state.life, version |-> state.version]
        BY <2>3, <3>4, OtherSavesAlone
      <4>. QED  BY <3>4, <4>1
    <3>6. Abstract!Take(t, code)
      BY <2>1, <3>1, <3>2, <3>3, <3>5 DEF Abstract!Take, Abstract!Nothing, Abstract!Save
    <3>. QED  BY <3>6 DEF Abstract!Next
  <2>. QED  BY <1>6, <2>0, <2>2, <2>3, WriteOutcome
<1>7. ASSUME NEW t \in Tasks, Remove(t)  PROVE [Abstract!Next]_(Abstract!vars)
  <2>0. PICK code \in Codes : code = task[t].code /\ task[t].at = "evict"
    BY <1>7, RemoveOutcome
  <2>1. UNCHANGED lives
    BY <1>7 DEF Remove
  <2>2. CASE rooms' = rooms /\ Become(t, Idle)
    BY <1>0, <1>1, <2>0, <2>1, <2>2, SameSaves, SameVersions
  <2>3. CASE /\ code \in DOMAIN rooms
             /\ DOMAIN rooms' = DOMAIN rooms \ {code}
             /\ \A c \in DOMAIN rooms' : rooms'[c] = rooms[c]
             /\ Become(t, [task[t] EXCEPT !.at = "release"])
    <3>1. RoomVersions[code] # 0 /\ RoomVersions' = [RoomVersions EXCEPT ![code] = 0]
      <4>1. RoomVersions[code] # 0 /\ RoomVersions'[code] = 0
        BY <1>0, <2>3, VersionsAt
      <4>2. \A c \in Codes \ {code} : RoomVersions'[c] = RoomVersions[c]
        BY <2>3, VersionsAt
      <4>. QED  BY <4>1, <4>2, OneVersionChanges
    <3>2. [task[t] EXCEPT !.at = "release"].at = "release"
      <4>1. task[t] \in [at : {"look", "evict", "release"}, code : Codes,
                         now : Instants, version : 0 .. MaxVersion]
        BY <2>0, StateKinds DEF States, Idle
      <4>. QED  BY <4>1
    <3>3. UNCHANGED SavesTaken
      BY <2>0, <2>3, <3>2, SameSaves
    <3>4. Abstract!Expire(code)
      BY <2>1, <3>1, <3>3 DEF Abstract!Expire
    <3>. QED  BY <3>4 DEF Abstract!Next
  <2>. QED  BY <1>7, <2>0, <2>2, <2>3, RemoveOutcome
<1>8. ASSUME NEW t \in Tasks, Return(t)  PROVE Abstract!Next
  <2>1. SavesTaken[t] # [version |-> 0]
    <3>1. SavesTaken[t] = [code |-> task[t].code, life |-> task[t].life, version |-> task[t].version]
          /\ task[t].version \in 1 .. MaxVersion
      BY <1>8, StateKinds DEF Return, SavesTaken
    <3>2. SavesTaken[t].version # 0
      BY <3>1
    <3>. QED  BY <3>2
  <2>2. SavesTaken' = [SavesTaken EXCEPT ![t] = [version |-> 0]]
    BY <1>0, <1>8, OtherSavesAlone DEF Return
  <2>3. UNCHANGED <<lives, RoomVersions>>
    BY <1>8, SameVersions DEF Return
  <2>4. Abstract!Answer(t)
    BY <2>1, <2>2, <2>3 DEF Abstract!Answer, Abstract!Nothing
  <2>. QED  BY <2>4 DEF Abstract!Next
<1>9. ASSUME NEW t \in Tasks, Release(t) \/ Cancel(t)  PROVE [Abstract!Next]_(Abstract!vars)
  <2>1. Become(t, Idle) /\ task[t].at # "saved" /\ UNCHANGED <<rooms, lives>>
    BY <1>9 DEF Release, Cancel
  <2>. QED  BY <1>0, <1>1, <2>1, SameSaves, SameVersions
<1>10. CASE Tick \/ UNCHANGED vars
  <2>1. UNCHANGED <<rooms, lives, task>>
    BY <1>10 DEF Tick, vars
  <2>2. UNCHANGED SavesTaken
    BY <2>1 DEF SavesTaken
  <2>. QED  BY <1>1, <2>1, <2>2, SameVersions
<1>. QED
  BY <1>2, <1>3, <1>4, <1>5, <1>6, <1>7, <1>8, <1>9, <1>10 DEF Next

(* With its locks, and with operations that are dropped between them, the  *)
(* store is to its callers one that saves, creates and expires in single   *)
(* steps.                                                                  *)
THEOREM Implements == Spec => ImplementsRooms
<1>1. Init => Abstract!Init
  BY DEF Init, Idle, Abstract!Init, RoomVersions, SavesTaken, Abstract!Nothing
<1>2. IInv /\ [Next]_vars => [Abstract!Next]_(Abstract!vars)
  BY StepSimulation
<1>. QED  BY AlwaysIInv, <1>1, <1>2, PTL DEF Spec, ImplementsRooms, Abstract!Spec
=============================================================================
