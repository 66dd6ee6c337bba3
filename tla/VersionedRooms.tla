--------------------------- MODULE VersionedRooms ---------------------------
(***************************************************************************)
(* What the handlers of src/src/api.rs are promised by update() of either  *)
(* RoomStore, and what RoomSync and RoomLives take for granted: a save     *)
(* takes effect in one step, which gives the room that the code has at     *)
(* that moment its next version, and its answer names that step.  A code   *)
(* gets another room only when it has none.                                *)
(***************************************************************************)
EXTENDS Naturals

CONSTANTS
    Codes,      \* codes of rooms
    Callers,    \* whoever calls update()
    MaxVersion  \* the largest content version

VARIABLES
    lives,    \* lives[code] is the number of rooms that had the code so far
    version,  \* version[code] is the version of its room, 0 without one
    taken     \* the save of each caller that took effect, until it is answered

vars == <<lives, version, taken>>

Nothing == [version |-> 0]
Save(code, life, v) == [code |-> code, life |-> life, version |-> v]

Init ==
    /\ lives = [code \in Codes |-> 0]
    /\ version = [code \in Codes |-> 0]
    /\ taken = [c \in Callers |-> Nothing]

Create(code) ==
    /\ version[code] = 0
    /\ \E first \in 1 .. MaxVersion : version' = [version EXCEPT ![code] = first]
    /\ lives' = [lives EXCEPT ![code] = @ + 1]
    /\ UNCHANGED taken

Take(c, code) ==
    /\ taken[c] = Nothing
    /\ version[code] \in 1 .. MaxVersion - 1
    /\ version' = [version EXCEPT ![code] = @ + 1]
    /\ taken' = [taken EXCEPT ![c] = Save(code, lives[code], version[code] + 1)]
    /\ UNCHANGED lives

Answer(c) ==
    /\ taken[c] # Nothing
    /\ taken' = [taken EXCEPT ![c] = Nothing]
    /\ UNCHANGED <<lives, version>>

Expire(code) ==
    /\ version[code] # 0
    /\ version' = [version EXCEPT ![code] = 0]
    /\ UNCHANGED <<lives, taken>>

Next ==
    \/ \E code \in Codes : Create(code) \/ Expire(code)
    \/ \E c \in Callers : Answer(c) \/ \E code \in Codes : Take(c, code)

Spec == Init /\ [][Next]_vars
=============================================================================
