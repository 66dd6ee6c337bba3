----------------------------- MODULE ServerSetup -----------------------------
(***************************************************************************)
(* get_or_create_server_setup of src/src/store.rs: servers that start      *)
(* agree on one OPAQUE setup, kept in Redis, by GET, SETNX and GET.  Any   *)
(* of them may crash in between and start again.                           *)
(*                                                                         *)
(* A registration is made with the setup of the server that made it, and   *)
(* is kept with the room for as long as the room lives; a login to the     *)
(* room succeeds at a server that has the same setup.                      *)
(***************************************************************************)
EXTENDS Naturals

CONSTANTS
    Servers,    \* processes that are started with the same Redis
    MaxSetups   \* bound: at most that many setups are ever drawn

ASSUME SetupAssumption == MaxSetups \in Nat

VARIABLES
    drawn,       \* number of setups drawn so far; each one is different
    stored,      \* the setup under the key opaque:setup, 0 if there is none
    server,      \* what each server is at, and the setup it has, if any
    registered   \* the setups that registrations of rooms were made with

setupVars == <<drawn, stored, server, registered>>

Reaches(s, at, setup) == server' = [server EXCEPT ![s] = [at |-> at, setup |-> setup]]

-----------------------------------------------------------------------------
SetupInit ==
    /\ drawn = 0
    /\ stored = 0
    /\ server = [s \in Servers |-> [at |-> "down", setup |-> 0]]
    /\ registered = {}

Start(s) ==
    /\ server[s].at = "down"
    /\ Reaches(s, "get", 0)
    /\ UNCHANGED <<drawn, stored, registered>>

(* GET; without an answer new_server_setup() draws a setup.                *)
GetSetup(s) ==
    /\ server[s].at = "get"
    /\ \/ /\ stored # 0
          /\ Reaches(s, "serving", stored)
          /\ UNCHANGED drawn
       \/ /\ stored = 0
          /\ drawn < MaxSetups
          /\ drawn' = drawn + 1
          /\ Reaches(s, "set", drawn')
    /\ UNCHANGED <<stored, registered>>

(* SETNX *)
SetSetupOverwrites(s) ==
    /\ server[s].at = "set"
    /\ stored' = server[s].setup
    /\ Reaches(s, "serving", server[s].setup)
    /\ UNCHANGED <<drawn, registered>>

SetSetup(s) ==
    /\ server[s].at = "set"
    /\ \/ /\ stored = 0
          /\ stored' = server[s].setup
          /\ Reaches(s, "serving", server[s].setup)
       \/ /\ stored # 0
          /\ Reaches(s, "get again", 0)
          /\ UNCHANGED stored
    /\ UNCHANGED <<drawn, registered>>

(* The second GET, whose answer must not be missing.                       *)
GetSetupAgain(s) ==
    /\ server[s].at = "get again"
    /\ IF stored # 0 THEN Reaches(s, "serving", stored) ELSE Reaches(s, "down", 0)
    /\ UNCHANGED <<drawn, stored, registered>>

(* A server crashes, or a command to Redis fails, which ends it.           *)
Crash(s) ==
    /\ server[s].at # "down"
    /\ Reaches(s, "down", 0)
    /\ UNCHANGED <<drawn, stored, registered>>

(* A room is created with a registration that the server has answered.     *)
Register(s) ==
    /\ server[s].at = "serving"
    /\ registered' = registered \cup {server[s].setup}
    /\ UNCHANGED <<drawn, stored, server>>

SetupNext ==
    \E s \in Servers :
        \/ Start(s) \/ GetSetup(s) \/ SetSetup(s) \/ GetSetupAgain(s) \/ Crash(s) \/ Register(s)

=============================================================================
