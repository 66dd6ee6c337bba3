---------------------------- MODULE LoginSessions ----------------------------
(***************************************************************************)
(* Finishing OPAQUE logins: finish_login of src/src/api.rs with            *)
(* put_login_state, take_login_state and put_session of either store.      *)
(* The state of a login that has started is kept under a random id for     *)
(* LOGIN_TTL and taken by the request that finishes it.  A browser, or     *)
(* what is between it and the server, may send that request again.         *)
(*                                                                         *)
(* MemoryRoomStore takes the state under one lock, RedisRoomStore with a   *)
(* GET and then a DEL, with other requests in between.  Servers that have  *)
(* Redis share the states and sessions, get their OPAQUE setup as in       *)
(* ServerSetup, and may crash and start again while logins are under way:  *)
(* each request of a login may reach another server.  A server with the    *)
(* store in memory is alone, and has nothing left when it ends.            *)
(***************************************************************************)
EXTENDS ServerSetup

CONSTANTS
    Logins,     \* login_session_ids
    Requests,   \* requests to finish a login
    LOGIN_TTL,  \* time the state of a login is kept
    LastTime    \* bound: the clock goes from 0 to LastTime

ASSUME LoginAssumption ==
    /\ LOGIN_TTL \in Nat \ {0}
    /\ LastTime \in Nat

VARIABLES
    store,    \* the store that servers are started with
    clock,    \* the clock of the server or of Redis
    unused,   \* logins that have not started yet
    states,   \* the login states in the store: expiry time, and the setup of the server
    request,  \* how far each request to finish is
    sessions, \* the requests that put a session
    finished  \* logins whose client was answered success

logins == <<clock, unused, states, sessions, finished>>
vars == <<setupVars, store, logins, request>>

NotSent == [at |-> "not sent"]
Ended == [at |-> "ended"]
Become(r, state) == request' = [request EXCEPT ![r] = state]
Goto(r, label) == request' = [request EXCEPT ![r].at = label]
Kept(l) == l \in DOMAIN states /\ states[l].expires > clock
Serving(s) == store = "memory" \/ server[s].at = "serving"
Without(l) == [m \in DOMAIN states \ {l} |-> states[m]]

-----------------------------------------------------------------------------
Init ==
    /\ SetupInit
    /\ store \in {"memory", "redis"}
    /\ clock = 0
    /\ unused = Logins
    /\ states = [l \in {} |-> [expires |-> 0, setup |-> 0]]
    /\ request = [r \in Requests |-> NotSent]
    /\ sessions = {}
    /\ finished = {}

(* start_login ends with put_login_state under an id that is new.          *)
StartLogin(l, s) ==
    /\ Serving(s)
    /\ l \in unused
    /\ unused' = unused \ {l}
    /\ states' = [m \in DOMAIN states \cup {l} |->
                    IF m = l THEN [expires |-> clock + LOGIN_TTL, setup |-> server[s].setup]
                    ELSE states[m]]
    /\ UNCHANGED <<setupVars, store, clock, request, sessions, finished>>

(* A request to finish l reaches server s; again says that l's client    *)
(* has been answered success by then.                                      *)
SendFinish(r, l, s) ==
    /\ Serving(s)
    /\ request[r] = NotSent
    /\ l \notin unused
    /\ Become(r, [at |-> "take", login |-> l, again |-> l \in finished, server |-> s])
    /\ UNCHANGED <<setupVars, store, logins>>

(* MemoryRoomStore::take_login_state.                                      *)
TakeKeepsState(r) ==
    /\ store = "memory" /\ request[r].at = "take"
    /\ IF Kept(request[r].login) THEN Goto(r, "finish") ELSE Become(r, Ended)
    /\ UNCHANGED <<setupVars, store, logins>>

Take(r) ==
    /\ store = "memory"
    /\ request[r].at = "take"
    /\ LET l == request[r].login
       IN  /\ states' = Without(l)
           /\ IF Kept(l) THEN Goto(r, "finish") ELSE Become(r, Ended)
    /\ UNCHANGED <<setupVars, store, clock, unused, sessions, finished>>

(* RedisRoomStore::take_login_state: GET, then DEL.                        *)
Get(r) ==
    /\ store = "redis"
    /\ request[r].at = "take"
    /\ Goto(r, IF Kept(request[r].login) THEN "delete" ELSE "delete nothing")
    /\ UNCHANGED <<setupVars, store, logins>>

DeleteForgotten(r) ==
    /\ request[r].at \in {"delete", "delete nothing"}
    /\ IF request[r].at = "delete" THEN Goto(r, "finish") ELSE Become(r, Ended)
    /\ UNCHANGED <<setupVars, store, logins>>

Delete(r) ==
    /\ request[r].at \in {"delete", "delete nothing"}
    /\ states' = Without(request[r].login)
    /\ IF request[r].at = "delete" THEN Goto(r, "finish") ELSE Become(r, Ended)
    /\ UNCHANGED <<setupVars, store, clock, unused, sessions, finished>>

(* The protocol rejects the client's message: the state is used up.        *)
Reject(r) ==
    /\ request[r].at = "finish"
    /\ Become(r, Ended)
    /\ UNCHANGED <<setupVars, store, logins>>

PutSession(r) ==
    /\ request[r].at = "finish"
    /\ sessions' = sessions \cup {r}
    /\ Goto(r, "answer")
    /\ UNCHANGED <<setupVars, store, clock, unused, states, finished>>

Answer(r) ==
    /\ request[r].at = "answer"
    /\ finished' = finished \cup {request[r].login}
    /\ Goto(r, "answered")
    /\ UNCHANGED <<setupVars, store, clock, unused, states, sessions>>

Working == {"take", "delete", "delete nothing", "finish", "answer"}

(* A command to Redis fails, or the client is gone: the request ends.      *)
Fail(r) ==
    /\ request[r].at \in Working
    /\ Goto(r, "failed")
    /\ UNCHANGED <<setupVars, store, logins>>

(* Time passes; Redis drops what has expired, the map keeps it until it is *)
(* taken.                                                                  *)
Tick ==
    /\ clock < LastTime
    /\ clock' = clock + 1
    /\ states' = IF store = "memory" THEN states
                 ELSE [l \in {m \in DOMAIN states : states[m].expires > clock'} |-> states[l]]
    /\ UNCHANGED <<setupVars, store, unused, request, sessions, finished>>

(* A server starts, or answers a registration.                             *)
ServerStep(s) ==
    /\ store = "redis"
    /\ Start(s) \/ GetSetup(s) \/ SetSetup(s) \/ GetSetupAgain(s) \/ Register(s)
    /\ UNCHANGED <<store, logins, request>>

(* With a server the requests that it works on end.                        *)
ServerCrash(s) ==
    /\ store = "redis"
    /\ Crash(s)
    /\ request' = [r \in Requests |->
                     IF request[r].at \in Working /\ request[r].server = s
                     THEN [request[r] EXCEPT !.at = "failed"] ELSE request[r]]
    /\ UNCHANGED <<store, logins>>

Next ==
    \/ \E s \in Servers :
         \/ ServerStep(s) \/ ServerCrash(s)
         \/ \E l \in Logins : StartLogin(l, s) \/ \E r \in Requests : SendFinish(r, l, s)
    \/ \E r \in Requests :
         \/ Take(r) \/ Get(r) \/ Delete(r)
         \/ Reject(r) \/ PutSession(r) \/ Answer(r) \/ Fail(r)
    \/ Tick

Spec == Init /\ [][Next]_vars

-----------------------------------------------------------------------------
(* A login that was answered success is over: a request to finish it that  *)
(* is sent after the answer opens no session, with either store.           *)
NoReuseAfterSuccess ==
    \A r \in sessions : ~request[r].again

(* Every room can be opened at every server: a login that has started at   *)
(* any server, and every server that serves, has the setup that all rooms  *)
(* were registered with, in whatever order servers start, race, crash and  *)
(* start again in between.                                                 *)
LoginsAnywhere ==
    \A setup \in registered :
        /\ \A s \in Servers : server[s].at = "serving" => server[s].setup = setup
        /\ \A l \in DOMAIN states : states[l].setup = setup

(* With the store in memory a login opens one session at most, however     *)
(* many requests to finish it are under way at a time.                     *)
OneSessionPerLogin ==
    store = "memory" =>
        \A r, s \in sessions : request[r].login = request[s].login => r = s
=============================================================================
