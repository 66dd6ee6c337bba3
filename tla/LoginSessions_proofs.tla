------------------------- MODULE LoginSessions_proofs -------------------------
(***************************************************************************)
(* The safety of LoginSessions for any number of servers, logins and       *)
(* requests.                                                               *)
(*                                                                         *)
(* A request that gets on has removed the state of its login, which never  *)
(* comes back since its id is not new (StateGone); a request that was sent *)
(* after a success therefore never gets on (LateRequests).  Taking the     *)
(* state under one lock makes requests that got on exclude each other      *)
(* (OneTaker); with GET and DEL they do not, so OneTaker speaks of         *)
(* MemoryRoomStore only.                                                   *)
(*                                                                         *)
(* All servers use one OPAQUE setup: once the key is set, no SETNX changes *)
(* it; whatever serves, was registered or is kept with a login has the     *)
(* setup under the key (OneSetup, which every step of ServerSetup keeps,   *)
(* and OneSetupForLogins).                                                 *)
(***************************************************************************)
EXTENDS LoginSessions, TLAPS

-----------------------------------------------------------------------------
(* The setup of the servers.                                               *)
Starting == {"down", "get", "get again"}

OneSetup ==
    /\ drawn \in Nat /\ stored \in Nat
    /\ server \in [Servers -> [at : Starting \cup {"set", "serving"}, setup : Nat]]
    /\ \A s \in Servers :
         /\ server[s].at = "set" => server[s].setup # 0
         /\ server[s].at = "serving" => server[s].setup = stored /\ stored # 0
    /\ registered \subseteq {stored} \ {0}

(* The one server that takes a step, and the others. *)
LEMMA OthersAlone ==
    ASSUME OneSetup, NEW s \in Servers, NEW at \in Starting \cup {"set", "serving"},
           NEW setup \in Nat, Reaches(s, at, setup)
    PROVE  /\ server' \in [Servers -> [at : Starting \cup {"set", "serving"}, setup : Nat]]
           /\ server'[s].at = at /\ server'[s].setup = setup
           /\ \A t \in Servers \ {s} : server'[t] = server[t]
  BY DEF OneSetup, Reaches

LEMMA InitOneSetup == SetupInit => OneSetup
  BY DEF SetupInit, OneSetup, Starting

LEMMA NextOneSetup == OneSetup /\ [SetupNext]_setupVars => OneSetup'
<1> SUFFICES ASSUME OneSetup, [SetupNext]_setupVars PROVE OneSetup'
  OBVIOUS
<1>1. ASSUME NEW s \in Servers, NEW at \in Starting, Reaches(s, at, 0),
             UNCHANGED <<drawn, stored, registered>>
      PROVE  OneSetup'
  <2>1. /\ server' \in [Servers -> [at : Starting \cup {"set", "serving"}, setup : Nat]]
        /\ server'[s].at = at /\ server'[s].setup = 0
        /\ \A t \in Servers \ {s} : server'[t] = server[t]
    BY <1>1, OthersAlone
  <2>. QED  BY <1>1, <2>1 DEF OneSetup, Starting
<1>2. ASSUME NEW s \in Servers, Reaches(s, "serving", stored), stored # 0,
             UNCHANGED <<drawn, stored, registered>>
      PROVE  OneSetup'
  <2>1. PICK setup \in Nat : setup = stored
    BY DEF OneSetup
  <2>2. /\ server' \in [Servers -> [at : Starting \cup {"set", "serving"}, setup : Nat]]
        /\ server'[s].at = "serving" /\ server'[s].setup = stored
        /\ \A t \in Servers \ {s} : server'[t] = server[t]
    BY <1>2, <2>1, OthersAlone
  <2>. QED  BY <1>2, <2>2 DEF OneSetup
<1>3. ASSUME NEW s \in Servers, Start(s) \/ Crash(s)  PROVE OneSetup'
  BY <1>1, <1>3 DEF Start, Crash, Starting
<1>4. ASSUME NEW s \in Servers, GetSetup(s)  PROVE OneSetup'
  <2>1. CASE drawn' = drawn + 1 /\ Reaches(s, "set", drawn')
    <3>1. PICK new \in Nat : new = drawn + 1 /\ new # 0
      BY DEF OneSetup
    <3>2. Reaches(s, "set", new)
      BY <2>1, <3>1
    <3>3. /\ server' \in [Servers -> [at : Starting \cup {"set", "serving"}, setup : Nat]]
          /\ server'[s].at = "set" /\ server'[s].setup = new
          /\ \A t \in Servers \ {s} : server'[t] = server[t]
      BY <3>2, OthersAlone
    <3>. QED  BY <1>4, <2>1, <3>1, <3>3 DEF GetSetup, OneSetup
  <2>. QED  BY <1>2, <1>4, <2>1 DEF GetSetup
<1>5. ASSUME NEW s \in Servers, SetSetup(s)  PROVE OneSetup'
  <2>1. CASE stored = 0 /\ stored' = server[s].setup /\ Reaches(s, "serving", server[s].setup)
    <3>1. server[s].setup \in Nat /\ server[s].setup # 0
      BY <1>5 DEF SetSetup, OneSetup
    <3>2. /\ server' \in [Servers -> [at : Starting \cup {"set", "serving"}, setup : Nat]]
          /\ server'[s].at = "serving" /\ server'[s].setup = server[s].setup
          /\ \A t \in Servers \ {s} : server'[t] = server[t]
      BY <2>1, <3>1, OthersAlone
    <3>3. registered = {} /\ \A t \in Servers : server[t].at # "serving"
      BY <2>1 DEF OneSetup
    <3>. QED  BY <1>5, <2>1, <3>1, <3>2, <3>3 DEF SetSetup, OneSetup
  <2>. QED  BY <1>1, <1>5, <2>1 DEF SetSetup, Starting
<1>6. ASSUME NEW s \in Servers, GetSetupAgain(s)  PROVE OneSetup'
  BY <1>1, <1>2, <1>6 DEF GetSetupAgain, Starting
<1>7. ASSUME NEW s \in Servers, Register(s)  PROVE OneSetup'
  BY <1>7 DEF Register, OneSetup
<1>8. CASE UNCHANGED setupVars
  BY <1>8 DEF setupVars, OneSetup
<1>. QED  BY <1>3, <1>4, <1>5, <1>6, <1>7, <1>8 DEF SetupNext

-----------------------------------------------------------------------------
Stages == {"take", "delete", "delete nothing", "finish", "answer", "answered", "failed"}

Sent == [at : Stages, login : Logins, again : BOOLEAN, server : Servers]

TypeOK ==
    /\ unused \subseteq Logins
    /\ DOMAIN states \subseteq Logins
    /\ request \in [Requests -> {NotSent, Ended} \cup Sent]
    /\ sessions \subseteq Requests
    /\ \A r \in sessions : request[r].at \in {"answer", "answered", "failed"}
    /\ store \in {"memory", "redis"}
    /\ store = "memory" => \A r \in Requests : request[r].at \notin {"delete", "delete nothing"}

Took(r) == request[r].at \in {"finish", "answer", "answered"} \/ r \in sessions

StateGone ==
    /\ \A r \in Requests :
         /\ request[r].at \in Stages => request[r].login \notin unused
         /\ Took(r) => request[r].login \notin DOMAIN states
    /\ \A l \in finished : l \notin unused /\ l \notin DOMAIN states

LateRequests ==
    \A r \in Requests :
        /\ request[r].at \in Stages /\ request[r].again => request[r].login \in finished
        /\ request[r].at = "delete" \/ Took(r) => ~request[r].again

OneTaker ==
    store = "memory" =>
      \A r, s \in Requests : Took(r) /\ Took(s) /\ request[r].login = request[s].login => r = s

-----------------------------------------------------------------------------
LEMMA SentFields ==
    ASSUME TypeOK, NEW r \in Requests, request[r].at \in Stages
    PROVE  /\ request[r] \in Sent
           /\ request[r].login \in Logins /\ request[r].again \in BOOLEAN
<1>1. request[r] \in {NotSent, Ended} \cup Sent
  BY DEF TypeOK
<1>2. NotSent.at \notin Stages /\ Ended.at \notin Stages
  BY DEF NotSent, Ended, Stages
<1>3. request[r] \in Sent
  BY <1>1, <1>2
<1>. QED  BY <1>3 DEF Sent

(* A step of one request leaves the others alone. *)
LEMMA MovesOn ==
    ASSUME TypeOK, NEW r \in Requests, request[r].at \in Stages, NEW label \in Stages,
           Goto(r, label)
    PROVE  /\ request' \in [Requests -> {NotSent, Ended} \cup Sent]
           /\ request'[r].at = label
           /\ request'[r].login = request[r].login /\ request'[r].again = request[r].again
           /\ \A s \in Requests \ {r} : request'[s] = request[s]
<1>1. request[r] \in Sent
  BY SentFields
<1>2. PICK q \in Sent : q = [request[r] EXCEPT !.at = label]
  BY <1>1 DEF Sent
<1>3. q.at = label /\ q.login = request[r].login /\ q.again = request[r].again
  BY <1>1, <1>2 DEF Sent
<1>4. request' = [request EXCEPT ![r] = q]
  BY <1>2 DEF Goto
<1>. QED  BY <1>3, <1>4 DEF TypeOK

LEMMA Ends ==
    ASSUME TypeOK, NEW r \in Requests, Become(r, Ended)
    PROVE  /\ request' \in [Requests -> {NotSent, Ended} \cup Sent]
           /\ request'[r].at = "ended"
           /\ \A s \in Requests \ {r} : request'[s] = request[s]
  BY DEF TypeOK, Become, Ended

Safe == TypeOK /\ StateGone /\ LateRequests

(* A request ends, and states are only removed. *)
LEMMA EndKeeps ==
    ASSUME Safe, NEW r \in Requests, r \notin sessions, Become(r, Ended),
           DOMAIN states' \subseteq DOMAIN states, UNCHANGED <<store, unused, sessions, finished>>
    PROVE  Safe' /\ (OneTaker => OneTaker')
<1>1. /\ request' \in [Requests -> {NotSent, Ended} \cup Sent]
      /\ request'[r].at = "ended"
      /\ \A s \in Requests \ {r} : request'[s] = request[s]
  BY Ends DEF Safe
<1>2. \A s \in Requests : Took(s)' => s # r /\ Took(s)
  BY <1>1 DEF Took
<1>3. TypeOK'
  BY <1>1 DEF Safe, TypeOK
<1>4. StateGone'
  BY <1>1, <1>2 DEF Safe, StateGone, Stages
<1>5. LateRequests'
  BY <1>1, <1>2 DEF Safe, LateRequests, Stages
<1>6. OneTaker => OneTaker'
  BY <1>1, <1>2 DEF OneTaker
<1>. QED  BY <1>3, <1>4, <1>5, <1>6 DEF Safe

(* A request moves on and nobody takes anything new. *)
LEMMA MoveKeeps ==
    ASSUME Safe, NEW r \in Requests, request[r].at \in Stages, NEW label \in Stages, Goto(r, label),
           sessions' \subseteq Requests, sessions \subseteq sessions', sessions' \subseteq sessions \cup {r},
           r \in sessions' => label \in {"answer", "answered", "failed"},
           store = "memory" => label \notin {"delete", "delete nothing"},
           label = "delete" => ~request[r].again,
           label \in {"finish", "answer", "answered"} \/ r \in sessions' =>
             Took(r) \/ (~request[r].again /\ request[r].login \notin DOMAIN states'),
           DOMAIN states' \subseteq DOMAIN states, UNCHANGED <<store, unused>>,
           finished \subseteq finished', finished' \subseteq finished \cup {request[r].login},
           finished' = finished \/ Took(r)
    PROVE  Safe'
<1>1. /\ request' \in [Requests -> {NotSent, Ended} \cup Sent]
      /\ request'[r].at = label
      /\ request'[r].login = request[r].login /\ request'[r].again = request[r].again
      /\ \A s \in Requests \ {r} : request'[s] = request[s]
  BY MovesOn DEF Safe
<1>2. \A s \in Requests \ {r} : Took(s)' <=> Took(s)
  BY <1>1 DEF Took
<1>3. Took(r)' => Took(r) \/ (~request[r].again /\ request[r].login \notin DOMAIN states')
  BY <1>1 DEF Took
<1>4. TypeOK'
  BY <1>1 DEF Safe, TypeOK
<1>5. StateGone'
  BY <1>1, <1>2, <1>3 DEF Safe, StateGone
<1>6. LateRequests'
  BY <1>1, <1>2, <1>3 DEF Safe, LateRequests
<1>. QED  BY <1>4, <1>5, <1>6 DEF Safe

(* If it had taken the state before, nobody else has it. *)
LEMMA MoveKeepsOneTaker ==
    ASSUME Safe, OneTaker, NEW r \in Requests, request[r].at \in Stages, NEW label \in Stages,
           Goto(r, label), UNCHANGED store, sessions \subseteq sessions', sessions' \subseteq sessions \cup {r},
           label \in {"finish", "answer", "answered"} \/ r \in sessions' =>
             Took(r) \/ request[r].login \in DOMAIN states
    PROVE  OneTaker'
<1>1. /\ request'[r].at = label
      /\ request'[r].login = request[r].login
      /\ \A s \in Requests \ {r} : request'[s] = request[s]
  BY MovesOn DEF Safe
<1>2. \A s \in Requests \ {r} : Took(s)' <=> Took(s)
  BY <1>1 DEF Took
<1>3. Took(r)' => Took(r) \/ request[r].login \in DOMAIN states
  BY <1>1 DEF Took
<1>4. \A s \in Requests : Took(s) => request[s].login \notin DOMAIN states
  BY DEF Safe, StateGone
<1>. QED  BY <1>1, <1>2, <1>3, <1>4 DEF OneTaker

LEMMA WithoutLogin ==
    ASSUME NEW l, states' = Without(l)
    PROVE  l \notin DOMAIN states' /\ DOMAIN states' \subseteq DOMAIN states
  BY DEF Without

-----------------------------------------------------------------------------
LEMMA InitSafe == Init => Safe /\ OneTaker
<1> SUFFICES ASSUME Init PROVE Safe /\ OneTaker
  OBVIOUS
<1>1. \A r \in Requests : request[r] = NotSent /\ request[r].at = "not sent" /\ ~Took(r)
  BY DEF Init, NotSent, Took
<1>2. TypeOK
  <2>1. request \in [Requests -> {NotSent, Ended} \cup Sent]
    BY DEF Init
  <2>. QED  BY <1>1, <2>1 DEF Init, TypeOK
<1>. QED  BY <1>1, <1>2 DEF Init, Safe, StateGone, LateRequests, OneTaker, Stages

LEMMA NextSafe ==
    ASSUME Safe, [Next]_vars
    PROVE  Safe' /\ (OneTaker => OneTaker')
<1> USE DEF Stages
<1>0. \A r \in Requests : r \in sessions => request[r].at \in {"answer", "answered", "failed"}
  BY DEF Safe, TypeOK
<1>1. ASSUME NEW s \in Servers, NEW l \in Logins, StartLogin(l, s)  PROVE Safe' /\ (OneTaker => OneTaker')
  <2>1. /\ l \in unused /\ unused' = unused \ {l} /\ DOMAIN states' = DOMAIN states \cup {l}
        /\ UNCHANGED <<store, request, sessions, finished>>
    BY <1>1 DEF StartLogin
  <2>2. \A r \in Requests : (Took(r)' <=> Took(r)) /\ (Took(r) => request[r].at \in Stages)
    BY <1>0, <2>1 DEF Took
  <2>3. TypeOK'
    BY <2>1 DEF Safe, TypeOK
  <2>4. StateGone'
    BY <2>1, <2>2 DEF Safe, StateGone
  <2>5. LateRequests' /\ (OneTaker => OneTaker')
    BY <2>1, <2>2 DEF Safe, LateRequests, OneTaker
  <2>. QED  BY <2>3, <2>4, <2>5 DEF Safe
<1>2. ASSUME NEW r \in Requests, NEW l \in Logins, NEW at \in Servers, SendFinish(r, l, at)
      PROVE  Safe' /\ (OneTaker => OneTaker')
  <2>0. PICK again \in BOOLEAN : again = (l \in finished)
    <3>1. CASE l \in finished
      <4>1. TRUE = (l \in finished)
        BY <3>1
      <4>. QED  BY <4>1
    <3>2. CASE l \notin finished
      <4>1. FALSE = (l \in finished)
        BY <3>2
      <4>. QED  BY <4>1
    <3>. QED  BY <3>1, <3>2
  <2>1. PICK q \in Sent : q = [at |-> "take", login |-> l, again |-> again, server |-> at]
    BY DEF Sent
  <2>2. q.at = "take" /\ q.login = l /\ (q.again <=> l \in finished)
    BY <2>0, <2>1
  <2>3. /\ request' = [request EXCEPT ![r] = q] /\ request[r].at = "not sent" /\ l \notin unused
        /\ UNCHANGED <<store, unused, states, sessions, finished>>
    <3>1. [at |-> "take", login |-> l, again |-> l \in finished, server |-> at] = q
      BY <2>0, <2>1
    <3>2. request' = [request EXCEPT ![r] =
             [at |-> "take", login |-> l, again |-> l \in finished, server |-> at]]
      BY <1>2 DEF SendFinish, Become
    <3>3. request' = [request EXCEPT ![r] = q]
      BY <3>1, <3>2
    <3>4. request[r].at = "not sent"
      <4>1. request[r] = NotSent
        BY <1>2 DEF SendFinish, logins
      <4>2. NotSent.at = "not sent"
        BY DEF NotSent
      <4>. QED  BY <4>1, <4>2
    <3>. QED  BY <1>2, <3>3, <3>4 DEF SendFinish, logins
  <2>4. /\ request' \in [Requests -> {NotSent, Ended} \cup Sent]
        /\ request'[r] = q /\ \A s \in Requests \ {r} : request'[s] = request[s]
    BY <2>3 DEF Safe, TypeOK
  <2>5. r \notin sessions
    BY <1>0, <2>3
  <2>6. \A s \in Requests : Took(s)' => s # r /\ Took(s)
    BY <2>2, <2>3, <2>4, <2>5 DEF Took
  <2>7. TypeOK'
    <3>1. \A s \in sessions : request'[s].at \in {"answer", "answered", "failed"}
      BY <2>4, <2>5 DEF Safe, TypeOK
    <3>2. store = "memory" => \A s \in Requests : request'[s].at \notin {"delete", "delete nothing"}
      BY <2>2, <2>4 DEF Safe, TypeOK
    <3>. QED  BY <2>3, <2>4, <3>1, <3>2 DEF Safe, TypeOK
  <2>8. StateGone'
    BY <2>2, <2>3, <2>4, <2>6 DEF Safe, StateGone
  <2>9. LateRequests'
    BY <2>2, <2>3, <2>4, <2>6 DEF Safe, LateRequests
  <2>10. OneTaker => OneTaker'
    BY <2>3, <2>4, <2>6 DEF OneTaker
  <2>. QED  BY <2>7, <2>8, <2>9, <2>10 DEF Safe
<1>3. ASSUME NEW r \in Requests, Take(r)  PROVE Safe' /\ (OneTaker => OneTaker')
  <2>1. /\ request[r].at = "take" /\ r \notin sessions
        /\ states' = Without(request[r].login) /\ UNCHANGED <<store, unused, sessions, finished>>
    BY <1>0, <1>3 DEF Take
  <2>2. request[r].login \notin DOMAIN states' /\ DOMAIN states' \subseteq DOMAIN states
    BY <2>1, WithoutLogin
  <2>3. CASE Become(r, Ended)
    BY <2>1, <2>2, <2>3, EndKeeps
  <2>4. CASE Kept(request[r].login) /\ Goto(r, "finish")
    <3>1. request[r].login \in DOMAIN states
      BY <2>4 DEF Kept
    <3>2. ~request[r].again
      BY <2>1, <3>1 DEF Safe, StateGone, LateRequests
    <3>3. Safe'
      BY <2>1, <2>2, <2>4, <3>2, MoveKeeps DEF Safe, TypeOK
    <3>. QED  BY <2>1, <2>4, <3>1, <3>3, MoveKeepsOneTaker
  <2>. QED  BY <1>3, <2>3, <2>4 DEF Take
<1>4. ASSUME NEW r \in Requests, Get(r)  PROVE Safe' /\ (OneTaker => OneTaker')
  <2>1. /\ request[r].at = "take" /\ r \notin sessions /\ store = "redis"
        /\ UNCHANGED <<store, unused, states, sessions, finished>>
    BY <1>0, <1>4 DEF Get, logins
  <2>2. OneTaker'
    BY <2>1 DEF OneTaker
  <2>3. CASE Kept(request[r].login) /\ Goto(r, "delete")
    <3>1. ~request[r].again
      BY <2>1, <2>3 DEF Safe, StateGone, LateRequests, Kept
    <3>2. Safe'
      BY <2>1, <2>3, <3>1, MoveKeeps DEF Safe, TypeOK
    <3>. QED  BY <2>2, <3>2
  <2>4. CASE Goto(r, "delete nothing")
    <3>1. Safe'
      BY <2>1, <2>4, MoveKeeps DEF Safe, TypeOK
    <3>. QED  BY <2>2, <3>1
  <2>. QED  BY <1>4, <2>3, <2>4 DEF Get, logins
<1>5. ASSUME NEW r \in Requests, Delete(r)  PROVE Safe' /\ (OneTaker => OneTaker')
  <2>1. /\ request[r].at \in {"delete", "delete nothing"} /\ r \notin sessions /\ store = "redis"
        /\ states' = Without(request[r].login) /\ UNCHANGED <<store, unused, sessions, finished>>
    BY <1>0, <1>5 DEF Delete, Safe, TypeOK
  <2>2. request[r].login \notin DOMAIN states' /\ DOMAIN states' \subseteq DOMAIN states
    BY <2>1, WithoutLogin
  <2>3. OneTaker'
    BY <2>1 DEF OneTaker
  <2>4. CASE Become(r, Ended)
    BY <2>1, <2>2, <2>4, EndKeeps
  <2>5. CASE request[r].at = "delete" /\ Goto(r, "finish")
    <3>1. ~request[r].again
      BY <2>5 DEF Safe, LateRequests
    <3>2. Safe'
      BY <2>1, <2>2, <2>5, <3>1, MoveKeeps DEF Safe, TypeOK
    <3>. QED  BY <2>3, <3>2
  <2>. QED  BY <1>5, <2>1, <2>4, <2>5 DEF Delete
<1>6. ASSUME NEW r \in Requests, Reject(r)  PROVE Safe' /\ (OneTaker => OneTaker')
  <2>1. r \notin sessions /\ Become(r, Ended) /\ UNCHANGED <<store, unused, states, sessions, finished>>
    BY <1>0, <1>6 DEF Reject, logins
  <2>. QED  BY <2>1, EndKeeps
<1>7. ASSUME NEW r \in Requests, PutSession(r)  PROVE Safe' /\ (OneTaker => OneTaker')
  <2>1. /\ request[r].at = "finish" /\ Goto(r, "answer") /\ sessions' = sessions \cup {r}
        /\ UNCHANGED <<store, unused, states, finished>>
    BY <1>7 DEF PutSession
  <2>2. Took(r)
    BY <2>1 DEF Took
  <2>3. Safe'
    BY <2>1, <2>2, MoveKeeps DEF Safe, TypeOK
  <2>. QED  BY <2>1, <2>2, <2>3, MoveKeepsOneTaker
<1>8. ASSUME NEW r \in Requests, Answer(r)  PROVE Safe' /\ (OneTaker => OneTaker')
  <2>1. /\ request[r].at = "answer" /\ Goto(r, "answered")
        /\ finished' = finished \cup {request[r].login} /\ UNCHANGED <<store, unused, states, sessions>>
    BY <1>8 DEF Answer
  <2>2. Took(r)
    BY <2>1 DEF Took
  <2>3. Safe'
    BY <2>1, <2>2, MoveKeeps DEF Safe, TypeOK
  <2>. QED  BY <2>1, <2>2, <2>3, MoveKeepsOneTaker
<1>9. ASSUME NEW r \in Requests, Fail(r)  PROVE Safe' /\ (OneTaker => OneTaker')
  <2>1. /\ request[r].at \in Stages /\ Goto(r, "failed")
        /\ UNCHANGED <<store, unused, states, sessions, finished>>
    BY <1>9 DEF Fail, Working, logins
  <2>2. r \in sessions => Took(r)
    BY DEF Took
  <2>3. Safe'
    BY <2>1, <2>2, MoveKeeps DEF Safe, TypeOK
  <2>. QED  BY <2>1, <2>2, <2>3, MoveKeepsOneTaker
<1>10. CASE Tick
  <2>1. /\ DOMAIN states' \subseteq DOMAIN states
        /\ UNCHANGED <<store, unused, request, sessions, finished>>
    BY <1>10 DEF Tick
  <2>. QED  BY <2>1 DEF Safe, TypeOK, StateGone, LateRequests, OneTaker, Took
<1>11. CASE UNCHANGED <<store, logins, request>>
  BY <1>11 DEF logins, Safe, TypeOK, StateGone, LateRequests, OneTaker, Took
<1>12. ASSUME NEW s \in Servers, ServerStep(s)  PROVE Safe' /\ (OneTaker => OneTaker')
  BY <1>11, <1>12 DEF ServerStep
<1>13. ASSUME NEW s \in Servers, ServerCrash(s)  PROVE Safe' /\ (OneTaker => OneTaker')
  <2>1. ASSUME NEW r \in Requests
        PROVE  \/ request'[r] = request[r]
               \/ /\ request[r].at \in Working
                  /\ request'[r] \in Sent /\ request'[r].at = "failed"
                  /\ request'[r].login = request[r].login /\ request'[r].again = request[r].again
    <3>1. CASE request[r].at \in Working /\ request[r].server = s
      <4>1. request'[r] = [request[r] EXCEPT !.at = "failed"]
        BY <1>13, <3>1 DEF ServerCrash
      <4>2. request[r] \in Sent
        BY <3>1, SentFields DEF Safe, Working
      <4>. QED  BY <3>1, <4>1, <4>2 DEF Sent
    <3>2. CASE ~(request[r].at \in Working /\ request[r].server = s)
      BY <1>13, <3>2 DEF ServerCrash
    <3>. QED  BY <3>1, <3>2
  <2>2. UNCHANGED <<store, unused, states, sessions, finished>>
    BY <1>13 DEF ServerCrash, logins
  <2>3. request' \in [Requests -> {NotSent, Ended} \cup Sent]
    <3>1. \A r \in Requests : request'[r] \in {NotSent, Ended} \cup Sent
      BY <2>1 DEF Safe, TypeOK
    <3>2. request' = [r \in Requests |-> request'[r]]
      BY <1>13 DEF ServerCrash
    <3>. QED  BY <3>1, <3>2
  <2>4. \A r \in Requests : Took(r)' => Took(r)
    BY <2>1, <2>2 DEF Took
  <2>5. \A r \in Requests : request'[r].at \in Stages =>
           /\ request[r].at \in Stages
           /\ request'[r].login = request[r].login /\ request'[r].again = request[r].again
    BY <2>1 DEF Working
  <2>6. TypeOK'
    <3>1. \A r \in sessions : request'[r].at \in {"answer", "answered", "failed"}
      BY <2>1 DEF Safe, TypeOK
    <3>2. store = "memory" => \A r \in Requests : request'[r].at \notin {"delete", "delete nothing"}
      BY <2>1 DEF Safe, TypeOK
    <3>. QED  BY <2>2, <2>3, <3>1, <3>2 DEF Safe, TypeOK
  <2>7. \A r \in Requests : Took(r)' => request'[r].login = request[r].login
                                       /\ request'[r].again = request[r].again
    BY <2>1
  <2>8. StateGone'
    BY <2>2, <2>4, <2>5, <2>7 DEF Safe, StateGone
  <2>9. LateRequests'
    <3>1. \A r \in Requests : request'[r].at = "delete" => request'[r] = request[r]
      BY <2>1
    <3>. QED  BY <2>2, <2>4, <2>5, <2>7, <3>1 DEF Safe, LateRequests
  <2>10. OneTaker => OneTaker'
    BY <2>2, <2>4, <2>7 DEF OneTaker
  <2>. QED  BY <2>6, <2>8, <2>9, <2>10 DEF Safe
<1>14. CASE UNCHANGED vars
  BY <1>11, <1>14 DEF vars
<1>. QED
  BY <1>1, <1>2, <1>3, <1>4, <1>5, <1>6, <1>7, <1>8, <1>9, <1>10, <1>12, <1>13, <1>14 DEF Next

(* With either store, a request to finish a login that was sent after the  *)
(* login had succeeded opens no session.                                   *)
THEOREM NoReuseAlways == Spec => []NoReuseAfterSuccess
<1>1. Safe /\ [Next]_vars => Safe'
  BY NextSafe
<1>2. Safe => NoReuseAfterSuccess
  BY DEF Safe, TypeOK, LateRequests, Took, NoReuseAfterSuccess
<1>. QED  BY InitSafe, <1>1, <1>2, PTL DEF Spec

(* MemoryRoomStore lets a login open one session at most.                  *)
THEOREM OneSessionAlways == Spec => []OneSessionPerLogin
<1>1. (Safe /\ OneTaker) /\ [Next]_vars => (Safe /\ OneTaker)'
  BY NextSafe
<1>2. Safe /\ OneTaker => OneSessionPerLogin
  BY DEF Safe, TypeOK, OneTaker, Took, OneSessionPerLogin
<1>. QED  BY InitSafe, <1>1, <1>2, PTL DEF Spec

-----------------------------------------------------------------------------
(* A login keeps the setup of the server where it has started, whichever   *)
(* server finishes it.                                                     *)
OneSetupForLogins ==
    /\ OneSetup
    /\ store \in {"memory", "redis"}
    /\ store = "memory" => registered = {}
    /\ store = "redis" => \A l \in DOMAIN states : states[l].setup = stored /\ stored # 0

(* No step changes a setup that is stored.                                 *)
LEMMA SetupStays == OneSetup /\ [SetupNext]_setupVars /\ stored # 0 => stored' = stored
  BY DEF SetupNext, Start, GetSetup, SetSetup, GetSetupAgain, Crash, Register, setupVars

(* The states that a step leaves are states from before it. *)
OldStates == \A l \in DOMAIN states' : l \in DOMAIN states /\ states'[l] = states[l]

LEMMA OldStatesKeep ==
    ASSUME OneSetupForLogins, [SetupNext]_setupVars, OldStates, UNCHANGED store,
           store = "memory" => UNCHANGED setupVars
    PROVE  OneSetupForLogins'
<1>1. OneSetup'
  BY NextOneSetup DEF OneSetupForLogins
<1>2. stored # 0 => stored' = stored
  BY SetupStays DEF OneSetupForLogins
<1>3. store = "memory" => registered' = {}
  BY DEF OneSetupForLogins, setupVars
<1>4. store = "redis" => \A l \in DOMAIN states' : states'[l].setup = stored' /\ stored' # 0
  BY <1>2 DEF OneSetupForLogins, OldStates
<1>. QED  BY <1>1, <1>3, <1>4 DEF OneSetupForLogins

LEMMA NextOneSetupForLogins == OneSetupForLogins /\ [Next]_vars => OneSetupForLogins'
<1> SUFFICES ASSUME OneSetupForLogins, [Next]_vars PROVE OneSetupForLogins'
  OBVIOUS
<1>1. ASSUME NEW s \in Servers, NEW l \in Logins, StartLogin(l, s)  PROVE OneSetupForLogins'
  <2>1. /\ DOMAIN states' = DOMAIN states \cup {l}
        /\ states'[l].setup = server[s].setup
        /\ \A m \in DOMAIN states : m # l => states'[m] = states[m]
        /\ Serving(s) /\ UNCHANGED <<setupVars, store>>
    BY <1>1 DEF StartLogin
  <2>2. OneSetup'
    BY <2>1, NextOneSetup DEF OneSetupForLogins
  <2>3. store = "redis" => server[s].setup = stored /\ stored # 0
    BY <2>1 DEF Serving, OneSetupForLogins, OneSetup
  <2>4. stored' = stored /\ registered' = registered
    BY <2>1 DEF setupVars
  <2>5. store = "redis" => \A m \in DOMAIN states' : states'[m].setup = stored' /\ stored' # 0
    BY <2>1, <2>3, <2>4 DEF OneSetupForLogins
  <2>. QED  BY <2>1, <2>2, <2>4, <2>5 DEF OneSetupForLogins
<1>2. ASSUME NEW r \in Requests,
             Take(r) \/ Get(r) \/ Delete(r) \/ Reject(r) \/ PutSession(r) \/ Answer(r) \/ Fail(r)
      PROVE  OneSetupForLogins'
  <2>1. OldStates /\ UNCHANGED <<setupVars, store>>
    BY <1>2 DEF Take, Get, Delete, Reject, PutSession, Answer, Fail, OldStates, Without, logins
  <2>. QED  BY <2>1, OldStatesKeep
<1>3. ASSUME NEW r \in Requests, NEW l \in Logins, NEW s \in Servers, SendFinish(r, l, s)
      PROVE  OneSetupForLogins'
  <2>1. OldStates /\ UNCHANGED <<setupVars, store>>
    BY <1>3 DEF SendFinish, OldStates, logins
  <2>. QED  BY <2>1, OldStatesKeep
<1>4. CASE Tick
  <2>1. OldStates /\ UNCHANGED <<setupVars, store>>
    BY <1>4 DEF Tick, OldStates
  <2>. QED  BY <2>1, OldStatesKeep
<1>5. ASSUME NEW s \in Servers, ServerStep(s) \/ ServerCrash(s)  PROVE OneSetupForLogins'
  <2>1. store = "redis" /\ OldStates /\ UNCHANGED store
    BY <1>5 DEF ServerStep, ServerCrash, OldStates, logins
  <2>2. SetupNext
    BY <1>5 DEF ServerStep, ServerCrash, SetupNext
  <2>. QED  BY <2>1, <2>2, OldStatesKeep
<1>6. CASE UNCHANGED vars
  <2>1. OldStates /\ UNCHANGED <<setupVars, store>>
    BY <1>6 DEF vars, OldStates, logins
  <2>. QED  BY <2>1, OldStatesKeep
<1>. QED  BY <1>1, <1>2, <1>3, <1>4, <1>5, <1>6 DEF Next

(* Every server that serves and every login that has started has the setup *)
(* of all registrations, however servers start, race and crash.            *)
THEOREM LoginsAnywhereAlways == Spec => []LoginsAnywhere
<1>1. Init => OneSetupForLogins
  BY InitOneSetup DEF Init, SetupInit, OneSetupForLogins
<1>2. OneSetupForLogins => LoginsAnywhere
  BY DEF OneSetupForLogins, OneSetup, LoginsAnywhere
<1>. QED  BY <1>1, <1>2, NextOneSetupForLogins, PTL DEF Spec
=============================================================================
