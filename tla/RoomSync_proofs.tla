--------------------------- MODULE RoomSync_proofs ---------------------------
(***************************************************************************)
(* The safety of RoomSync for any number of browsers and handlers, any     *)
(* capacity of the channel and any number of versions.                     *)
(*                                                                         *)
(* AnswersTrue needs that nothing that will become a page's version or a   *)
(* refusal is ahead of the store (NotAhead).  AnnouncedOnceAsWritten needs *)
(* that versions that are stored and not announced yet are in no event and *)
(* belong to one handler each (Unannounced).  StaleOnlyIf follows from     *)
(* what a subscriber that has got everything shows (ShowsLastEvent), which *)
(* needs that a page only gets the answer to its own save (Waiting), and   *)
(* TextBehindOnlyIf from what the text is while a save is under way        *)
(* (TextBehind).                                                           *)
(***************************************************************************)
EXTENDS RoomSync, TLAPS

NotAhead ==
    /\ \A c \in Clients : snapshot[c] <= Len(written)
    /\ \A s \in Slots : handler[s].stage = "arrived" => handler[s].version <= Len(written) + 1

Unannounced ==
    \A s \in Slots : handler[s].stage = "stored" =>
        /\ \A i \in 1 .. Len(log) : log[i].version # handler[s].version
        /\ \A u \in Slots : handler[u].stage = "stored" /\ handler[u].version = handler[s].version
                              => u = s

Waiting ==
    \A c \in Clients : saving[c] # None =>
        /\ handler[saving[c]].stage # "idle"
        /\ handler[saving[c]].client = c

ShowsLastEvent ==
    \A c \in Clients :
        /\ got[c] => stream[c] = "attached"
        /\ got[c] /\ next[c] > Len(log) =>
             \/ version[c] = log[Len(log)].version
             \/ version[c] \in 1 .. Len(written) /\ written[version[c]] = c

Follows(c) == got[c] /\ next[c] > Len(log) => base[c] = log[Len(log)].version

TextBehind ==
    \A c \in Clients :
        /\ saving[c] # None => base[c] >= handler[saving[c]].version \/ Follows(c)
        /\ base[c] < version[c] => written[version[c]] = c /\ Follows(c)

(* The store only appends: what a version means stays. *)
LEMMA StoreAppends ==
    ASSUME TypeOK, [Next]_vars
    PROVE  /\ Len(written') \in Nat /\ Len(written) \in Nat
           /\ Len(written) <= Len(written')
           /\ \A v \in 1 .. Len(written) : written'[v] = written[v]
<1>1. CASE \E s \in Slots : Update(s)
  <2>1. PICK s \in Slots : Update(s)
    BY <1>1
  <2>2. CASE written' = Append(written, handler[s].client)
    <3>0. handler[s] \in Handlers /\ handler[s].stage = "arrived"
      BY <2>1 DEF Update, TypeOK
    <3>1. handler[s].client \in Clients
      BY <3>0 DEF Handlers, Idle
    <3>2. written \in Seq(Clients)
      BY DEF TypeOK
    <3>. QED  BY <2>2, <3>1, <3>2
  <2>3. CASE written' = written
    BY <2>3 DEF TypeOK
  <2>. QED  BY <2>1, <2>2, <2>3 DEF Update
<1>2. CASE ~ \E s \in Slots : Update(s)
  <2>1. written' = written
    BY <1>2 DEF Next, vars, store, Unlock, Unlocked, UnlockFails, Subscribe, Drop, Receive,
                SaveFails, Save, Answer, Announce, Abandon
  <2>. QED  BY <2>1 DEF TypeOK
<1>. QED  BY <1>1, <1>2

(* What a handler at work is. *)
LEMMA BusyHandler ==
    ASSUME TypeOK, NEW s \in Slots, handler[s].stage # "idle"
    PROVE  /\ handler[s].client \in Clients
           /\ handler[s].version \in 1 .. MaxVersion
           /\ \A stage \in STRING :
                /\ [handler[s] EXCEPT !.stage = stage].stage = stage
                /\ [handler[s] EXCEPT !.stage = stage].client = handler[s].client
                /\ [handler[s] EXCEPT !.stage = stage].version = handler[s].version
<1>1. handler[s] \in Handlers
  BY DEF TypeOK
<1>2. handler[s] \in [stage : {"arrived", "stored", "saved", "refused"},
                   client : Clients, version : 1 .. MaxVersion]
  BY <1>1 DEF Handlers, Idle
<1>. QED  BY <1>2

(* The event that a receiver gets is in the channel. *)
LEMMA ReceivedEvent ==
    ASSUME TypeOK, NEW c \in Clients, Receive(c)
    PROVE  \E i \in 1 .. Len(log) :
             /\ next[c] <= i
             /\ version' = [version EXCEPT ![c] = log[i].version]
             /\ base' = [base EXCEPT ![c] = log[i].version]
             /\ next' = [next EXCEPT ![c] = i + 1]
             /\ got' = [got EXCEPT ![c] = TRUE]
             /\ UNCHANGED <<written, handler, snapshot, unlocked, saving, log, stream>>
<1> DEFINE i == IF next[c] < Oldest THEN Oldest ELSE next[c]
<1>1. i \in 1 .. Len(log) /\ next[c] <= i
  <2>a. Len(log) \in Nat
    BY DEF TypeOK
  <2>b. next \in [Clients -> 1 .. (Len(log) + 1)]
    BY DEF TypeOK
  <2>1. Len(log) \in Nat /\ next[c] \in Nat /\ next[c] >= 1 /\ next[c] <= Len(log)
    BY <2>a, <2>b DEF Receive
  <2>. QED  BY <2>1, RoomAssumption DEF Oldest
<1>2. /\ version' = [version EXCEPT ![c] = log[i].version]
      /\ base' = [base EXCEPT ![c] = log[i].version]
      /\ next' = [next EXCEPT ![c] = i + 1]
      /\ got' = [got EXCEPT ![c] = TRUE]
      /\ UNCHANGED <<written, handler, snapshot, unlocked, saving, log, stream>>
  BY DEF Receive, store
<1> HIDE DEF i
<1>. QED  BY <1>1, <1>2

(* What update() does: the next version is stored, any other refused. *)
LEMMA UpdateOutcome ==
    ASSUME TypeOK, NEW s \in Slots, Update(s)
    PROVE  /\ \A u \in Slots \ {s} : handler'[u] = handler[u]
           /\ handler'[s].version = handler[s].version
           /\ handler'[s].client = handler[s].client
           /\ handler[s].version \in 1 .. MaxVersion
           /\ UNCHANGED <<version, snapshot, log, stream, got, next>>
           /\ \/ /\ handler[s].version = Len(written) + 1
                 /\ handler'[s].stage = "stored"
                 /\ Len(written') = Len(written) + 1
                 /\ written'[Len(written')] = handler[s].client
              \/ /\ handler[s].version # Len(written) + 1
                 /\ handler'[s].stage = "refused"
                 /\ written' = written
<1>1. /\ handler[s].client \in Clients
      /\ handler[s].version \in 1 .. MaxVersion
  BY BusyHandler DEF Update
<1>2. PICK stage \in {"stored", "refused"} : handler' = [handler EXCEPT ![s].stage = stage]
  BY DEF Update
<1>3. /\ handler'[s].version = handler[s].version
      /\ handler'[s].client = handler[s].client
      /\ handler'[s].stage = stage
      /\ \A u \in Slots \ {s} : handler'[u] = handler[u]
  BY <1>2, BusyHandler DEF TypeOK, Update
<1>4. UNCHANGED <<version, snapshot, log, stream, got, next>>
  BY DEF Update, page, channel
<1>5. CASE handler[s].version = Len(written) + 1
  <2>1. written' = Append(written, handler[s].client) /\ handler' = [handler EXCEPT ![s].stage = "stored"]
    BY <1>5 DEF Update
  <2>2. Len(written') = Len(written) + 1 /\ written'[Len(written')] = handler[s].client
    BY <2>1, <1>1 DEF TypeOK
  <2>3. handler'[s].stage = "stored"
    BY <2>1, BusyHandler DEF TypeOK, Update
  <2>. QED  BY <1>1, <1>3, <1>4, <1>5, <2>2, <2>3
<1>6. CASE handler[s].version # Len(written) + 1
  <2>1. written' = written /\ handler' = [handler EXCEPT ![s].stage = "refused"]
    BY <1>6 DEF Update
  <2>2. handler'[s].stage = "refused"
    BY <2>1, BusyHandler DEF TypeOK, Update
  <2>. QED  BY <1>1, <1>3, <1>4, <1>6, <2>1, <2>2
<1>. QED  BY <1>5, <1>6

(* The signals, the handlers and the channel keep their types. *)
LEMMA TypeStep ==
    ASSUME TypeOK, [Next]_vars
    PROVE  TypeOK'
<1> USE RoomAssumption
<1>t. /\ handler \in [Slots -> Handlers]
      /\ version \in [Clients -> 0 .. MaxVersion]
      /\ base \in [Clients -> 0 .. MaxVersion]
      /\ snapshot \in [Clients -> 0 .. MaxVersion]
      /\ unlocked \in [Clients -> BOOLEAN]
      /\ saving \in [Clients -> Slots \cup {None}]
      /\ stream \in [Clients -> {"closed", "connecting", "attached"}]
  BY DEF TypeOK
<1>0. ASSUME NEW c \in Clients, Detached(c), log' = log
      PROVE  got' \in [Clients -> BOOLEAN] /\ next' \in [Clients -> 1 .. (Len(log') + 1)]
  <2>1. Len(log) \in Nat /\ next \in [Clients -> 1 .. (Len(log) + 1)] /\ got \in [Clients -> BOOLEAN]
    BY DEF TypeOK
  <2>2. 1 \in 1 .. (Len(log) + 1)
    BY <2>1
  <2>. QED  BY <1>0, <2>1, <2>2 DEF Detached
<1>1. ASSUME NEW c \in Clients, Unlock(c)  PROVE TypeOK'
  <2>1. snapshot' \in [Clients -> 0 .. MaxVersion]
    <3>1. Len(written) \in 0 .. MaxVersion
      BY DEF TypeOK
    <3>. QED  BY <1>1, <1>t, <3>1 DEF Unlock
  <2>. QED  BY <1>1, <2>1 DEF Unlock, TypeOK, store, channel
<1>2. ASSUME NEW c \in Clients, Unlocked(c)  PROVE TypeOK'
  <2>1. /\ version' \in [Clients -> 0 .. MaxVersion]
        /\ base' \in [Clients -> 0 .. MaxVersion]
        /\ snapshot' \in [Clients -> 0 .. MaxVersion]
    BY <1>2, <1>t DEF Unlocked
  <2>2. unlocked' \in [Clients -> BOOLEAN] /\ stream' \in [Clients -> {"closed", "connecting", "attached"}]
    BY <1>2, <1>t DEF Unlocked
  <2>3. UNCHANGED <<written, handler, saving, log>>
    BY <1>2 DEF Unlocked, store
  <2>. QED  BY <1>0, <1>2, <2>1, <2>2, <2>3 DEF Unlocked, TypeOK
<1>3. ASSUME NEW c \in Clients, UnlockFails(c)  PROVE TypeOK'
  <2>1. /\ snapshot' \in [Clients -> 0 .. MaxVersion]
        /\ unlocked' \in [Clients -> BOOLEAN]
        /\ stream' \in [Clients -> {"closed", "connecting", "attached"}]
    BY <1>3, <1>t DEF UnlockFails
  <2>2. UNCHANGED <<written, handler, version, base, saving, log>>
    BY <1>3 DEF UnlockFails, store
  <2>. QED  BY <1>0, <1>3, <2>1, <2>2 DEF UnlockFails, TypeOK
<1>4. ASSUME NEW c \in Clients, Subscribe(c)  PROVE TypeOK'
  <2>1. next' \in [Clients -> 1 .. (Len(log) + 1)]
    <3>1. Len(log) + 1 \in 1 .. (Len(log) + 1)
      BY DEF TypeOK
    <3>. QED  BY <1>4, <3>1 DEF Subscribe, TypeOK
  <2>2. stream' \in [Clients -> {"closed", "connecting", "attached"}]
    BY <1>4 DEF Subscribe, TypeOK
  <2>. QED  BY <1>4, <2>1, <2>2 DEF Subscribe, TypeOK, store, page
<1>5. ASSUME NEW c \in Clients, Drop(c)  PROVE TypeOK'
  <2>1. stream' \in [Clients -> {"closed", "connecting", "attached"}]
    BY <1>5 DEF Drop, TypeOK
  <2>2. UNCHANGED <<written, handler, version, base, snapshot, unlocked, saving, log>>
    BY <1>5 DEF Drop, store, page
  <2>. QED  BY <1>0, <1>5, <2>1, <2>2 DEF Drop, TypeOK
<1>6. ASSUME NEW c \in Clients, Receive(c)  PROVE TypeOK'
  <2>1. PICK i \in 1 .. Len(log) :
             /\ version' = [version EXCEPT ![c] = log[i].version]
             /\ base' = [base EXCEPT ![c] = log[i].version]
             /\ next' = [next EXCEPT ![c] = i + 1]
             /\ got' = [got EXCEPT ![c] = TRUE]
             /\ UNCHANGED <<written, handler, snapshot, unlocked, saving, log, stream>>
    BY <1>6, ReceivedEvent
  <2>3. log[i].version \in 1 .. MaxVersion
    <3>1. log[i] \in Events
      BY <2>1 DEF TypeOK
    <3>. QED  BY <3>1 DEF Events
  <2>4. version' \in [Clients -> 0 .. MaxVersion] /\ base' \in [Clients -> 0 .. MaxVersion]
    <3>1. log[i].version \in 0 .. MaxVersion
      BY <2>3
    <3>2. version \in [Clients -> 0 .. MaxVersion] /\ base \in [Clients -> 0 .. MaxVersion]
      BY DEF TypeOK
    <3>. QED  BY <2>1, <3>1, <3>2
  <2>5. next' \in [Clients -> 1 .. (Len(log') + 1)]
    <3>1. i + 1 \in 1 .. (Len(log) + 1)
      BY <2>1 DEF TypeOK
    <3>. QED  BY <2>1, <3>1 DEF TypeOK
  <2>6. got' \in [Clients -> BOOLEAN]
    BY <2>1 DEF TypeOK
  <2>7. UNCHANGED <<written, handler, snapshot, unlocked, saving, log, stream>>
    BY <2>1
  <2>. QED  BY <2>4, <2>5, <2>6, <2>7 DEF TypeOK
<1>7. ASSUME NEW c \in Clients, SaveFails(c)  PROVE TypeOK'
  BY <1>7 DEF SaveFails, TypeOK, store, channel
<1>8. ASSUME NEW c \in Clients, NEW s \in Slots, Save(c, s)  PROVE TypeOK'
  <2>1. PICK v \in 1 .. MaxVersion : v = version[c] + 1
    <3>1. version[c] \in 0 .. MaxVersion /\ version[c] < MaxVersion
      BY <1>8, <1>t DEF Save
    <3>2. version[c] + 1 \in 1 .. MaxVersion
      BY <3>1
    <3>. QED  BY <3>2
  <2>2. Handler("arrived", c, v) \in Handlers
    BY DEF Handler, Handlers
  <2>3. /\ handler' = [handler EXCEPT ![s] = Handler("arrived", c, v)]
        /\ base' = [base EXCEPT ![c] = v]
        /\ saving' = [saving EXCEPT ![c] = s]
        /\ UNCHANGED <<written, version, snapshot, unlocked, log, stream, got, next>>
    BY <1>8, <2>1 DEF Save, store, channel
  <2>4. handler' \in [Slots -> Handlers]
    BY <1>t, <2>2, <2>3
  <2>5. v \in 0 .. MaxVersion
    OBVIOUS
  <2>6. base' \in [Clients -> 0 .. MaxVersion]
    BY <1>t, <2>3, <2>5
  <2>7. saving' \in [Clients -> Slots \cup {None}]
    BY <1>t, <2>3
  <2>. QED  BY <2>3, <2>4, <2>6, <2>7 DEF TypeOK
<1>9. ASSUME NEW c \in Clients, NEW s \in Slots, Answer(c, s)  PROVE TypeOK'
  <2>1. handler[s].version \in 0 .. MaxVersion
    <3>1. handler[s].stage # "idle"
      BY <1>9 DEF Answer
    <3>2. handler[s].version \in 1 .. MaxVersion
      BY <3>1, BusyHandler
    <3>. QED  BY <3>2
  <2>2. handler' \in [Slots -> Handlers]
    <3>1. Idle \in Handlers
      BY DEF Handlers
    <3>. QED  BY <1>9, <1>t, <3>1 DEF Answer
  <2>3. version' \in [Clients -> 0 .. MaxVersion]
    <3>1. CASE version' = version
      BY <3>1, <1>t
    <3>2. CASE version' = [version EXCEPT ![c] = handler[s].version]
      BY <3>2, <2>1, <1>t
    <3>. QED  BY <1>9, <3>1, <3>2 DEF Answer
  <2>4. saving' \in [Clients -> Slots \cup {None}]
    BY <1>9, <1>t DEF Answer
  <2>5. UNCHANGED <<written, base, snapshot, unlocked, log, stream, got, next>>
    BY <1>9 DEF Answer, store, channel
  <2>. QED  BY <2>2, <2>3, <2>4, <2>5 DEF TypeOK
<1>10. ASSUME NEW s \in Slots, Update(s)  PROVE TypeOK'
  <2>1. handler[s] \in [stage : {"arrived", "stored", "saved", "refused"},
                        client : Clients, version : 1 .. MaxVersion]
    <3>1. handler[s] \in Handlers /\ handler[s].stage = "arrived"
      BY <1>10, <1>t DEF Update
    <3>. QED  BY <3>1 DEF Handlers, Idle
  <2>2. \A stage \in {"stored", "refused"} : [handler[s] EXCEPT !.stage = stage] \in Handlers
    BY <2>1 DEF Handlers
  <2>3. written' \in Seq(Clients) /\ Len(written') \in 1 .. MaxVersion
    <3>1. handler[s].version \in 1 .. MaxVersion /\ handler[s].client \in Clients
      BY <2>1
    <3>2. CASE written' = written
      BY <3>2 DEF TypeOK
    <3>3. CASE /\ handler[s].version = Len(written) + 1
               /\ written' = Append(written, handler[s].client)
      BY <3>1, <3>3 DEF TypeOK
    <3>. QED  BY <1>10, <3>2, <3>3 DEF Update
  <2>4. handler' \in [Slots -> Handlers]
    BY <1>10, <2>2 DEF Update, TypeOK
  <2>. QED  BY <1>10, <2>3, <2>4 DEF Update, TypeOK, page, channel
<1>11. ASSUME NEW s \in Slots, Announce(s)  PROVE TypeOK'
  <2>1. handler[s] \in [stage : {"arrived", "stored", "saved", "refused"},
                        client : Clients, version : 1 .. MaxVersion]
    BY <1>11 DEF Announce, TypeOK, Handlers, Idle
  <2>2. [handler[s] EXCEPT !.stage = "saved"] \in Handlers
    BY <2>1 DEF Handlers
  <2>3. [author |-> handler[s].client, version |-> handler[s].version] \in Events
    BY <2>1 DEF Events
  <2>4. log' = Append(log, [author |-> handler[s].client, version |-> handler[s].version])
    BY <1>11 DEF Announce
  <2>5. log \in Seq(Events)
    BY DEF TypeOK
  <2>6. log' \in Seq(Events) /\ Len(log') = Len(log) + 1 /\ Len(log) \in Nat
    BY <2>3, <2>4, <2>5
  <2>7. handler' \in [Slots -> Handlers]
    BY <1>11, <2>2 DEF Announce, TypeOK
  <2>8. UNCHANGED <<written, version, base, snapshot, unlocked, saving, stream, got, next>>
    BY <1>11 DEF Announce, store, page
  <2>9. \A c \in Clients : next'[c] \in 1 .. Len(log') + 1
    BY <2>6, <2>8 DEF TypeOK
  <2>. QED  BY <2>6, <2>7, <2>8, <2>9 DEF TypeOK
<1>12. ASSUME NEW s \in Slots, Abandon(s)  PROVE TypeOK'
  <2>1. Idle \in Handlers
    BY DEF Handlers
  <2>. QED  BY <1>12, <2>1 DEF Abandon, TypeOK, store, page, channel
<1>13. CASE UNCHANGED vars
  BY <1>13 DEF vars, store, page, channel, TypeOK
<1>. QED
  BY <1>1, <1>2, <1>3, <1>4, <1>5, <1>6, <1>7, <1>8, <1>9, <1>10, <1>11, <1>12, <1>13 DEF Next

LEMMA AnswersStep ==
    ASSUME TypeOK, AnswersTrue, NotAhead, AnnouncedOnceAsWritten, [Next]_vars
    PROVE  AnswersTrue' /\ NotAhead'
<1> USE RoomAssumption
<1>0. Len(written) \in Nat /\ Len(written) >= 1
  BY DEF TypeOK
<1>5. ASSUME NEW c \in Clients, Receive(c)  PROVE AnswersTrue' /\ NotAhead'
  <2>1. PICK i \in 1 .. Len(log) :
             /\ version' = [version EXCEPT ![c] = log[i].version]
             /\ UNCHANGED <<written, handler, snapshot>>
    BY <1>5, ReceivedEvent
  <2>2. log[i].version <= Len(written)
    BY DEF AnnouncedOnceAsWritten
  <2>3. \A b \in Clients : version'[b] <= Len(written)
    BY <2>1, <2>2 DEF AnswersTrue, TypeOK
  <2>. QED  BY <2>1, <2>3 DEF AnswersTrue, NotAhead
<1>10. ASSUME NEW s \in Slots, Update(s)  PROVE AnswersTrue' /\ NotAhead'
  <2>1. /\ \A u \in Slots \ {s} : handler'[u] = handler[u]
        /\ handler'[s].version = handler[s].version
        /\ handler'[s].client = handler[s].client
        /\ handler[s].version \in 1 .. MaxVersion
        /\ UNCHANGED <<version, snapshot>>
    BY <1>10, UpdateOutcome
  <2>2. /\ Len(written') \in Nat /\ Len(written) <= Len(written')
        /\ \A v \in 1 .. Len(written) : written'[v] = written[v]
    BY StoreAppends
  <2>3. \A c \in Clients : version[c] \in Nat /\ snapshot[c] \in Nat
    BY DEF TypeOK
  <2>4. \A c \in Clients : version'[c] <= Len(written') /\ snapshot'[c] <= Len(written')
    BY <1>0, <2>1, <2>2, <2>3 DEF AnswersTrue, NotAhead
  <2>5. handler[s].version <= Len(written) + 1
    BY <1>10 DEF NotAhead, Update
  <2>6. handler'[s].stage \in {"stored", "refused"}
    BY <1>10, UpdateOutcome
  <2>7. handler'[s].version <= Len(written')
    BY <1>0, <1>10, <2>1, <2>2, <2>5, UpdateOutcome
  <2>8. handler'[s].stage = "stored" => written'[handler'[s].version] = handler'[s].client
    BY <1>0, <1>10, <2>1, UpdateOutcome
  <2>9. ASSUME NEW u \in Slots \ {s}
        PROVE  /\ handler'[u].stage \in {"stored", "saved"} =>
                     /\ handler'[u].version <= Len(written')
                     /\ written'[handler'[u].version] = handler'[u].client
               /\ handler'[u].stage = "refused" => handler'[u].version <= Len(written')
               /\ handler'[u].stage = "arrived" => handler'[u].version <= Len(written') + 1
    <3>1. CASE handler[u].stage = "idle"
      BY <2>1, <3>1
    <3>2. CASE handler[u].stage # "idle"
      <4>1. handler[u].version \in Nat /\ handler[u].version >= 1
        BY <3>2, BusyHandler
      <4>. QED  BY <1>0, <2>1, <2>2, <4>1 DEF AnswersTrue, NotAhead
    <3>. QED  BY <3>1, <3>2
  <2>. QED  BY <2>4, <2>6, <2>7, <2>8, <2>9 DEF AnswersTrue, NotAhead
<1>1. ASSUME NEW c \in Clients, Unlock(c)  PROVE AnswersTrue' /\ NotAhead'
  BY <1>0, <1>1 DEF Unlock, AnswersTrue, NotAhead, store, channel, TypeOK
<1>2. ASSUME NEW c \in Clients, Unlocked(c)  PROVE AnswersTrue' /\ NotAhead'
  BY <1>0, <1>2 DEF Unlocked, AnswersTrue, NotAhead, store, TypeOK
<1>3. ASSUME NEW c \in Clients, UnlockFails(c)  PROVE AnswersTrue' /\ NotAhead'
  BY <1>0, <1>3 DEF UnlockFails, AnswersTrue, NotAhead, store, TypeOK
<1>4. ASSUME NEW c \in Clients, Subscribe(c) \/ Drop(c)  PROVE AnswersTrue' /\ NotAhead'
  BY <1>0, <1>4 DEF Subscribe, Drop, AnswersTrue, NotAhead, store, page
<1>7. ASSUME NEW c \in Clients, SaveFails(c)  PROVE AnswersTrue' /\ NotAhead'
  BY <1>0, <1>7 DEF SaveFails, AnswersTrue, NotAhead, store
<1>8. ASSUME NEW c \in Clients, NEW s \in Slots, Save(c, s)  PROVE AnswersTrue' /\ NotAhead'
  <2>1. handler' = [handler EXCEPT ![s] = Handler("arrived", c, version[c] + 1)]
    BY <1>8 DEF Save
  <2>2. /\ handler'[s].stage = "arrived"
        /\ handler'[s].version = version[c] + 1
        /\ \A u \in Slots \ {s} : handler'[u] = handler[u]
    BY <2>1 DEF TypeOK, Handler
  <2>3. version[c] \in Nat /\ version[c] <= Len(written)
    BY DEF AnswersTrue, TypeOK
  <2>4. UNCHANGED <<written, version, snapshot>>
    BY <1>8 DEF Save, store
  <2>. QED  BY <1>0, <2>2, <2>3, <2>4 DEF AnswersTrue, NotAhead
<1>9. ASSUME NEW c \in Clients, NEW s \in Slots, Answer(c, s)  PROVE AnswersTrue' /\ NotAhead'
  <2>1. handler'[s].stage = "idle" /\ \A u \in Slots \ {s} : handler'[u] = handler[u]
    BY <1>9 DEF Answer, TypeOK, Idle
  <2>2. UNCHANGED <<written, snapshot>>
    BY <1>9 DEF Answer, store
  <2>3. \A b \in Clients : version'[b] <= Len(written)
    <3>1. handler[s].stage = "saved" => handler[s].version <= Len(written)
      BY DEF AnswersTrue
    <3>. QED  BY <1>9, <3>1 DEF Answer, AnswersTrue, TypeOK
  <2>. QED  BY <1>0, <2>1, <2>2, <2>3 DEF AnswersTrue, NotAhead
<1>11. ASSUME NEW s \in Slots, Announce(s)  PROVE AnswersTrue' /\ NotAhead'
  <2>1. handler[s].stage = "stored" /\ handler' = [handler EXCEPT ![s].stage = "saved"]
    BY <1>11 DEF Announce
  <2>2. /\ handler'[s].stage = "saved"
        /\ handler'[s].version = handler[s].version
        /\ handler'[s].client = handler[s].client
        /\ \A u \in Slots \ {s} : handler'[u] = handler[u]
    BY <2>1, BusyHandler DEF TypeOK
  <2>3. UNCHANGED <<written, version, snapshot>>
    BY <1>11 DEF Announce, store, page
  <2>. QED  BY <1>0, <2>1, <2>2, <2>3 DEF AnswersTrue, NotAhead
<1>12. ASSUME NEW s \in Slots, Abandon(s)  PROVE AnswersTrue' /\ NotAhead'
  <2>1. handler'[s].stage = "idle" /\ \A u \in Slots \ {s} : handler'[u] = handler[u]
    BY <1>12 DEF Abandon, TypeOK, Idle
  <2>2. UNCHANGED <<written, version, snapshot>>
    BY <1>12 DEF Abandon, store, page
  <2>. QED  BY <1>0, <2>1, <2>2 DEF AnswersTrue, NotAhead
<1>13. CASE UNCHANGED vars
  BY <1>13 DEF vars, store, page, AnswersTrue, NotAhead
<1>. QED
  BY <1>1, <1>2, <1>3, <1>4, <1>5, <1>7, <1>8, <1>9, <1>10, <1>11, <1>12, <1>13, RoomAssumption
     DEF Next

(* A version is announced once, for what the store took. *)
LEMMA AnnouncedStep ==
    ASSUME TypeOK, AnswersTrue, AnnouncedOnceAsWritten, Unannounced, [Next]_vars
    PROVE  AnnouncedOnceAsWritten' /\ Unannounced'
<1>0. /\ Len(written) \in Nat /\ Len(written) >= 1 /\ Len(log) \in Nat
      /\ \A i \in 1 .. Len(log) : log[i].version \in Nat /\ log[i].version >= 1
  <2>1. ASSUME NEW i \in 1 .. Len(log)
        PROVE  log[i].version \in Nat /\ log[i].version >= 1
    <3>1. log[i] \in Events
      BY DEF TypeOK
    <3>. QED  BY <3>1 DEF Events
  <2>2. Len(written) \in Nat /\ Len(written) >= 1 /\ Len(log) \in Nat
    BY DEF TypeOK
  <2>. QED  BY <2>1, <2>2
<1>1. ASSUME NEW s \in Slots, Update(s)  PROVE AnnouncedOnceAsWritten' /\ Unannounced'
  <2>1. /\ \A u \in Slots \ {s} : handler'[u] = handler[u]
        /\ handler'[s].version = handler[s].version
        /\ handler[s].version \in 1 .. MaxVersion
        /\ log' = log
    BY <1>1, UpdateOutcome
  <2>2. /\ Len(written') \in Nat /\ Len(written) <= Len(written')
        /\ \A v \in 1 .. Len(written) : written'[v] = written[v]
    BY StoreAppends
  <2>3. AnnouncedOnceAsWritten'
    BY <1>0, <2>1, <2>2 DEF AnnouncedOnceAsWritten
  <2>4. \/ handler[s].version = Len(written) + 1
        \/ handler'[s].stage = "refused"
    BY <1>1, UpdateOutcome
  <2>5. CASE handler'[s].stage = "refused"
    BY <2>1, <2>3, <2>5 DEF Unannounced
  <2>6. CASE handler[s].version = Len(written) + 1
    <3>1. \A i \in 1 .. Len(log) : log[i].version # handler[s].version
      BY <1>0, <2>6 DEF AnnouncedOnceAsWritten
    <3>2. \A u \in Slots \ {s} : handler[u].stage = "stored" => handler[u].version # handler[s].version
      <4>1. ASSUME NEW u \in Slots \ {s}, handler[u].stage = "stored"
            PROVE  handler[u].version \in Nat /\ handler[u].version <= Len(written)
        BY <4>1, BusyHandler DEF AnswersTrue
      <4>. QED  BY <1>0, <2>6, <4>1
    <3>. QED  BY <2>1, <2>3, <3>1, <3>2 DEF Unannounced
  <2>. QED  BY <2>3, <2>4, <2>5, <2>6
<1>2. ASSUME NEW s \in Slots, Announce(s)  PROVE AnnouncedOnceAsWritten' /\ Unannounced'
  <2> DEFINE e == [author |-> handler[s].client, version |-> handler[s].version]
  <2>1. /\ handler[s].stage = "stored"
        /\ log' = Append(log, e)
        /\ written' = written
        /\ handler' = [handler EXCEPT ![s].stage = "saved"]
    BY <1>2 DEF Announce, store
  <2>2. handler'[s].stage = "saved" /\ \A u \in Slots \ {s} : handler'[u] = handler[u]
    BY <2>1, BusyHandler DEF TypeOK
  <2>3. /\ Len(log') = Len(log) + 1
        /\ log'[Len(log) + 1] = e
        /\ \A i \in 1 .. Len(log) : log'[i] = log[i]
    <3>1. e \in Events
      BY <2>1, BusyHandler DEF Events
    <3> HIDE DEF e
    <3>. QED  BY <2>1, <3>1 DEF TypeOK
  <2>4. e.version = handler[s].version /\ e.author = handler[s].client
    OBVIOUS
  <2> HIDE DEF e
  <2>5. /\ e.version <= Len(written)
        /\ e.author = written[e.version]
    BY <2>1, <2>4 DEF AnswersTrue
  <2>6. \A i \in 1 .. Len(log) : log[i].version # e.version
    BY <2>1, <2>4 DEF Unannounced
  <2>7. AnnouncedOnceAsWritten'
    <3>1. \A i \in 1 .. Len(log') : i \in 1 .. Len(log) \/ i = Len(log) + 1
      BY <1>0, <2>3
    <3>2. \A i \in 1 .. Len(log') :
             log'[i].version <= Len(written) /\ log'[i].author = written[log'[i].version]
      BY <2>3, <2>5, <3>1 DEF AnnouncedOnceAsWritten
    <3>3. \A i, j \in 1 .. Len(log') : log'[i].version = log'[j].version => i = j
      BY <2>3, <2>6, <3>1 DEF AnnouncedOnceAsWritten
    <3>. QED  BY <2>1, <3>2, <3>3 DEF AnnouncedOnceAsWritten
  <2>8. Unannounced'
    <3>1. ASSUME NEW u \in Slots, handler'[u].stage = "stored"
          PROVE  /\ u # s /\ handler'[u] = handler[u]
                 /\ handler[u].version # e.version
      BY <2>1, <2>2, <2>4, <3>1 DEF Unannounced
    <3>2. \A i \in 1 .. Len(log') : i \in 1 .. Len(log) \/ i = Len(log) + 1
      BY <1>0, <2>3
    <3>. QED  BY <2>3, <3>1, <3>2 DEF Unannounced
  <2>. QED  BY <2>7, <2>8
<1>3. ASSUME NEW s \in Slots, handler'[s].stage \in {"arrived", "idle"},
             \A u \in Slots \ {s} : handler'[u] = handler[u], UNCHANGED <<written, log>>
      PROVE  AnnouncedOnceAsWritten' /\ Unannounced'
  BY <1>3 DEF AnnouncedOnceAsWritten, Unannounced
<1>4. ASSUME NEW c \in Clients, NEW s \in Slots, Save(c, s) \/ Answer(c, s) \/ Abandon(s)
      PROVE  AnnouncedOnceAsWritten' /\ Unannounced'
  <2>1. handler'[s].stage \in {"arrived", "idle"} /\ \A u \in Slots \ {s} : handler'[u] = handler[u]
    <3>1. handler = [u \in Slots |-> handler[u]]
      BY DEF TypeOK
    <3>2. PICK v : handler' = [handler EXCEPT ![s] = v] /\ v.stage \in {"arrived", "idle"}
      BY <1>4 DEF Save, Answer, Abandon, Handler, Idle
    <3>. QED  BY <3>1, <3>2
  <2>2. UNCHANGED <<written, log>>
    BY <1>4 DEF Save, Answer, Abandon, store, channel
  <2>. QED  BY <1>3, <2>1, <2>2
<1>5. CASE UNCHANGED <<written, log, handler>>
  BY <1>5 DEF AnnouncedOnceAsWritten, Unannounced
<1>6. CASE \E c \in Clients : \/ Unlock(c) \/ Unlocked(c) \/ UnlockFails(c)
                              \/ Subscribe(c) \/ Drop(c) \/ Receive(c) \/ SaveFails(c)
  BY <1>5, <1>6 DEF Unlock, Unlocked, UnlockFails, Subscribe, Drop, Receive, SaveFails, store, channel
<1>7. CASE UNCHANGED vars
  BY <1>5, <1>7 DEF vars, store, channel
<1>8. ASSUME NEW s \in Slots, Abandon(s)  PROVE AnnouncedOnceAsWritten' /\ Unannounced'
  <2>1. handler'[s].stage = "idle" /\ \A u \in Slots \ {s} : handler'[u] = handler[u]
    BY <1>8 DEF Abandon, Idle, TypeOK
  <2>. QED  BY <1>3, <1>8, <2>1 DEF Abandon, store, channel
<1>. QED  BY <1>1, <1>2, <1>4, <1>6, <1>7, <1>8, RoomAssumption DEF Next

(* A page waits for the handler of its own save. *)
LEMMA WaitingStep ==
    ASSUME TypeOK, Waiting, [Next]_vars
    PROVE  Waiting'
<1>1. ASSUME NEW s \in Slots, Update(s) \/ Announce(s)  PROVE Waiting'
  <2>1. handler[s].stage # "idle"
    BY <1>1 DEF Update, Announce
  <2>2. PICK stage \in {"stored", "refused", "saved"} : handler' = [handler EXCEPT ![s].stage = stage]
    BY <1>1 DEF Update, Announce
  <2>3. /\ handler'[s].stage = stage /\ handler'[s].client = handler[s].client
        /\ \A u \in Slots \ {s} : handler'[u] = handler[u]
    BY <2>1, <2>2, BusyHandler DEF TypeOK
  <2>4. saving' = saving
    BY <1>1 DEF Update, Announce, page
  <2>5. \A c \in Clients : saving[c] \in Slots \cup {None}
    BY DEF TypeOK
  <2>. QED  BY <2>3, <2>4, <2>5 DEF Waiting
<1>2. ASSUME NEW c \in Clients, NEW s \in Slots, Save(c, s)  PROVE Waiting'
  <2>1. /\ handler[s].stage = "idle" /\ handler'[s].stage = "arrived" /\ handler'[s].client = c
        /\ \A u \in Slots \ {s} : handler'[u] = handler[u]
    BY <1>2 DEF Save, Handler, Idle, TypeOK
  <2>2. saving'[c] = s /\ \A b \in Clients \ {c} : saving'[b] = saving[b]
    BY <1>2 DEF Save, TypeOK
  <2>3. \A b \in Clients : saving[b] \in Slots \cup {None}
    BY DEF TypeOK
  <2>. QED  BY <2>1, <2>2, <2>3, RoomAssumption DEF Waiting
<1>3. ASSUME NEW c \in Clients, NEW s \in Slots, Answer(c, s)  PROVE Waiting'
  <2>1. /\ saving[c] = s /\ handler[s].client = c
        /\ \A u \in Slots \ {s} : handler'[u] = handler[u]
    BY <1>3, RoomAssumption DEF Answer, TypeOK, Waiting
  <2>2. saving'[c] = None /\ \A b \in Clients \ {c} : saving'[b] = saving[b]
    BY <1>3 DEF Answer, TypeOK
  <2>3. \A b \in Clients : saving[b] \in Slots \cup {None}
    BY DEF TypeOK
  <2>. QED  BY <2>1, <2>2, <2>3, RoomAssumption DEF Waiting
<1>4. ASSUME NEW s \in Slots, Abandon(s)  PROVE Waiting'
  <2>1. /\ \A u \in Slots \ {s} : handler'[u] = handler[u]
        /\ saving' = saving
        /\ \A c \in Clients : saving[c] # s
    BY <1>4 DEF Abandon, TypeOK, page
  <2>2. \A c \in Clients : saving[c] \in Slots \cup {None}
    BY DEF TypeOK
  <2>. QED  BY <2>1, <2>2 DEF Waiting
<1>5. ASSUME NEW c \in Clients, SaveFails(c)  PROVE Waiting'
  BY <1>5 DEF SaveFails, TypeOK, Waiting
<1>6. CASE UNCHANGED <<handler, saving>>
  BY <1>6 DEF Waiting
<1>7. CASE \E c \in Clients : \/ Unlock(c) \/ Unlocked(c) \/ UnlockFails(c)
                              \/ Subscribe(c) \/ Drop(c) \/ Receive(c)
  BY <1>6, <1>7 DEF Unlock, Unlocked, UnlockFails, Subscribe, Drop, Receive, page
<1>8. CASE UNCHANGED vars
  BY <1>6, <1>8 DEF vars, page
<1>. QED  BY <1>1, <1>2, <1>3, <1>4, <1>5, <1>7, <1>8, RoomAssumption DEF Next

(* A subscriber that has got everything shows the last event, or a save of *)
(* its own that it was answered since.                                     *)
LEMMA FollowsStep ==
    ASSUME TypeOK, AnswersTrue, Waiting, ShowsLastEvent, [Next]_vars
    PROVE  ShowsLastEvent'
<1>0. /\ Len(written) \in Nat /\ Len(log) \in Nat
      /\ \A c \in Clients : next[c] \in Nat /\ next[c] <= Len(log) + 1 /\ version[c] \in Nat
  <2>1. Len(written) \in Nat /\ Len(log) \in Nat
    BY DEF TypeOK
  <2>2. next \in [Clients -> 1 .. (Len(log) + 1)] /\ version \in [Clients -> 0 .. MaxVersion]
    BY DEF TypeOK
  <2>. QED  BY <2>1, <2>2
<1>1. /\ Len(written') \in Nat /\ Len(written) <= Len(written')
      /\ \A v \in 1 .. Len(written) : written'[v] = written[v]
  BY StoreAppends
<1>2. CASE UNCHANGED <<log, version, stream, got, next>>
  BY <1>0, <1>1, <1>2 DEF ShowsLastEvent
<1>3. ASSUME NEW c \in Clients, got'[c] = FALSE, UNCHANGED <<written, log>>,
             \A b \in Clients \ {c} : /\ version'[b] = version[b] /\ stream'[b] = stream[b]
                                      /\ got'[b] = got[b] /\ next'[b] = next[b]
      PROVE  ShowsLastEvent'
  BY <1>3 DEF ShowsLastEvent
<1>4. ASSUME NEW c \in Clients, Unlocked(c) \/ UnlockFails(c) \/ Drop(c) \/ Subscribe(c)
      PROVE  ShowsLastEvent'
  <2>1. got'[c] = FALSE
    <3>1. CASE Subscribe(c)
      <4>1. got[c] = FALSE
        BY <3>1 DEF Subscribe, ShowsLastEvent, TypeOK
      <4>. QED  BY <3>1, <4>1 DEF Subscribe
    <3>. QED  BY <1>4, <3>1 DEF Unlocked, UnlockFails, Drop, Detached, TypeOK
  <2>2. UNCHANGED <<written, log>>
    BY <1>4 DEF Unlocked, UnlockFails, Drop, Subscribe, store
  <2>3. \A b \in Clients \ {c} : version'[b] = version[b]
    BY <1>4 DEF Unlocked, UnlockFails, Drop, Subscribe, page, TypeOK
  <2>4. \A b \in Clients \ {c} : stream'[b] = stream[b]
    BY <1>4 DEF Unlocked, UnlockFails, Drop, Subscribe, TypeOK
  <2>5. \A b \in Clients \ {c} : got'[b] = got[b] /\ next'[b] = next[b]
    BY <1>4 DEF Unlocked, UnlockFails, Drop, Subscribe, Detached, TypeOK
  <2>. QED  BY <1>3, <2>1, <2>2, <2>3, <2>4, <2>5
<1>5. ASSUME NEW c \in Clients, Receive(c)  PROVE ShowsLastEvent'
  <2>1. PICK i \in 1 .. Len(log) :
             /\ version' = [version EXCEPT ![c] = log[i].version]
             /\ base' = [base EXCEPT ![c] = log[i].version]
             /\ next' = [next EXCEPT ![c] = i + 1]
             /\ got' = [got EXCEPT ![c] = TRUE]
             /\ UNCHANGED <<written, log, stream>>
    BY <1>5, ReceivedEvent
  <2>2. stream[c] = "attached"
    BY <1>5 DEF Receive
  <2>3. next'[c] > Len(log) => i = Len(log)
    BY <1>0, <2>1 DEF TypeOK
  <2>4. /\ version'[c] = log[i].version
        /\ \A b \in Clients \ {c} : /\ version'[b] = version[b]
                                     /\ got'[b] = got[b] /\ next'[b] = next[b]
    BY <2>1 DEF TypeOK
  <2>. QED  BY <2>1, <2>2, <2>3, <2>4 DEF ShowsLastEvent
<1>6. ASSUME NEW c \in Clients, NEW s \in Slots, Answer(c, s)  PROVE ShowsLastEvent'
  <2>1. UNCHANGED <<written, log, stream, got, next>>
    BY <1>6 DEF Answer, store, channel
  <2>2. CASE version' = version
    BY <1>2, <2>1, <2>2
  <2>3. CASE handler[s].stage = "saved" /\ version' = [version EXCEPT ![c] = handler[s].version]
    <3>1. handler[s].client = c
      BY <1>6, RoomAssumption DEF Answer, Waiting
    <3>2. handler[s].version \in Nat /\ handler[s].version >= 1
      BY <2>3, BusyHandler
    <3>3. handler[s].version \in 1 .. Len(written) /\ written[handler[s].version] = c
      BY <1>0, <2>3, <3>1, <3>2 DEF AnswersTrue
    <3>4. version'[c] = handler[s].version /\ \A b \in Clients \ {c} : version'[b] = version[b]
      BY <2>3 DEF TypeOK
    <3>. QED  BY <2>1, <3>3, <3>4 DEF ShowsLastEvent
  <2>. QED  BY <1>6, <2>2, <2>3 DEF Answer
<1>7. ASSUME NEW s \in Slots, Announce(s)  PROVE ShowsLastEvent'
  <2>1. UNCHANGED <<written, version, stream, got, next>>
    BY <1>7 DEF Announce, store, page
  <2>2. Len(log') = Len(log) + 1
    <3>1. [author |-> handler[s].client, version |-> handler[s].version] \in Events
      BY <1>7, BusyHandler DEF Announce, Events
    <3>. QED  BY <1>7, <3>1 DEF Announce, TypeOK
  <2>3. \A c \in Clients : ~ (next'[c] > Len(log'))
    BY <1>0, <2>1, <2>2
  <2>. QED  BY <2>1, <2>3 DEF ShowsLastEvent
<1>8. ASSUME NEW c \in Clients, NEW s \in Slots,
             Unlock(c) \/ SaveFails(c) \/ Save(c, s) \/ Update(s) \/ Abandon(s)
      PROVE  ShowsLastEvent'
  BY <1>2, <1>8 DEF Unlock, SaveFails, Save, Update, Abandon, page, channel
<1>9. ASSUME NEW c \in Clients, Unlock(c) \/ SaveFails(c)  PROVE ShowsLastEvent'
  BY <1>2, <1>9 DEF Unlock, SaveFails, page, channel
<1>10. ASSUME NEW s \in Slots, Update(s) \/ Abandon(s)  PROVE ShowsLastEvent'
  BY <1>2, <1>10 DEF Update, Abandon, page, channel
<1>11. CASE UNCHANGED vars
  BY <1>2, <1>11 DEF vars, page, channel
<1>. QED
  BY <1>4, <1>5, <1>6, <1>7, <1>8, <1>9, <1>10, <1>11, RoomAssumption DEF Next

(* The text of a page falls behind its version only when the answer to its *)
(* own save comes after an event of an earlier version.                    *)
LEMMA BehindStep ==
    ASSUME TypeOK, AnswersTrue, AnnouncedOnceAsWritten, Waiting, ShowsLastEvent, TextBehind,
           [Next]_vars
    PROVE  TextBehind'
<1>0. /\ Len(written) \in Nat /\ Len(log) \in Nat
      /\ \A c \in Clients : /\ version[c] \in Nat /\ base[c] \in Nat
                            /\ next[c] \in Nat /\ next[c] <= Len(log) + 1
                            /\ saving[c] \in Slots \cup {None}
  BY DEF TypeOK
<1>1. \A v \in 1 .. Len(written) : written'[v] = written[v]
  BY StoreAppends
<1>2. \A c \in Clients : base[c] < version[c] => version[c] \in 1 .. Len(written)
  BY <1>0 DEF AnswersTrue
<1>3. ASSUME UNCHANGED <<version, base, log, got, next>>,
             \A c \in Clients : saving'[c] # None =>
               /\ saving'[c] = saving[c]
               /\ handler'[saving[c]].version = handler[saving[c]].version
      PROVE  TextBehind'
  BY <1>1, <1>2, <1>3 DEF TextBehind, Follows
<1>4. ASSUME NEW s \in Slots, Update(s)  PROVE TextBehind'
  <2>1. \A u \in Slots : handler'[u].version = handler[u].version
    BY <1>4, UpdateOutcome
  <2>2. UNCHANGED <<version, base, saving, log, got, next>>
    BY <1>4 DEF Update, page, channel
  <2>. QED  BY <1>0, <1>3, <2>1, <2>2
<1>5. ASSUME NEW s \in Slots, Announce(s)  PROVE TextBehind'
  <2>1. \A u \in Slots : handler'[u].version = handler[u].version
    <3>1. handler = [u \in Slots |-> handler[u]]
      BY DEF TypeOK
    <3>2. handler' = [handler EXCEPT ![s] = [@ EXCEPT !.stage = "saved"]] /\ handler[s].stage # "idle"
      BY <1>5 DEF Announce
    <3>3. [handler[s] EXCEPT !.stage = "saved"].version = handler[s].version
      BY <3>2, BusyHandler
    <3>. QED  BY <3>1, <3>2, <3>3
  <2>2. UNCHANGED <<written, version, base, saving, got, next>>
    BY <1>5 DEF Announce, store, page
  <2>3. Len(log') = Len(log) + 1
    <3>1. [author |-> handler[s].client, version |-> handler[s].version] \in Events
      BY <1>5, BusyHandler DEF Announce, Events
    <3>. QED  BY <1>5, <3>1 DEF Announce, TypeOK
  <2>4. \A c \in Clients : Follows(c)'
    BY <1>0, <2>2, <2>3 DEF Follows
  <2>5. \A c \in Clients : base'[c] < version'[c] => written'[version'[c]] = c
    BY <2>2 DEF TextBehind
  <2>. QED  BY <2>4, <2>5 DEF TextBehind
<1>6. ASSUME NEW s \in Slots, Abandon(s)  PROVE TextBehind'
  <2>1. UNCHANGED <<version, base, saving, log, got, next>>
    BY <1>6 DEF Abandon, page, channel
  <2>2. \A c \in Clients : saving[c] # None => handler'[saving[c]] = handler[saving[c]]
    BY <1>0, <1>6 DEF Abandon, TypeOK
  <2>. QED  BY <1>3, <2>1, <2>2
<1>7. ASSUME NEW c \in Clients, SaveFails(c)  PROVE TextBehind'
  <2>1. UNCHANGED <<version, base, handler, log, got, next>>
    BY <1>7 DEF SaveFails, channel
  <2>2. \A b \in Clients : saving'[b] # None => saving'[b] = saving[b]
    BY <1>7 DEF SaveFails, TypeOK
  <2>. QED  BY <1>3, <2>1, <2>2
<1>8. ASSUME NEW c \in Clients, Unlock(c)  PROVE TextBehind'
  BY <1>3, <1>8 DEF Unlock, channel
<1>9. ASSUME NEW c \in Clients, UnlockFails(c) \/ Drop(c) \/ Subscribe(c)  PROVE TextBehind'
  <2>1. UNCHANGED <<written, version, base, saving, handler, log>>
    BY <1>9 DEF UnlockFails, Drop, Subscribe, store, page
  <2>2. Follows(c)'
    <3>1. CASE Subscribe(c)
      <4>1. next' = [next EXCEPT ![c] = Len(log) + 1] /\ UNCHANGED <<got, log, base>>
        BY <3>1 DEF Subscribe, page
      <4>2. got[c] = FALSE
        BY <3>1 DEF Subscribe, ShowsLastEvent, TextBehind, TypeOK
      <4>. QED  BY <4>1, <4>2 DEF Follows
    <3>2. CASE UnlockFails(c) \/ Drop(c)
      BY <3>2 DEF UnlockFails, Drop, Detached, Follows, TypeOK
    <3>. QED  BY <1>9, <3>1, <3>2
  <2>3. \A b \in Clients \ {c} : got'[b] = got[b] /\ next'[b] = next[b]
    BY <1>9 DEF UnlockFails, Drop, Subscribe, Detached, TypeOK
  <2>. QED  BY <2>1, <2>2, <2>3 DEF TextBehind, Follows
<1>10. ASSUME NEW c \in Clients,
              base'[c] = version'[c], Follows(c)' \/ saving'[c] = None,
              UNCHANGED <<written, handler, log>>,
              \A b \in Clients \ {c} : /\ version'[b] = version[b] /\ base'[b] = base[b]
                                       /\ got'[b] = got[b] /\ next'[b] = next[b]
                                       /\ saving'[b] = saving[b],
              version'[c] \in Nat
       PROVE  TextBehind'
  BY <1>10 DEF TextBehind, Follows
<1>11. ASSUME NEW c \in Clients, Unlocked(c)  PROVE TextBehind'
  <2>1. /\ base'[c] = snapshot[c] /\ version'[c] = snapshot[c] /\ snapshot[c] \in Nat
        /\ got'[c] = FALSE
    BY <1>11 DEF Unlocked, Detached, TypeOK
  <2>2. UNCHANGED <<written, handler, saving, log>>
    BY <1>11 DEF Unlocked, store
  <2>3. \A b \in Clients \ {c} : /\ version'[b] = version[b] /\ base'[b] = base[b]
                                 /\ got'[b] = got[b] /\ next'[b] = next[b]
    BY <1>11 DEF Unlocked, Detached, TypeOK
  <2>4. Follows(c)'
    BY <2>1 DEF Follows
  <2>. QED  BY <1>10, <2>1, <2>2, <2>3, <2>4
<1>12. ASSUME NEW c \in Clients, Receive(c)  PROVE TextBehind'
  <2>1. PICK i \in 1 .. Len(log) :
             /\ next[c] <= i
             /\ version' = [version EXCEPT ![c] = log[i].version]
             /\ base' = [base EXCEPT ![c] = log[i].version]
             /\ next' = [next EXCEPT ![c] = i + 1]
             /\ got' = [got EXCEPT ![c] = TRUE]
             /\ UNCHANGED <<written, handler, saving, log>>
    BY <1>12, ReceivedEvent
  <2>2. log[i].version \in Nat
    <3>1. log[i] \in Events
      BY <2>1 DEF TypeOK
    <3>. QED  BY <3>1 DEF Events
  <2>3. /\ base'[c] = log[i].version /\ version'[c] = log[i].version /\ next'[c] = i + 1
        /\ \A b \in Clients \ {c} : /\ version'[b] = version[b] /\ base'[b] = base[b]
                                     /\ got'[b] = got[b] /\ next'[b] = next[b]
    BY <2>1 DEF TypeOK
  <2>4. Follows(c)'
    <3>1. next'[c] > Len(log) => i = Len(log)
      BY <1>0, <2>1, <2>3
    <3>. QED  BY <2>1, <2>3, <3>1 DEF Follows
  <2>5. UNCHANGED <<written, handler, saving, log>>
    BY <2>1
  <2>. QED  BY <1>10, <2>2, <2>3, <2>4, <2>5
<1>13. ASSUME NEW c \in Clients, NEW s \in Slots, Save(c, s)  PROVE TextBehind'
  <2>1. /\ handler[s].stage = "idle" /\ handler'[s].version = version[c] + 1
        /\ \A u \in Slots \ {s} : handler'[u] = handler[u]
    BY <1>13 DEF Save, Handler, Idle, TypeOK
  <2>2. /\ saving'[c] = s /\ base'[c] = version[c] + 1
        /\ \A b \in Clients \ {c} : saving'[b] = saving[b] /\ base'[b] = base[b]
    BY <1>13 DEF Save, TypeOK
  <2>3. UNCHANGED <<written, version, log, got, next>>
    BY <1>13 DEF Save, store, channel
  <2>4. \A b \in Clients \ {c} : saving[b] # None => handler'[saving[b]] = handler[saving[b]]
    BY <1>0, <2>1 DEF Waiting
  <2>5. \A b \in Clients \ {c} :
          /\ saving'[b] # None => base'[b] >= handler'[saving'[b]].version \/ Follows(b)'
          /\ base'[b] < version'[b] => written'[version'[b]] = b /\ Follows(b)'
    BY <2>2, <2>3, <2>4 DEF TextBehind, Follows
  <2>6. base'[c] >= handler'[saving'[c]].version /\ ~ (base'[c] < version'[c])
    BY <1>0, <2>1, <2>2, <2>3
  <2>. QED  BY <2>5, <2>6 DEF TextBehind
<1>14. ASSUME NEW c \in Clients, NEW s \in Slots, Answer(c, s)  PROVE TextBehind'
  <2>1. /\ saving[c] = s /\ handler[s].client = c /\ handler[s].stage \in {"saved", "refused"}
        /\ \A u \in Slots \ {s} : handler'[u] = handler[u]
    BY <1>14, RoomAssumption DEF Answer, TypeOK, Waiting
  <2>2. saving'[c] = None /\ \A b \in Clients \ {c} : saving'[b] = saving[b]
    BY <1>14 DEF Answer, TypeOK
  <2>3. UNCHANGED <<written, base, log, got, next>>
    BY <1>14 DEF Answer, store, channel
  <2>4. \A b \in Clients \ {c} : saving[b] # None => handler'[saving[b]] = handler[saving[b]]
    BY <1>0, <2>1 DEF Waiting
  <2>5. \A b \in Clients \ {c} : version'[b] = version[b]
    BY <1>14 DEF Answer, TypeOK
  <2>6. \A b \in Clients \ {c} :
          /\ saving'[b] # None => base'[b] >= handler'[saving'[b]].version \/ Follows(b)'
          /\ base'[b] < version'[b] => written'[version'[b]] = b /\ Follows(b)'
    BY <2>2, <2>3, <2>4, <2>5 DEF TextBehind, Follows
  <2>7. base'[c] < version'[c] => written'[version'[c]] = c /\ Follows(c)'
    <3>1. CASE handler[s].stage = "saved"
      <4>1. version'[c] = handler[s].version
        BY <1>14, <3>1 DEF Answer, TypeOK
      <4>2. written[handler[s].version] = c
        BY <2>1, <3>1 DEF AnswersTrue
      <4>3. handler[s].version \in Nat
        BY <3>1, BusyHandler
      <4>4. base[c] >= handler[s].version \/ Follows(c)
        BY <2>1, RoomAssumption DEF TextBehind
      <4>. QED  BY <1>0, <2>3, <4>1, <4>2, <4>3, <4>4 DEF Follows
    <3>2. CASE handler[s].stage # "saved"
      <4>1. version' = version
        BY <1>14, <3>2 DEF Answer
      <4>. QED  BY <2>3, <4>1 DEF TextBehind, Follows
    <3>. QED  BY <3>1, <3>2
  <2>. QED  BY <2>2, <2>6, <2>7 DEF TextBehind
<1>15. CASE UNCHANGED vars
  BY <1>3, <1>15 DEF vars, page, channel
<1>. QED
  BY <1>4, <1>5, <1>6, <1>7, <1>8, <1>9, <1>11, <1>12, <1>13, <1>14, <1>15, RoomAssumption DEF Next

-----------------------------------------------------------------------------
IInv ==
    /\ TypeOK
    /\ AnswersTrue
    /\ NotAhead
    /\ AnnouncedOnceAsWritten
    /\ Unannounced
    /\ Waiting
    /\ ShowsLastEvent
    /\ TextBehind

LEMMA InitIInv == Init => IInv
<1> SUFFICES ASSUME Init PROVE IInv
  OBVIOUS
<1> USE RoomAssumption
<1>1. PICK creator \in Clients : written = <<creator>>
  BY DEF Init
<1>2. /\ written \in Seq(Clients) /\ Len(written) = 1
      /\ log \in Seq(Events) /\ Len(log) = 0
  BY <1>1 DEF Init
<1>3. \A s \in Slots : handler[s].stage = "idle"
  BY DEF Init, Idle
<1>4. TypeOK
  BY <1>2 DEF Init, TypeOK, Handlers
<1>5. AnswersTrue /\ NotAhead
  BY <1>2, <1>3 DEF Init, AnswersTrue, NotAhead
<1>6. AnnouncedOnceAsWritten /\ Unannounced
  BY <1>2, <1>3 DEF AnnouncedOnceAsWritten, Unannounced
<1>7. Waiting /\ ShowsLastEvent /\ TextBehind
  BY DEF Init, Waiting, ShowsLastEvent, TextBehind
<1>. QED  BY <1>4, <1>5, <1>6, <1>7 DEF IInv

LEMMA NextIInv == IInv /\ [Next]_vars => IInv'
  BY TypeStep, AnswersStep, AnnouncedStep, WaitingStep, FollowsStep, BehindStep DEF IInv

LEMMA AlwaysIInv == Spec => []IInv
  BY InitIInv, NextIInv, PTL DEF Spec

(* The signals of every page, the handlers and the channel hold what their *)
(* types allow, whatever the number of clients and handlers is.            *)
THEOREM TypeAlways == Spec => []TypeOK
<1>1. IInv => TypeOK
  BY DEF IInv
<1>. QED  BY AlwaysIInv, <1>1, PTL

(* Whatever is announced under a version is what update_clipboard stored   *)
(* under it, and no version is announced twice, in spite of repeated saves *)
(* and handlers that are dropped half way.                                 *)
THEOREM AnnouncedOnceAlways == Spec => []AnnouncedOnceAsWritten
<1>1. IInv => AnnouncedOnceAsWritten
  BY DEF IInv
<1>. QED  BY AlwaysIInv, <1>1, PTL

(* An answer update_clipboard has made up is still true when the page gets *)
(* it, and no page ever shows a version that the store has not reached.    *)
THEOREM AnswersTrueAlways == Spec => []AnswersTrue
<1>1. IInv => AnswersTrue
  BY DEF IInv
<1>. QED  BY AlwaysIInv, <1>1, PTL

(* A connected page that has got an event is stale for two reasons only:   *)
(* the last event is not about the latest version, or the page was         *)
(* answered an older save of its own after it.                             *)
THEOREM StaleOnlyIfAlways == Spec => []StaleOnlyIf
<1>1. IInv => StaleOnlyIf
  BY DEF IInv, ShowsLastEvent, StaleOnlyIf, UpToDate
<1>. QED  BY AlwaysIInv, <1>1, PTL

(* The text of a page is older than its version signal only when it is     *)
(* answered its own save after an event of an earlier version; then that   *)
(* event is the last it has.                                               *)
THEOREM TextBehindAlways == Spec => []TextBehindOnlyIf
<1>1. IInv => TextBehindOnlyIf
  BY DEF IInv, TextBehind, Follows, TextBehindOnlyIf, UpToDate
<1>. QED  BY AlwaysIInv, <1>1, PTL

-----------------------------------------------------------------------------
(* A slot whose handler changes changes its save and no other. *)
LEMMA SlotSave ==
    ASSUME NEW s \in Slots, \A u \in Slots \ {s} : handler'[u] = handler[u]
    PROVE  SavesTaken' = [SavesTaken EXCEPT ![s] = SavesTaken'[s]]
<1>1. \A u \in Slots \ {s} : SavesTaken'[u] = SavesTaken[u]
  BY DEF SavesTaken
<1>2. SavesTaken' = [u \in Slots |-> SavesTaken'[u]] /\ DOMAIN SavesTaken = Slots
  BY DEF SavesTaken
<1>3. SavesTaken' = [u \in Slots |-> IF u = s THEN SavesTaken'[s] ELSE SavesTaken[u]]
  BY <1>1, <1>2
<1>. QED  BY <1>2, <1>3

(* Every step is one of the store that saves in single steps, or leaves    *)
(* that store and the saves that it took alone.                            *)
LEMMA SavesStep == TypeOK /\ [Next]_vars => [Rooms!Next]_(Rooms!vars)
<1> SUFFICES ASSUME TypeOK, [Next]_vars
             PROVE  [Rooms!Next]_(Rooms!vars)
  OBVIOUS
<1> DEFINE Version == [code \in {0} |-> Len(written)]
           Lives == [code \in {0} |-> 1]
           Taken(s) == [code |-> 0, life |-> 1, version |-> handler[s].version]
<1>0. Len(written) \in 1 .. MaxVersion /\ MaxVersion \in Nat
  BY RoomAssumption DEF TypeOK
<1>1. ASSUME NEW s \in Slots
      PROVE  /\ handler[s].stage \in {"stored", "saved"} => SavesTaken[s] = Taken(s)
             /\ handler[s].stage \notin {"stored", "saved"} => SavesTaken[s] = [version |-> 0]
             /\ handler'[s].stage \in {"stored", "saved"} => SavesTaken'[s] = Taken(s)'
             /\ handler'[s].stage \notin {"stored", "saved"} => SavesTaken'[s] = [version |-> 0]
  BY DEF SavesTaken
<1>2. ASSUME UNCHANGED <<Version, SavesTaken>>  PROVE [Rooms!Next]_(Rooms!vars)
  BY <1>2 DEF Rooms!vars
<1>3. ASSUME UNCHANGED <<written, handler>>  PROVE [Rooms!Next]_(Rooms!vars)
  BY <1>2, <1>3 DEF SavesTaken
(* A handler that ends, whether its save was taken or not. *)
<1>4. ASSUME NEW s \in Slots, handler' = [handler EXCEPT ![s] = Idle], written' = written
      PROVE  [Rooms!Next]_(Rooms!vars)
  <2>1. /\ handler'[s].stage = "idle"
        /\ \A u \in Slots \ {s} : handler'[u] = handler[u]
    BY <1>4 DEF TypeOK, Idle
  <2>2. SavesTaken' = [SavesTaken EXCEPT ![s] = [version |-> 0]]
    BY <1>1, <2>1, SlotSave
  <2>3. CASE SavesTaken[s] = [version |-> 0]
    <3>1. SavesTaken' = SavesTaken
      BY <2>2, <2>3 DEF SavesTaken
    <3>. QED  BY <1>2, <1>4, <3>1
  <2>4. CASE SavesTaken[s] # [version |-> 0]
    <3>1. UNCHANGED <<Lives, Version>>
      BY <1>4
    <3>2. Rooms!Answer(s)
      BY <2>2, <2>4, <3>1 DEF Rooms!Answer, Rooms!Nothing
    <3>. QED  BY <3>2 DEF Rooms!Next
  <2>. QED  BY <2>3, <2>4
<1>5. ASSUME NEW s \in Slots, Update(s)  PROVE [Rooms!Next]_(Rooms!vars)
  <2>0. /\ handler[s].stage = "arrived"
        /\ \A u \in Slots \ {s} : handler'[u] = handler[u]
        /\ handler'[s].version = handler[s].version
        /\ handler[s].version \in 1 .. MaxVersion
    BY <1>5, UpdateOutcome DEF Update
  <2>1. CASE /\ handler[s].version = Len(written) + 1
             /\ handler'[s].stage = "stored"
             /\ Len(written') = Len(written) + 1
    <3>1. /\ Version[0] \in 1 .. MaxVersion - 1
          /\ Version' = [Version EXCEPT ![0] = @ + 1]
      <4>1. Len(written) \in 1 .. MaxVersion - 1
        BY <1>0, <2>0, <2>1
      <4>2. Version[0] = Len(written) /\ Version' = [code \in {0} |-> Len(written) + 1]
        BY <2>1
      <4>. QED  BY <4>1, <4>2
    <3>2. SavesTaken[s] = [version |-> 0]
      BY <1>1, <2>0
    <3>3. SavesTaken'[s] = [code |-> 0, life |-> Lives[0], version |-> Version[0] + 1]
      BY <1>1, <2>0, <2>1
    <3>4. SavesTaken' = [SavesTaken EXCEPT ![s] =
             [code |-> 0, life |-> Lives[0], version |-> Version[0] + 1]]
      BY <2>0, <3>3, SlotSave
    <3>5. Rooms!Take(s, 0)
      BY <3>1, <3>2, <3>4 DEF Rooms!Take, Rooms!Save, Rooms!Nothing
    <3>. QED  BY <3>5 DEF Rooms!Next
  <2>2. CASE handler'[s].stage = "refused" /\ written' = written
    <3>1. SavesTaken'[s] = SavesTaken[s]
      BY <1>1, <2>0, <2>2
    <3>2. SavesTaken' = SavesTaken
      BY <2>0, <3>1, SlotSave DEF SavesTaken
    <3>. QED  BY <1>2, <2>2, <3>2
  <2>. QED  BY <1>5, <2>1, <2>2, UpdateOutcome
<1>6. ASSUME NEW s \in Slots, Announce(s)  PROVE [Rooms!Next]_(Rooms!vars)
  <2>1. /\ handler[s].stage = "stored" /\ handler'[s].stage = "saved"
        /\ handler'[s].version = handler[s].version
        /\ \A u \in Slots \ {s} : handler'[u] = handler[u]
    BY <1>6, BusyHandler DEF Announce, TypeOK
  <2>2. SavesTaken'[s] = SavesTaken[s]
    BY <1>1, <2>1
  <2>3. SavesTaken' = SavesTaken
    BY <2>1, <2>2, SlotSave DEF SavesTaken
  <2>. QED  BY <1>2, <1>6, <2>3 DEF Announce, store
<1>7. ASSUME NEW c \in Clients, NEW s \in Slots, Save(c, s)  PROVE [Rooms!Next]_(Rooms!vars)
  <2>1. /\ handler[s].stage = "idle" /\ handler'[s].stage = "arrived"
        /\ \A u \in Slots \ {s} : handler'[u] = handler[u]
    BY <1>7 DEF Save, TypeOK, Handler, Idle
  <2>2. SavesTaken'[s] = SavesTaken[s]
    BY <1>1, <2>1
  <2>3. SavesTaken' = SavesTaken
    BY <2>1, <2>2, SlotSave DEF SavesTaken
  <2>. QED  BY <1>2, <1>7, <2>3 DEF Save, store
<1>8. ASSUME NEW c \in Clients, NEW s \in Slots, Answer(c, s)  PROVE [Rooms!Next]_(Rooms!vars)
  BY <1>4, <1>8 DEF Answer, store
<1>9. ASSUME NEW s \in Slots, Abandon(s)  PROVE [Rooms!Next]_(Rooms!vars)
  BY <1>4, <1>9 DEF Abandon, store
<1>10. ASSUME NEW c \in Clients,
              Unlock(c) \/ Unlocked(c) \/ UnlockFails(c) \/ Subscribe(c) \/ Drop(c)
                \/ Receive(c) \/ SaveFails(c)
       PROVE  [Rooms!Next]_(Rooms!vars)
  BY <1>3, <1>10 DEF Unlock, Unlocked, UnlockFails, Subscribe, Drop, Receive, SaveFails, store
<1>11. CASE UNCHANGED vars
  BY <1>3, <1>11 DEF vars, store
<1>. QED
  BY <1>5, <1>6, <1>7, <1>8, <1>9, <1>10, <1>11, RoomAssumption DEF Next

(* What a handler holds as saved until it has answered or is dropped is a  *)
(* save that a store as VersionedRooms specifies it took in a single step. *)
THEOREM SavesAsPromisedAlways == Spec => SavesAsPromised
<1>1. IInv => TypeOK
  BY DEF IInv
<1>. QED  BY <1>1, AlwaysIInv, SavesStep, PTL DEF Spec, SavesAsPromised
=============================================================================
