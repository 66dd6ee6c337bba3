--------------------------- MODULE RoomLives_proofs ---------------------------
(***************************************************************************)
(* What RoomLives promises for any number of pages, passwords and rooms    *)
(* with the code, and any capacity of the channel.                         *)
(*                                                                         *)
(* ShowsItsRoom holds because whatever is encrypted under a room key was   *)
(* written in the room of that key, wherever the envelope is: in the room, *)
(* in the channel or in a save under way (Sound).  That a page opens the   *)
(* room only with its password needs that the room has the metadata it was *)
(* created with (Wrapped); that the password opens the room exactly when   *)
(* no page of an earlier one has saved into it needs also that an envelope *)
(* is sealed under the key of the room its page was unlocked for, wherever *)
(* the save is by then and whatever the page has done since (History).     *)
(***************************************************************************)
EXTENDS RoomLives, TLAPS

Sealed(e) == e.box.content = e.box.key /\ e.box.aad = e.version /\ e.box.key <= made

Sound ==
    /\ room # NoRoom => Sealed(room.envelope)
    /\ \A i \in 1 .. Len(log) : Sealed(log[i])
    /\ \A p \in Pages : save[p].at = "sent" => Sealed(save[p].envelope)

Wrapped ==
    room # NoRoom =>
        /\ room.auth # Empty
        /\ room.meta.salt = made
        /\ room.meta.wrapped.key = [password |-> room.auth, salt |-> made]
        /\ room.meta.wrapped.aad = NoData
        /\ room.meta.wrapped.content = made

History ==
    /\ \A p \in Pages : key[p] # 0 => opened[p] = key[p]
    /\ \A p \in Pages : save[p].at = "sent" => save[p].from = save[p].envelope.box.key
    /\ room # NoRoom => savedFrom = room.envelope.box.key

StreamHasKey == \A p \in Pages : stream[p].at # "closed" => stream[p].key = key[p]

(* A room is a record with the fields of Records.                          *)
LEMMA RoomFields ==
    ASSUME TypeOK, room # NoRoom
    PROVE  /\ room \in Records
           /\ room.auth \in Passwords \ {Empty}
           /\ room.envelope \in Envelopes
           /\ room.envelope.version \in Versions
           /\ room.envelope.box \in Boxes
  BY DEF TypeOK, Records, Envelopes

(* An unlock under way has a password that is not blank.                   *)
LEMMA UnlockFields ==
    ASSUME TypeOK, NEW p \in Pages, unlock[p].at # "idle"
    PROVE  unlock[p].password \in Passwords \ {Empty}
  BY DEF TypeOK, Idle

(* The states of a page's stream.                                          *)
LEMMA StreamFields ==
    ASSUME TypeOK, NEW p \in Pages
    PROVE  /\ stream[p].at \in {"closed", "connecting", "attached"}
           /\ stream[p] # Closed => stream[p].at # "closed"
           /\ stream[p].at # "closed" => stream[p].key \in Nat
           /\ stream[p].at = "attached" => stream[p].next \in Nat \ {0}
  BY DEF TypeOK, StreamStates, Closed

(* What Open shows: the key of the room, unwrapped with its own password,  *)
(* and a text that was written in it.                                      *)
LEMMA OpenShows ==
    ASSUME TypeOK, Sound, Wrapped, NEW p \in Pages, Open(p)
    PROVE  /\ unlock[p].password = room.auth
           /\ SnapshotKey(p) = made
           /\ SnapshotText(p) = made
           /\ made \in Nat
           /\ room.envelope.version \in Versions
<1>1. room # NoRoom
  BY DEF Open, Served
<1>2. unlock[p].password \in Passwords \ {Empty}
  BY UnlockFields DEF Open
<1>3. room.meta.wrapped.key = WrappingKey(unlock[p].password, room.meta.salt)
  BY <1>2 DEF Open, SnapshotKey, UnlockRoomKey, EnsurePassword, Unseal
<1>4. unlock[p].password = room.auth
  <2>1. room.meta.wrapped.key = [password |-> room.auth, salt |-> made]
    BY <1>1 DEF Wrapped
  <2>2. room.meta.wrapped.key.password = room.auth
    BY <2>1
  <2>3. WrappingKey(unlock[p].password, room.meta.salt).password = unlock[p].password
    BY DEF WrappingKey
  <2>. QED  BY <1>3, <2>2, <2>3
<1>5. SnapshotKey(p) = made
  BY <1>1, <1>2, <1>3 DEF Wrapped, SnapshotKey, UnlockRoomKey, EnsurePassword, Unseal
<1>6. room.envelope.box.key = made /\ SnapshotText(p) = room.envelope.box.content
  BY <1>5 DEF Open, SnapshotText, DecryptClipboard, Unseal
<1>7. SnapshotText(p) = made
  BY <1>1, <1>6 DEF Sound, Sealed
<1>8. made \in Nat /\ room.envelope.version \in Versions
  BY <1>1, RoomFields DEF TypeOK
<1>. QED  BY <1>4, <1>5, <1>7, <1>8

(* What Receive shows: nothing new, or a text of the room of its key.      *)
LEMMA Received ==
    ASSUME TypeOK, Sound, StreamHasKey, NEW p \in Pages, Receive(p)
    PROVE  \E i \in 1 .. Len(log) :
             /\ stream' = [stream EXCEPT ![p].next = i + 1]
             /\ \/ UNCHANGED <<text, version>>
                \/ /\ text' = [text EXCEPT ![p] = key[p]]
                   /\ version' = [version EXCEPT ![p] = log[i].version]
             /\ UNCHANGED <<server, creating, unlock, save, key, opened>>
<1> DEFINE i == IF stream[p].next < Oldest THEN Oldest ELSE stream[p].next
           decrypted == DecryptClipboard(stream[p].key, log[i])
<1>1. i \in 1 .. Len(log)
  <2>1. stream[p].next \in Nat \ {0} /\ stream[p].next <= Len(log) /\ Len(log) \in Nat
    BY StreamFields DEF Receive, TypeOK
  <2>. QED  BY <2>1, LivesAssumption DEF Oldest
<1>2. decrypted # Failed => decrypted = key[p]
  BY <1>1 DEF Receive, Sound, Sealed, DecryptClipboard, Unseal, StreamHasKey
<1>3. /\ stream' = [stream EXCEPT ![p].next = i + 1]
      /\ UNCHANGED <<server, creating, unlock, save, key, opened>>
      /\ IF decrypted # Failed
         THEN text' = [text EXCEPT ![p] = decrypted] /\ version' = [version EXCEPT ![p] = log[i].version]
         ELSE UNCHANGED <<text, version>>
  BY DEF Receive, Set
<1> HIDE DEF i, decrypted
<1>. QED  BY <1>1, <1>2, <1>3

(* The envelope of a new room and of a save are sealed as Sound says.      *)
LEMMA CreateSeals ==
    ASSUME TypeOK, CreateRoom
    PROVE  /\ room'.auth = creating.password
           /\ creating.password \in Passwords \ {Empty}
           /\ room'.meta.salt = made'
           /\ room'.meta.wrapped.key = [password |-> creating.password, salt |-> made']
           /\ room'.meta.wrapped.aad = NoData
           /\ room'.meta.wrapped.content = made'
           /\ room'.envelope = [version |-> 1, box |-> [key |-> made', aad |-> 1, content |-> made']]
           /\ room' # NoRoom
           /\ made' \in Nat
<1>1. creating.password \in Passwords \ {Empty}
  BY DEF CreateRoom, TypeOK, Idle
<1>2. made' \in Nat
  BY LivesAssumption DEF CreateRoom, TypeOK
<1>3. room' = [auth |-> creating.password,
               meta |-> [salt |-> made',
                         wrapped |-> [key |-> [password |-> creating.password, salt |-> made'],
                                      aad |-> NoData, content |-> made']],
               envelope |-> [version |-> 1, box |-> [key |-> made', aad |-> 1, content |-> made']]]
  BY DEF CreateRoom, EncryptedRoom, EncryptClipboard, Seal, WrappingKey
<1>4. room' # NoRoom
  BY <1>1, <1>3 DEF NoRoom
<1>. QED  BY <1>1, <1>2, <1>3, <1>4

(* A save under way has an envelope of its version, or that version.       *)
LEMMA SaveFields ==
    ASSUME TypeOK, NEW p \in Pages
    PROVE  /\ save[p].at \in {"idle", "sent", "saved"}
           /\ save[p].at = "sent" => save[p].envelope \in Envelopes /\ save[p].from \in Nat
           /\ save[p].at = "saved" => save[p].version \in Versions
  BY DEF TypeOK, Idle

(* Lock leaves the server and the texts alone.                             *)
LEMMA Locked ==
    ASSUME TypeOK, NEW p \in Pages, Lock(p)
    PROVE  /\ UNCHANGED <<made, room, session, log, savedFrom, creating, save, text, version>>
           /\ key'[p] = 0 /\ stream'[p] = Closed
           /\ \A q \in Pages \ {p} : key'[q] = key[q] /\ stream'[q] = stream[q]
           /\ \A q \in Pages \ {p} : opened'[q] = opened[q]
           /\ TypeOK'
<1>1. /\ UNCHANGED <<made, room, session, log, savedFrom, creating, save, text, version>>
      /\ key' = [key EXCEPT ![p] = 0]
      /\ opened' = [opened EXCEPT ![p] = 0]
      /\ stream' = [stream EXCEPT ![p] = Closed]
      /\ unlock' = [unlock EXCEPT ![p] = Idle]
  BY DEF Lock, Set, server
<1>2. key'[p] = 0 /\ stream'[p] = Closed
  BY <1>1 DEF TypeOK
<1>3. \A q \in Pages \ {p} : key'[q] = key[q] /\ stream'[q] = stream[q] /\ opened'[q] = opened[q]
  BY <1>1 DEF TypeOK
<1>4. key' \in [Pages -> 0 .. made'] /\ opened' \in [Pages -> 0 .. made']
  <2>1. 0 \in 0 .. made
    BY LivesAssumption DEF TypeOK
  <2>. QED  BY <1>1, <2>1 DEF TypeOK
<1>5. stream' \in [Pages -> StreamStates]
  <2>1. Closed \in StreamStates
    BY DEF StreamStates
  <2>. QED  BY <1>1, <2>1 DEF TypeOK
<1>6. \A q \in Pages : stream'[q].at = "attached" => stream'[q].next <= Len(log') + 1
  BY <1>1, <1>2, <1>3 DEF TypeOK, Closed
<1>7. unlock' \in [Pages -> {Idle} \cup [at : {"login", "fetch"}, password : Passwords \ {Empty}]]
  BY <1>1 DEF TypeOK
<1>. QED  BY <1>1, <1>2, <1>3, <1>4, <1>5, <1>6, <1>7 DEF TypeOK

(* Server and pages keep their types.                                      *)
LEMMA TypeStep ==
    ASSUME TypeOK, Sound, Wrapped, StreamHasKey, [Next]_vars
    PROVE  TypeOK'
<1> USE LivesAssumption
<1>0. made \in Nat /\ Len(log) \in Nat
  BY DEF TypeOK
<1>1. ASSUME NEW password \in Passwords, ClickCreate(password)  PROVE TypeOK'
  <2>1. creating' \in {Idle} \cup [at : {"create"}, password : Passwords \ {Empty}]
    BY <1>1 DEF ClickCreate, EnsurePassword
  <2>. QED  BY <1>1, <2>1 DEF ClickCreate, TypeOK, server, page
<1>2. CASE CreateRoom
  <2>1. made' = made + 1 /\ made' \in 0 .. MaxRooms
    BY <1>0, <1>2 DEF CreateRoom, TypeOK
  <2>2. room' \in Records
    <3> DEFINE e == [version |-> 1, box |-> [key |-> made', aad |-> 1, content |-> made']]
    <3>1. room' = [auth |-> creating.password,
                   meta |-> [salt |-> made',
                             wrapped |-> [key |-> [password |-> creating.password, salt |-> made'],
                                          aad |-> NoData, content |-> made']],
                   envelope |-> e]
      BY <1>2 DEF CreateRoom, EncryptedRoom, EncryptClipboard, Seal, WrappingKey
    <3>2. creating.password \in Passwords \ {Empty} /\ made' \in Nat
      BY <1>2, CreateSeals
    <3>3. e \in Envelopes
      BY <1>2, <3>2 DEF CreateRoom, Envelopes, Boxes, Versions
    <3>4. [salt |-> made',
           wrapped |-> [key |-> [password |-> creating.password, salt |-> made'],
                        aad |-> NoData, content |-> made']]
            \in [salt : Nat,
                 wrapped : [key : [password : Passwords, salt : Nat], aad : {NoData}, content : Nat]]
      BY <3>2
    <3> HIDE DEF e
    <3>. QED  BY <3>1, <3>2, <3>3, <3>4 DEF Records
  <2>3. /\ session \in [Pages -> 0 .. made'] /\ key \in [Pages -> 0 .. made']
        /\ text \in [Pages -> 0 .. made'] /\ opened \in [Pages -> 0 .. made']
    <3>1. \A n \in 0 .. made : n \in 0 .. made'
      BY <1>0, <2>1
    <3>. QED  BY <3>1 DEF TypeOK
  <2>4. /\ UNCHANGED <<session, log, unlock, save, key, text, version, stream, opened>>
        /\ creating' = Idle /\ savedFrom' \in Nat
    BY <1>0, <1>2, <2>1 DEF CreateRoom, page
  <2>. QED  BY <2>1, <2>2, <2>3, <2>4 DEF TypeOK
<1>3. CASE CreateEndsElsewhere
  BY <1>3 DEF CreateEndsElsewhere, TypeOK, server, page
<1>4. ASSUME NEW p \in Pages, NEW password \in Passwords, ClickUnlock(p, password)  PROVE TypeOK'
  <2>1. CASE Lock(p)
    BY <2>1, Locked
  <2>2. CASE /\ EnsurePassword(password)
             /\ unlock' = Set(unlock, p, [at |-> "login", password |-> password])
             /\ UNCHANGED <<server, creating, save, page>>
    <3>1. unlock' \in [Pages -> {Idle} \cup [at : {"login", "fetch"}, password : Passwords \ {Empty}]]
      BY <2>2 DEF TypeOK, Set, EnsurePassword
    <3>. QED  BY <2>2, <3>1 DEF TypeOK, server, page
  <2>. QED  BY <1>4, <2>1, <2>2 DEF ClickUnlock
<1>5. ASSUME NEW p \in Pages, Login(p)  PROVE TypeOK'
  <2>1. room.auth \in Passwords \ {Empty}
    BY <1>5, RoomFields DEF Login
  <2>2. unlock' \in [Pages -> {Idle} \cup [at : {"login", "fetch"}, password : Passwords \ {Empty}]]
    BY <1>5, <2>1 DEF Login, TypeOK, Set
  <2>3. session' \in [Pages -> 0 .. made]
    BY <1>0, <1>5 DEF Login, TypeOK, Set
  <2>. QED  BY <1>5, <2>2, <2>3 DEF Login, TypeOK, page
<1>6. ASSUME NEW p \in Pages, Open(p)  PROVE TypeOK'
  <2>1. /\ SnapshotKey(p) = made /\ SnapshotText(p) = made /\ made \in Nat
        /\ room.envelope.version \in Versions
    BY <1>6, OpenShows
  <2>2. /\ key' = [key EXCEPT ![p] = made]
        /\ text' = [text EXCEPT ![p] = made]
        /\ version' = [version EXCEPT ![p] = room.envelope.version]
        /\ stream' = [stream EXCEPT ![p] = [at |-> "connecting", key |-> made]]
        /\ unlock' = [unlock EXCEPT ![p] = Idle]
        /\ opened' = [opened EXCEPT ![p] = made]
        /\ UNCHANGED <<made, room, session, log, savedFrom, creating, save>>
    BY <1>6, <2>1 DEF Open, Set, server
  <2>3. /\ key' \in [Pages -> 0 .. made] /\ text' \in [Pages -> 0 .. made]
        /\ opened' \in [Pages -> 0 .. made]
        /\ version' \in [Pages -> Versions]
    BY <2>1, <2>2 DEF TypeOK
  <2>4. unlock' \in [Pages -> {Idle} \cup [at : {"login", "fetch"}, password : Passwords \ {Empty}]]
    BY <2>2 DEF TypeOK
  <2>5. [at |-> "connecting", key |-> made] \in StreamStates
    BY <2>1 DEF StreamStates
  <2>6. /\ stream' \in [Pages -> StreamStates]
        /\ \A q \in Pages : stream'[q].at = "attached" => stream'[q] = stream[q]
    BY <2>2, <2>5 DEF TypeOK
  <2>7. \A q \in Pages : stream'[q].at = "attached" => stream'[q].next <= Len(log') + 1
    BY <2>2, <2>6 DEF TypeOK
  <2>. QED  BY <2>2, <2>3, <2>4, <2>6, <2>7 DEF TypeOK
<1>7. ASSUME NEW p \in Pages, UnlockFails(p)  PROVE TypeOK'
  BY <1>7, Locked DEF UnlockFails
<1>8. ASSUME NEW p \in Pages, Subscribe(p)  PROVE TypeOK'
  <2>1. PICK new \in StreamStates :
             /\ stream' = [stream EXCEPT ![p] = new]
             /\ new.at = "attached" => new.next = Len(log) + 1
    <3>1. stream[p].key \in Nat
      BY <1>8, StreamFields DEF Subscribe
    <3> DEFINE new == [at |-> "attached", key |-> stream[p].key, next |-> Len(log) + 1]
    <3>2. new \in StreamStates
      <4>1. Len(log) + 1 \in Nat \ {0}
        BY <1>0
      <4>. QED  BY <3>1, <4>1 DEF StreamStates
    <3>3. Closed \in StreamStates
      BY DEF StreamStates
    <3>4. new.next = Len(log) + 1 /\ Closed.at # "attached"
      BY DEF Closed
    <3>5. CASE Served(p)
      <4>1. stream' = [stream EXCEPT ![p] = new]
        BY <1>8, <3>5 DEF Subscribe, Set
      <4>. QED  BY <3>2, <3>4, <4>1
    <3>6. CASE ~Served(p)
      <4>1. stream' = [stream EXCEPT ![p] = Closed]
        BY <1>8, <3>6 DEF Subscribe, Set
      <4>. QED  BY <3>3, <3>4, <4>1
    <3>. QED  BY <3>5, <3>6
  <2>2. UNCHANGED <<made, room, session, log, savedFrom, creating, unlock, save, key, text, version, opened>>
    BY <1>8 DEF Subscribe, server
  <2>3. stream' \in [Pages -> StreamStates]
    BY <2>1 DEF TypeOK
  <2>4. \A q \in Pages : stream'[q].at = "attached" => stream'[q].next <= Len(log') + 1
    BY <1>0, <2>1, <2>2 DEF TypeOK
  <2>. QED  BY <2>2, <2>3, <2>4 DEF TypeOK
<1>9. ASSUME NEW p \in Pages, Drop(p)  PROVE TypeOK'
  <2>1. [at |-> "connecting", key |-> stream[p].key] \in StreamStates
    BY <1>9, StreamFields DEF Drop, StreamStates
  <2>2. UNCHANGED <<made, room, session, log, savedFrom, creating, unlock, save, key, text, version, opened>>
    BY <1>9 DEF Drop, server
  <2>3. /\ stream' \in [Pages -> StreamStates]
        /\ \A q \in Pages : stream'[q].at = "attached" => stream'[q] = stream[q]
    BY <1>9, <2>1 DEF Drop, Set, TypeOK
  <2>4. \A q \in Pages : stream'[q].at = "attached" => stream'[q].next <= Len(log') + 1
    BY <2>2, <2>3 DEF TypeOK
  <2>. QED  BY <2>2, <2>3, <2>4 DEF TypeOK
<1>10. ASSUME NEW p \in Pages, Receive(p)  PROVE TypeOK'
  <2>1. PICK i \in 1 .. Len(log) :
             /\ stream' = [stream EXCEPT ![p].next = i + 1]
             /\ \/ UNCHANGED <<text, version>>
                \/ /\ text' = [text EXCEPT ![p] = key[p]]
                   /\ version' = [version EXCEPT ![p] = log[i].version]
             /\ UNCHANGED <<server, creating, unlock, save, key, opened>>
    BY <1>10, Received
  <2>2. UNCHANGED <<made, room, session, log, savedFrom, creating, unlock, save, key, opened>>
    BY <2>1 DEF server
  <2>3. log[i].version \in Versions
    <3>1. log[i] \in Envelopes
      BY <2>1 DEF TypeOK
    <3>. QED  BY <3>1 DEF Envelopes
  <2>4. text' \in [Pages -> 0 .. made] /\ version' \in [Pages -> Versions]
    <3>1. CASE UNCHANGED <<text, version>>
      BY <3>1 DEF TypeOK
    <3>2. CASE /\ text' = [text EXCEPT ![p] = key[p]]
               /\ version' = [version EXCEPT ![p] = log[i].version]
      BY <2>3, <3>2 DEF TypeOK
    <3>. QED  BY <2>1, <3>1, <3>2
  <2>5. stream[p] \in [at : {"attached"}, key : Nat, next : Nat \ {0}]
    BY <1>10 DEF Receive, TypeOK, StreamStates, Closed
  <2>6. /\ [stream[p] EXCEPT !.next = i + 1] \in StreamStates
        /\ [stream[p] EXCEPT !.next = i + 1].next = i + 1
    <3>1. i + 1 \in Nat \ {0}
      BY <2>1
    <3>. QED  BY <2>5, <3>1 DEF StreamStates
  <2>7. stream' \in [Pages -> StreamStates]
    BY <2>1, <2>6 DEF TypeOK
  <2>8. \A q \in Pages : stream'[q].at = "attached" => stream'[q].next <= Len(log') + 1
    BY <1>0, <2>1, <2>2, <2>6 DEF TypeOK
  <2>. QED  BY <2>2, <2>4, <2>7, <2>8 DEF TypeOK
<1>11. ASSUME NEW p \in Pages, ClickSave(p)  PROVE TypeOK'
  <2> DEFINE e == [version |-> version[p] + 1,
                   box |-> [key |-> key[p], aad |-> version[p] + 1, content |-> text[p]]]
  <2>1. e \in Envelopes
    <3>1. version[p] + 1 \in Versions
      BY <1>11 DEF ClickSave, TypeOK, Versions
    <3>2. key[p] \in Nat /\ text[p] \in Nat
      BY <1>0 DEF TypeOK
    <3>. QED  BY <3>1, <3>2 DEF Envelopes, Boxes
  <2>2. save' = [save EXCEPT ![p] = [at |-> "sent", from |-> opened[p], envelope |-> e]]
    BY <1>11 DEF ClickSave, Set, EncryptClipboard, Seal
  <2> HIDE DEF e
  <2>3. save' \in [Pages -> {Idle} \cup [at : {"sent"}, from : Nat, envelope : Envelopes]
                                    \cup [at : {"saved"}, version : Versions]]
    <3>1. opened[p] \in Nat
      BY <1>0 DEF TypeOK
    <3>. QED  BY <2>1, <2>2, <3>1 DEF TypeOK
  <2>. QED  BY <1>11, <2>3 DEF ClickSave, TypeOK, server, page
<1>12. ASSUME NEW p \in Pages, Update(p)  PROVE TypeOK'
  <2>0. save[p].envelope \in Envelopes /\ save[p].from \in Nat
    BY <1>12, SaveFields DEF Update
  <2>1. save[p].envelope.version \in Versions
    BY <2>0 DEF Envelopes
  <2>2. CASE /\ Served(p)
             /\ room' = [room EXCEPT !.envelope = save[p].envelope]
             /\ log' = Append(log, save[p].envelope)
             /\ save' = Set(save, p, [at |-> "saved", version |-> save[p].envelope.version])
             /\ savedFrom' = save[p].from
             /\ UNCHANGED <<made, session, creating, unlock, page>>
    <3>1. room' \in Records
      <4>1. room \in Records
        BY <2>2, RoomFields DEF Served
      <4>. QED  BY <2>0, <2>2, <4>1 DEF Records
    <3>2. log' \in Seq(Envelopes) /\ Len(log') = Len(log) + 1
      BY <2>0, <2>2 DEF TypeOK
    <3>3. save' \in [Pages -> {Idle} \cup [at : {"sent"}, from : Nat, envelope : Envelopes]
                                      \cup [at : {"saved"}, version : Versions]]
      BY <2>1, <2>2 DEF TypeOK, Set
    <3>4. /\ UNCHANGED <<made, session, creating, unlock, key, text, version, stream, opened>>
          /\ savedFrom' \in Nat
      BY <2>0, <2>2 DEF page
    <3>5. \A q \in Pages : stream'[q].at = "attached" => stream'[q].next <= Len(log') + 1
      <4>1. \A q \in Pages : stream[q].at = "attached" => stream[q].next \in Nat
        BY StreamFields
      <4>. QED  BY <1>0, <3>2, <3>4, <4>1 DEF TypeOK
    <3>. QED  BY <3>1, <3>2, <3>3, <3>4, <3>5 DEF TypeOK
  <2>3. CASE /\ save' = Set(save, p, Idle)
             /\ UNCHANGED <<room, log, savedFrom>>
             /\ UNCHANGED <<made, session, creating, unlock, page>>
    <3>1. save' \in [Pages -> {Idle} \cup [at : {"sent"}, from : Nat, envelope : Envelopes]
                                      \cup [at : {"saved"}, version : Versions]]
      BY <2>3 DEF TypeOK, Set
    <3>. QED  BY <2>3, <3>1 DEF TypeOK, page
  <2>. QED  BY <1>12, <2>2, <2>3 DEF Update
<1>13. ASSUME NEW p \in Pages, SaveEnds(p)  PROVE TypeOK'
  <2>1. save' \in [Pages -> {Idle} \cup [at : {"sent"}, from : Nat, envelope : Envelopes]
                                    \cup [at : {"saved"}, version : Versions]]
    BY <1>13 DEF SaveEnds, Set, TypeOK
  <2>2. version' \in [Pages -> Versions]
    BY <1>13, SaveFields DEF SaveEnds, Set, TypeOK
  <2>. QED  BY <1>13, <2>1, <2>2 DEF SaveEnds, TypeOK, server
<1>14. CASE ExpireRoom
  BY <1>14 DEF ExpireRoom, TypeOK, page
<1>15. ASSUME NEW p \in Pages, ExpireSession(p)  PROVE TypeOK'
  <2>1. session' \in [Pages -> 0 .. made]
    BY <1>0, <1>15 DEF ExpireSession, Set, TypeOK
  <2>. QED  BY <1>15, <2>1 DEF ExpireSession, TypeOK, page
<1>16. CASE UNCHANGED vars
  BY <1>16 DEF vars, server, page, TypeOK
<1>. QED
  BY <1>1, <1>2, <1>3, <1>4, <1>5, <1>6, <1>7, <1>8, <1>9, <1>10, <1>11, <1>12, <1>13,
     <1>14, <1>15, <1>16 DEF Next

(* What is sealed stays so, whatever rooms follow.                         *)
LEMMA SoundStep ==
    ASSUME TypeOK, Sound, Wrapped, StreamHasKey, ShowsItsRoom, [Next]_vars
    PROVE  Sound'
<1> USE LivesAssumption
<1>0. made \in Nat /\ Len(log) \in Nat
  BY DEF TypeOK
<1>1. CASE CreateRoom
  <2>1. made' = made + 1 /\ UNCHANGED <<log, save>>
    BY <1>1 DEF CreateRoom
  <2>2. room'.envelope.box = [key |-> made', aad |-> 1, content |-> made']
        /\ room'.envelope.version = 1
    BY <1>1, CreateSeals
  <2>3. /\ room'.envelope.box.content = made' /\ room'.envelope.box.key = made'
        /\ room'.envelope.box.aad = 1
    BY <2>2
  <2>4. /\ \A i \in 1 .. Len(log) : log[i].box.key \in Nat
        /\ \A p \in Pages : save[p].at = "sent" => save[p].envelope.box.key \in Nat
    <3>1. \A e \in Envelopes : e.box.key \in Nat
      BY DEF Envelopes, Boxes
    <3>2. \A i \in 1 .. Len(log) : log[i] \in Envelopes
      BY DEF TypeOK
    <3>3. \A p \in Pages : save[p].at = "sent" => save[p].envelope \in Envelopes
      BY SaveFields
    <3>. QED  BY <3>1, <3>2, <3>3
  <2>. QED  BY <1>0, <2>1, <2>2, <2>3, <2>4 DEF Sound, Sealed
<1>2. ASSUME NEW p \in Pages, ClickSave(p)  PROVE Sound'
  <2> DEFINE e == [version |-> version[p] + 1,
                   box |-> [key |-> key[p], aad |-> version[p] + 1, content |-> text[p]]]
  <2>1. Sealed(e)
    <3>1. text[p] = key[p] /\ key[p] <= made
      BY <1>0, <1>2 DEF ClickSave, ShowsItsRoom, TypeOK
    <3>. QED  BY <3>1 DEF Sealed
  <2>2. save' = [save EXCEPT ![p] = [at |-> "sent", from |-> opened[p], envelope |-> e]]
    BY <1>2 DEF ClickSave, Set, EncryptClipboard, Seal
  <2> HIDE DEF e
  <2>3. save'[p].envelope = e /\ \A q \in Pages \ {p} : save'[q] = save[q]
    BY <2>2 DEF TypeOK
  <2>4. UNCHANGED <<made, room, log>>
    BY <1>2 DEF ClickSave, server
  <2>. QED  BY <2>1, <2>3, <2>4 DEF Sound, Sealed
<1>3. ASSUME NEW p \in Pages, Update(p)  PROVE Sound'
  <2>1. save[p].envelope \in Envelopes /\ Sealed(save[p].envelope)
    BY <1>3, SaveFields DEF Update, Sound
  <2>2. made' = made
    BY <1>3 DEF Update
  <2>3. \A q \in Pages : save'[q].at = "sent" => save'[q] = save[q]
    BY <1>3 DEF Update, Set, Idle, TypeOK
  <2>4. CASE /\ Served(p)
             /\ room' = [room EXCEPT !.envelope = save[p].envelope]
             /\ log' = Append(log, save[p].envelope)
    <3>1. room'.envelope = save[p].envelope
      <4>1. room \in Records
        BY <2>4, RoomFields DEF Served
      <4>. QED  BY <2>4, <4>1 DEF Records
    <3>2. \A i \in 1 .. Len(log') : Sealed(log'[i])
      <4>1. Len(log') = Len(log) + 1 /\ log'[Len(log) + 1] = save[p].envelope
            /\ \A i \in 1 .. Len(log) : log'[i] = log[i]
        BY <2>1, <2>4 DEF TypeOK
      <4>2. \A i \in 1 .. Len(log') : i \in 1 .. Len(log) \/ i = Len(log) + 1
        BY <1>0, <4>1
      <4>. QED  BY <2>1, <4>1, <4>2 DEF Sound
    <3>. QED  BY <2>1, <2>2, <2>3, <3>1, <3>2 DEF Sound, Sealed
  <2>5. CASE UNCHANGED <<room, log>>
    BY <2>2, <2>3, <2>5 DEF Sound, Sealed
  <2>. QED  BY <1>3, <2>4, <2>5 DEF Update
<1>4. ASSUME NEW p \in Pages, SaveEnds(p)  PROVE Sound'
  <2>1. \A q \in Pages : save'[q].at = "sent" => save'[q] = save[q]
    BY <1>4 DEF SaveEnds, Set, Idle, TypeOK
  <2>. QED  BY <1>4, <2>1 DEF SaveEnds, server, Sound, Sealed
<1>5. CASE ExpireRoom
  BY <1>5 DEF ExpireRoom, Sound, Sealed
<1>6. CASE UNCHANGED <<made, room, log, save>>
  BY <1>6 DEF Sound, Sealed
<1>7. ASSUME NEW p \in Pages, Lock(p)  PROVE UNCHANGED <<made, room, log, save>>
  BY <1>7, Locked
<1>8. ASSUME NEW password \in Passwords, ClickCreate(password)
      PROVE  UNCHANGED <<made, room, log, save>>
  BY <1>8 DEF ClickCreate, server
<1>9. CASE CreateEndsElsewhere
  BY <1>6, <1>9 DEF CreateEndsElsewhere, server
<1>10. ASSUME NEW p \in Pages, NEW password \in Passwords, ClickUnlock(p, password)
       PROVE  UNCHANGED <<made, room, log, save>>
  BY <1>7, <1>10 DEF ClickUnlock, server
<1>11. ASSUME NEW p \in Pages,
              \/ Login(p) \/ Open(p) \/ UnlockFails(p)
              \/ Subscribe(p) \/ Drop(p) \/ Receive(p) \/ ExpireSession(p)
       PROVE  UNCHANGED <<made, room, log, save>>
  BY <1>7, <1>11 DEF Login, Open, UnlockFails, Subscribe, Drop, Receive, ExpireSession, server
<1>12. CASE UNCHANGED vars
  BY <1>6, <1>12 DEF vars, server
<1>. QED
  BY <1>1, <1>2, <1>3, <1>4, <1>5, <1>6, <1>8, <1>9, <1>10, <1>11, <1>12 DEF Next

(* A room keeps the metadata it was created with.                          *)
LEMMA WrappedStep ==
    ASSUME TypeOK, Wrapped, [Next]_vars
    PROVE  Wrapped'
<1>1. CASE CreateRoom
  BY <1>1, CreateSeals DEF Wrapped
<1>2. ASSUME NEW p \in Pages, Update(p)  PROVE Wrapped'
  <2>1. CASE Served(p) /\ room' = [room EXCEPT !.envelope = save[p].envelope]
    <3>1. room \in Records /\ room # NoRoom
      BY <2>1, RoomFields DEF Served
    <3>2. room'.auth = room.auth /\ room'.meta = room.meta
      BY <2>1, <3>1 DEF Records
    <3>. QED  BY <1>2, <3>1, <3>2 DEF Update, Wrapped
  <2>2. CASE room' = room
    BY <1>2, <2>2 DEF Update, Wrapped
  <2>. QED  BY <1>2, <2>1, <2>2 DEF Update
<1>3. CASE ExpireRoom
  BY <1>3 DEF ExpireRoom, Wrapped
<1>4. CASE UNCHANGED <<made, room>>
  BY <1>4 DEF Wrapped
<1>5. ASSUME NEW p \in Pages, Lock(p)  PROVE UNCHANGED <<made, room>>
  BY <1>5, Locked
<1>6. ASSUME NEW password \in Passwords, ClickCreate(password)  PROVE UNCHANGED <<made, room>>
  BY <1>6 DEF ClickCreate, server
<1>7. CASE CreateEndsElsewhere
  BY <1>4, <1>7 DEF CreateEndsElsewhere, server
<1>8. ASSUME NEW p \in Pages, NEW password \in Passwords, ClickUnlock(p, password)
      PROVE  UNCHANGED <<made, room>>
  BY <1>5, <1>8 DEF ClickUnlock, server
<1>9. ASSUME NEW p \in Pages,
             \/ Login(p) \/ Open(p) \/ UnlockFails(p) \/ Subscribe(p) \/ Drop(p)
             \/ Receive(p) \/ ExpireSession(p) \/ ClickSave(p) \/ SaveEnds(p)
      PROVE  UNCHANGED <<made, room>>
  BY <1>5, <1>9 DEF Login, Open, UnlockFails, Subscribe, Drop, Receive, ExpireSession, ClickSave,
                    SaveEnds, server
<1>10. CASE UNCHANGED vars
  BY <1>4, <1>10 DEF vars, server
<1>. QED
  BY <1>1, <1>2, <1>3, <1>4, <1>6, <1>7, <1>8, <1>9, <1>10, LivesAssumption DEF Next

(* Neither a page's key nor that of a save under way changes with the      *)
(* rooms that have the code.                                               *)
LEMMA HistoryStep ==
    ASSUME TypeOK, Sound, Wrapped, History, [Next]_vars
    PROVE  History'
<1>1. CASE CreateRoom
  <2>1. /\ UNCHANGED <<key, opened, save>> /\ savedFrom' = made'
    BY <1>1 DEF CreateRoom, page
  <2>2. room'.envelope.box.key = made'
    <3>1. room'.envelope = [version |-> 1, box |-> [key |-> made', aad |-> 1, content |-> made']]
      BY <1>1, CreateSeals
    <3>. QED  BY <3>1
  <2>. QED  BY <2>1, <2>2 DEF History
<1>2. ASSUME NEW p \in Pages, Lock(p)  PROVE History'
  <2>1. /\ UNCHANGED <<room, save, savedFrom>> /\ key'[p] = 0
        /\ \A q \in Pages \ {p} : key'[q] = key[q] /\ opened'[q] = opened[q]
    BY <1>2, Locked
  <2>. QED  BY <2>1 DEF History
<1>3. CASE UNCHANGED <<room, savedFrom, save, key, opened>>
  BY <1>3 DEF History
<1>4. ASSUME NEW p \in Pages, Open(p)  PROVE History'
  <2>1. /\ key' = [key EXCEPT ![p] = made] /\ opened' = [opened EXCEPT ![p] = made]
        /\ UNCHANGED <<room, savedFrom, save>>
    BY <1>4, OpenShows DEF Open, Set, server
  <2>. QED  BY <2>1 DEF History, TypeOK
<1>5. ASSUME NEW p \in Pages, ClickSave(p)  PROVE History'
  <2>1. UNCHANGED <<room, savedFrom, key, opened>>
    BY <1>5 DEF ClickSave, server, page
  <2>2. PICK e : /\ e.box.key = key[p]
                 /\ save' = [save EXCEPT ![p] = [at |-> "sent", from |-> opened[p], envelope |-> e]]
    BY <1>5 DEF ClickSave, Set, EncryptClipboard, Seal
  <2>3. opened[p] = key[p]
    BY <1>5 DEF ClickSave, History
  <2>4. /\ save'[p].from = opened[p] /\ save'[p].envelope = e
        /\ \A q \in Pages \ {p} : save'[q] = save[q]
    BY <2>2 DEF TypeOK
  <2>. QED  BY <2>1, <2>2, <2>3, <2>4 DEF History
<1>6. ASSUME NEW p \in Pages, Update(p)  PROVE History'
  <2>1. UNCHANGED <<key, opened>>
    BY <1>6 DEF Update, page
  <2>2. \A q \in Pages : save'[q].at = "sent" => save'[q] = save[q]
    BY <1>6 DEF Update, Set, Idle, TypeOK
  <2>3. CASE /\ Served(p)
             /\ room' = [room EXCEPT !.envelope = save[p].envelope]
             /\ savedFrom' = save[p].from
    <3>1. room'.envelope = save[p].envelope
      <4>1. room \in Records
        BY <2>3, RoomFields DEF Served
      <4>. QED  BY <2>3, <4>1 DEF Records
    <3>2. save[p].from = save[p].envelope.box.key
      BY <1>6 DEF Update, History
    <3>. QED  BY <2>1, <2>2, <2>3, <3>1, <3>2 DEF History
  <2>4. CASE UNCHANGED <<room, savedFrom>>
    BY <2>1, <2>2, <2>4 DEF History
  <2>. QED  BY <1>6, <2>3, <2>4 DEF Update
<1>7. ASSUME NEW p \in Pages, SaveEnds(p)  PROVE History'
  <2>1. UNCHANGED <<room, savedFrom, key, opened>>
    BY <1>7 DEF SaveEnds, server
  <2>2. \A q \in Pages : save'[q].at = "sent" => save'[q] = save[q]
    BY <1>7 DEF SaveEnds, Set, Idle, TypeOK
  <2>. QED  BY <2>1, <2>2 DEF History
<1>8. CASE ExpireRoom
  BY <1>8 DEF ExpireRoom, History, page
<1>9. ASSUME NEW password \in Passwords, ClickCreate(password)  PROVE History'
  BY <1>3, <1>9 DEF ClickCreate, server, page
<1>10. CASE CreateEndsElsewhere
  BY <1>3, <1>10 DEF CreateEndsElsewhere, server, page
<1>11. ASSUME NEW p \in Pages, NEW password \in Passwords, ClickUnlock(p, password)  PROVE History'
  BY <1>2, <1>3, <1>11 DEF ClickUnlock, server, page
<1>12. ASSUME NEW p \in Pages,
              Login(p) \/ Subscribe(p) \/ Drop(p) \/ Receive(p) \/ ExpireSession(p)
       PROVE  UNCHANGED <<room, savedFrom, save, key, opened>>
  BY <1>12 DEF Login, Subscribe, Drop, Receive, ExpireSession, server, page
<1>13. CASE UNCHANGED vars
  BY <1>3, <1>13 DEF vars, server, page
<1>. QED
  BY <1>1, <1>2, <1>3, <1>4, <1>5, <1>6, <1>7, <1>8, <1>9, <1>10, <1>11, <1>12, <1>13,
     LivesAssumption DEF Next, UnlockFails

(* A page shows what belongs to its key, and its stream has that key.      *)
LEMMA ShowsStep ==
    ASSUME TypeOK, Sound, Wrapped, StreamHasKey, ShowsItsRoom, [Next]_vars
    PROVE  ShowsItsRoom' /\ StreamHasKey'
<1>1. ASSUME NEW p \in Pages,
             \A q \in Pages \ {p} : key'[q] = key[q] /\ text'[q] = text[q] /\ stream'[q] = stream[q],
             key'[p] # 0 => text'[p] = key'[p],
             stream'[p].at # "closed" => stream'[p].key = key'[p],
             stream'[p] # Closed => stream'[p].at # "closed"
      PROVE  ShowsItsRoom' /\ StreamHasKey'
  BY <1>1 DEF ShowsItsRoom, StreamHasKey
<1>2. ASSUME NEW p \in Pages, Lock(p)  PROVE ShowsItsRoom' /\ StreamHasKey'
  BY <1>1, <1>2, Locked DEF Closed
<1>3. CASE UNCHANGED <<key, text, stream>>
  BY <1>3 DEF ShowsItsRoom, StreamHasKey
<1>4. ASSUME NEW p \in Pages, NEW password \in Passwords, ClickUnlock(p, password)
      PROVE  ShowsItsRoom' /\ StreamHasKey'
  BY <1>2, <1>3, <1>4 DEF ClickUnlock, page
<1>5. ASSUME NEW p \in Pages, Open(p)  PROVE ShowsItsRoom' /\ StreamHasKey'
  <2>1. /\ key' = [key EXCEPT ![p] = made]
        /\ text' = [text EXCEPT ![p] = made]
        /\ stream' = [stream EXCEPT ![p] = [at |-> "connecting", key |-> made]]
    BY <1>5, OpenShows DEF Open, Set
  <2>2. /\ key'[p] = made /\ text'[p] = made /\ stream'[p].at = "connecting" /\ stream'[p].key = made
        /\ \A q \in Pages \ {p} : key'[q] = key[q] /\ text'[q] = text[q] /\ stream'[q] = stream[q]
    BY <2>1 DEF TypeOK
  <2>. QED  BY <1>1, <2>2
<1>6. ASSUME NEW p \in Pages, Subscribe(p) \/ Drop(p)  PROVE ShowsItsRoom' /\ StreamHasKey'
  <2>1. UNCHANGED <<key, text>> /\ \A q \in Pages \ {p} : stream'[q] = stream[q]
    BY <1>6 DEF Subscribe, Drop, Set, TypeOK
  <2>2. \/ stream'[p] = Closed
        \/ stream'[p].at \in {"connecting", "attached"} /\ stream'[p].key = stream[p].key
    BY <1>6 DEF Subscribe, Drop, Set, TypeOK
  <2>3. stream[p].key = key[p] /\ (key[p] # 0 => text[p] = key[p])
    BY <1>6 DEF Subscribe, Drop, StreamHasKey, ShowsItsRoom
  <2>. QED  BY <1>1, <2>1, <2>2, <2>3 DEF Closed
<1>7. ASSUME NEW p \in Pages, Receive(p)  PROVE ShowsItsRoom' /\ StreamHasKey'
  <2>1. PICK i \in 1 .. Len(log) :
             /\ stream' = [stream EXCEPT ![p].next = i + 1]
             /\ text' = text \/ text' = [text EXCEPT ![p] = key[p]]
             /\ key' = key
    BY <1>7, Received
  <2>2. stream[p] \in [at : {"attached"}, key : Nat, next : Nat \ {0}]
    BY <1>7 DEF Receive, TypeOK, StreamStates, Closed
  <2>3. stream'[p].at = "attached" /\ stream'[p].key = stream[p].key
        /\ \A q \in Pages \ {p} : stream'[q] = stream[q]
    BY <2>1, <2>2 DEF TypeOK
  <2>4. /\ \A q \in Pages \ {p} : text'[q] = text[q]
        /\ key[p] # 0 => text'[p] = key[p]
    BY <2>1 DEF TypeOK, ShowsItsRoom
  <2>5. stream[p].key = key[p]
    BY <2>2 DEF StreamHasKey
  <2>. QED  BY <1>1, <2>1, <2>3, <2>4, <2>5
<1>8. CASE CreateRoom \/ CreateEndsElsewhere \/ ExpireRoom
  BY <1>3, <1>8 DEF CreateRoom, CreateEndsElsewhere, ExpireRoom, page
<1>9. ASSUME NEW p \in Pages,
             Login(p) \/ ClickSave(p) \/ Update(p) \/ SaveEnds(p) \/ ExpireSession(p)
      PROVE  UNCHANGED <<key, text, stream>>
  BY <1>9 DEF Login, ClickSave, Update, SaveEnds, ExpireSession, page
<1>10. ASSUME NEW password \in Passwords, ClickCreate(password)  PROVE UNCHANGED <<key, text, stream>>
  BY <1>10 DEF ClickCreate, page
<1>11. CASE UNCHANGED vars
  BY <1>3, <1>11 DEF vars, page
<1>. QED
  BY <1>2, <1>3, <1>4, <1>5, <1>6, <1>7, <1>8, <1>9, <1>10, <1>11, LivesAssumption
     DEF Next, UnlockFails

-----------------------------------------------------------------------------
IInv ==
    /\ TypeOK
    /\ ShowsItsRoom
    /\ StreamHasKey
    /\ Sound
    /\ Wrapped
    /\ History

LEMMA InitIInv == Init => IInv
<1> SUFFICES ASSUME Init PROVE IInv
  OBVIOUS
<1> USE LivesAssumption
<1>1. TypeOK
  BY DEF Init, TypeOK, Versions, StreamStates, Closed
<1>2. ShowsItsRoom /\ StreamHasKey
  BY DEF Init, ShowsItsRoom, StreamHasKey, Closed
<1>3. Sound /\ Wrapped /\ History
  BY DEF Init, Sound, Wrapped, History, Idle
<1>. QED  BY <1>1, <1>2, <1>3 DEF IInv

LEMMA NextIInv == IInv /\ [Next]_vars => IInv'
  BY TypeStep, SoundStep, WrappedStep, HistoryStep, ShowsStep DEF IInv

LEMMA AlwaysIInv == Spec => []IInv
  BY InitIInv, NextIInv, PTL DEF Spec

(* Server and pages hold what their types allow.                           *)
THEOREM TypeAlways == Spec => []TypeOK
<1>1. IInv => TypeOK
  BY DEF IInv
<1>. QED  BY AlwaysIInv, <1>1, PTL

(* A page that is unlocked shows what was written in its own room only,    *)
(* however many rooms have had the code since, and its event stream        *)
(* decrypts with the same key.                                             *)
THEOREM ShowsItsRoomAlways == Spec => []ShowsItsRoom
<1>1. IInv => ShowsItsRoom
  BY DEF IInv
<1>. QED  BY AlwaysIInv, <1>1, PTL

(* A page opens only a room whose password it was given, in spite of       *)
(* sessions that outlive the room they were opened for.                    *)
THEOREM OpensWithItsPasswordAlways == Spec => OpensWithItsPassword
<1>1. IInv /\ [Next]_vars => [\A p \in Pages : Open(p) => unlock[p].password = room.auth]_vars
  BY OpenShows DEF IInv
<1>. QED  BY AlwaysIInv, <1>1, PTL DEF Spec, OpensWithItsPassword

(* Whoever has the password of the room can open it and read its text if,  *)
(* and only if, the last save was not made by a page of an earlier room.   *)
THEOREM OpensAlways == Spec => []OpensUnlessOldPageSaved
<1>1. IInv => OpensUnlessOldPageSaved
  <2> SUFFICES ASSUME IInv, room # NoRoom
      PROVE  Opens <=> savedFrom = made
    BY DEF OpensUnlessOldPageSaved
  <2>1. made \in Nat /\ made # Failed
    BY LivesAssumption DEF IInv, TypeOK
  <2>2. UnlockRoomKey(room.auth, room.meta) = made
    BY DEF IInv, Wrapped, UnlockRoomKey, EnsurePassword, Unseal, WrappingKey
  <2>3. DecryptClipboard(made, room.envelope) =
          IF room.envelope.box.key = made THEN made ELSE Failed
    BY DEF IInv, Sound, Sealed, DecryptClipboard, Unseal
  <2>4. savedFrom = room.envelope.box.key
    BY DEF IInv, History
  <2>. QED  BY <2>1, <2>2, <2>3, <2>4 DEF Opens
<1>. QED  BY AlwaysIInv, <1>1, PTL
=============================================================================
