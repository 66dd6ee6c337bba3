------------------------------ MODULE RoomLives ------------------------------
(***************************************************************************)
(* One code and the rooms that have it one after the other: the pages of   *)
(* src/src/app.rs that create, unlock and save, the handlers of            *)
(* src/src/api.rs with their sessions and the code's broadcast channel,    *)
(* and scpy-crypto.                                                        *)
(*                                                                         *)
(* The server knows a room by its code alone: a session is for a code, the *)
(* channel of a code is never removed, and a room that has expired is      *)
(* followed by another one while pages of the first are still open.  What  *)
(* keeps the two apart is the room key in the browser.                     *)
(*                                                                         *)
(* A request whose handler only reads is one action with its answer and    *)
(* what the page does then, and so are the two requests of a login, which  *)
(* share nothing with others in between: RoomSync and LoginSessions look   *)
(* into these.  The n-th room of the code has n for its random values; a   *)
(* text is named by the room it was written in.                            *)
(***************************************************************************)
EXTENDS ClipCrypto, Sequences

CONSTANTS
    Pages,      \* browsers that have the page of the code open
    Savers,     \* those among them that save
    Passwords,  \* what people type, Empty among it
    Capacity,   \* events the broadcast channel retains
    MaxRooms,   \* bound: rooms that get the code
    MaxVersion  \* bound: content versions go from 1 to MaxVersion

ASSUME LivesAssumption ==
    /\ Savers \subseteq Pages
    /\ Capacity \in Nat \ {0}
    /\ MaxRooms \in Nat
    /\ MaxVersion \in Nat \ {0}
    /\ Failed \notin Nat

VARIABLES
    made,      \* number of rooms that had the code so far
    room,      \* the record of the code: the last of them, or NoRoom
    session,   \* the room whose login set page p's session cookie, or 0
    log,       \* every event sent to the channel of the code
    creating,  \* a landing page that creates a room, and its password
    unlock,    \* how far unlock_room of page p is, and its password
    key,       \* the signal room_key, 0 for None; unlocked is key # 0
    text,      \* the signal clipboard: the room its text was written in
    version,   \* the signal version
    save,      \* how far save_update of page p is
    stream,    \* the EventSource of page p, with the key of its closure
    opened,    \* history: the room that page p is unlocked for, or 0
    savedFrom  \* history: the room whose page made the latest save

(* No action reads the history, opened, savedFrom and the field from of a  *)
(* save: it is there for what is said of the room's text.                  *)
server == <<made, room, session, log, savedFrom>>
page == <<key, text, version, stream, opened>>
vars == <<server, creating, unlock, save, page>>

NoRoom == [auth |-> Empty]
Idle == [at |-> "idle"]
Closed == [at |-> "closed"]
Set(f, p, value) == [f EXCEPT ![p] = value]

(* is_authorized: the cookie names a session for this code.  A handler     *)
(* answers 401 without it, 404 without a room.                             *)
Served(p) == session[p] # 0 /\ room # NoRoom

-----------------------------------------------------------------------------
Init ==
    /\ made = 0
    /\ room = NoRoom
    /\ session = [p \in Pages |-> 0]
    /\ log = <<>>
    /\ creating = Idle
    /\ unlock = [p \in Pages |-> Idle]
    /\ key = [p \in Pages |-> 0]
    /\ text = [p \in Pages |-> 0]
    /\ version = [p \in Pages |-> 0]
    /\ save = [p \in Pages |-> Idle]
    /\ stream = [p \in Pages |-> Closed]
    /\ opened = [p \in Pages |-> 0]
    /\ savedFrom = 0

(* create_room of LandingPage encrypts and registers, which nobody else    *)
(* sees, and then asks for a room.                                         *)
ClickCreate(password) ==
    /\ creating = Idle
    /\ EnsurePassword(password)
    /\ creating' = [at |-> "create", password |-> password]
    /\ UNCHANGED <<server, unlock, save, page>>

(* POST /api/rooms: the allocator gives this code if it is free.           *)
CreateRoom ==
    /\ creating.at = "create"
    /\ room = NoRoom
    /\ made < MaxRooms
    /\ made' = made + 1
    /\ savedFrom' = made'
    /\ LET created == EncryptedRoom(creating.password, made', made')
       IN  room' = [auth |-> creating.password, meta |-> created.meta, envelope |-> created.envelope]
    /\ creating' = Idle
    /\ UNCHANGED <<session, log, unlock, save, page>>

(* A request of it fails, or the room gets another code.                   *)
CreateEndsElsewhere ==
    /\ creating # Idle
    /\ creating' = Idle
    /\ UNCHANGED <<server, unlock, save, page>>

-----------------------------------------------------------------------------
(* Every return of unlock_room but the last: close_room_stream, no key.    *)
Lock(p) ==
    /\ key' = Set(key, p, 0)
    /\ stream' = Set(stream, p, Closed)
    /\ opened' = Set(opened, p, 0)
    /\ unlock' = Set(unlock, p, Idle)
    /\ UNCHANGED <<server, creating, save, text, version>>

(* The button is disabled while loading.                                   *)
ClickUnlock(p, password) ==
    /\ unlock[p] = Idle
    /\ \/ /\ ~EnsurePassword(password)
          /\ Lock(p)
       \/ /\ EnsurePassword(password)
          /\ unlock' = Set(unlock, p, [at |-> "login", password |-> password])
          /\ UNCHANGED <<server, creating, save, page>>

(* login/start is answered with the registration of the room that has the  *)
(* code now, ClientLogin::finish passes with its password only, and        *)
(* login/finish sets a cookie for the code.                                *)
Login(p) ==
    /\ unlock[p].at = "login"
    /\ room # NoRoom
    /\ unlock[p].password = room.auth
    /\ session' = Set(session, p, made)
    /\ unlock' = Set(unlock, p, [at |-> "fetch", password |-> room.auth])
    /\ UNCHANGED <<made, room, log, savedFrom, creating, save, page>>

SnapshotKey(p) == UnlockRoomKey(unlock[p].password, room.meta)
SnapshotText(p) == DecryptClipboard(SnapshotKey(p), room.envelope)

OpenKeepsStream(p) ==
    /\ unlock[p].at = "fetch" /\ Served(p) /\ SnapshotKey(p) # Failed /\ SnapshotText(p) # Failed
    /\ key' = Set(key, p, SnapshotKey(p)) /\ text' = Set(text, p, SnapshotText(p))
    /\ version' = Set(version, p, room.envelope.version)
    /\ stream' = IF stream[p] # Closed THEN stream
                 ELSE Set(stream, p, [at |-> "connecting", key |-> SnapshotKey(p)])
    /\ opened' = Set(opened, p, made) /\ unlock' = Set(unlock, p, Idle)
    /\ UNCHANGED <<server, creating, save>>

OpenKeepsKey(p) ==
    /\ unlock[p].at = "fetch" /\ Served(p) /\ SnapshotKey(p) # Failed /\ SnapshotText(p) # Failed
    /\ key' = Set(key, p, IF key[p] # 0 THEN key[p] ELSE SnapshotKey(p))
    /\ text' = Set(text, p, SnapshotText(p)) /\ version' = Set(version, p, room.envelope.version)
    /\ stream' = Set(stream, p, [at |-> "connecting", key |-> SnapshotKey(p)])
    /\ opened' = Set(opened, p, made) /\ unlock' = Set(unlock, p, Idle)
    /\ UNCHANGED <<server, creating, save>>

(* GET /api/rooms/{room_id}: the key is unwrapped, the text decrypted, and *)
(* attach_room_stream replaces the stream.                                 *)
Open(p) ==
    /\ unlock[p].at = "fetch"
    /\ Served(p)
    /\ SnapshotKey(p) # Failed
    /\ SnapshotText(p) # Failed
    /\ key' = Set(key, p, SnapshotKey(p))
    /\ text' = Set(text, p, SnapshotText(p))
    /\ version' = Set(version, p, room.envelope.version)
    /\ stream' = Set(stream, p, [at |-> "connecting", key |-> SnapshotKey(p)])
    /\ opened' = Set(opened, p, made)
    /\ unlock' = Set(unlock, p, Idle)
    /\ UNCHANGED <<server, creating, save>>

(* A wrong password, no room, no session, a snapshot that does not open,   *)
(* or any request that fails.                                              *)
UnlockFails(p) ==
    /\ unlock[p] # Idle
    /\ Lock(p)

-----------------------------------------------------------------------------
SubscribePastNext(p) ==
    /\ stream[p].at = "connecting"
    /\ stream' = Set(stream, p,
         IF Served(p) THEN [at |-> "attached", key |-> stream[p].key, next |-> Len(log) + 2]
         ELSE Closed)
    /\ UNCHANGED <<server, creating, unlock, save, key, text, version, opened>>

(* room_events: a receiver for what is sent from now on.  An answer that   *)
(* is an error closes the EventSource.                                     *)
Subscribe(p) ==
    /\ stream[p].at = "connecting"
    /\ stream' = Set(stream, p,
         IF Served(p) THEN [at |-> "attached", key |-> stream[p].key, next |-> Len(log) + 1]
         ELSE Closed)
    /\ UNCHANGED <<server, creating, unlock, save, key, text, version, opened>>

(* The browser connects again by itself, to whatever room has the code.    *)
Drop(p) ==
    /\ stream[p].at = "attached"
    /\ stream' = Set(stream, p, [at |-> "connecting", key |-> stream[p].key])
    /\ UNCHANGED <<server, creating, unlock, save, key, text, version, opened>>

Oldest == IF Len(log) > Capacity THEN Len(log) - Capacity + 1 ELSE 1

(* on_clipboard decrypts with the key of its own closure; an event that    *)
(* does not decrypt only changes the status.                               *)
Receive(p) ==
    /\ stream[p].at = "attached"
    /\ stream[p].next <= Len(log)
    /\ LET i == IF stream[p].next < Oldest THEN Oldest ELSE stream[p].next
           decrypted == DecryptClipboard(stream[p].key, log[i])
       IN  /\ stream' = [stream EXCEPT ![p].next = i + 1]
           /\ IF decrypted # Failed
              THEN /\ text' = Set(text, p, decrypted)
                   /\ version' = Set(version, p, log[i].version)
              ELSE UNCHANGED <<text, version>>
    /\ UNCHANGED <<server, creating, unlock, save, key, opened>>

-----------------------------------------------------------------------------
(* save_update: key, text and version of this moment.                      *)
ClickSave(p) ==
    /\ key[p] # 0
    /\ save[p] = Idle
    /\ version[p] < MaxVersion
    /\ save' = Set(save, p, [at |-> "sent", from |-> opened[p],
                             envelope |-> EncryptClipboard(key[p], text[p], version[p] + 1)])
    /\ UNCHANGED <<server, creating, unlock, page>>

(* update_clipboard: the store takes the next version for the code, and    *)
(* the channel the event; an answer that is an error changes nothing.      *)
Update(p) ==
    /\ save[p].at = "sent"
    /\ LET envelope == save[p].envelope
       IN  IF Served(p) /\ envelope.version = room.envelope.version + 1
           THEN /\ room' = [room EXCEPT !.envelope = envelope]
                /\ log' = Append(log, envelope)
                /\ savedFrom' = save[p].from
                /\ save' = Set(save, p, [at |-> "saved", version |-> envelope.version])
           ELSE /\ save' = Set(save, p, Idle)
                /\ UNCHANGED <<room, log, savedFrom>>
    /\ UNCHANGED <<made, session, creating, unlock, page>>

(* The answer, or an error instead.  A handler that runs on after the page *)
(* has seen its POST fail is RoomSync's part.                              *)
SaveEnds(p) ==
    /\ save[p] # Idle
    /\ \/ save[p].at = "saved" /\ version' = Set(version, p, save[p].version)
       \/ UNCHANGED version
    /\ save' = Set(save, p, Idle)
    /\ UNCHANGED <<server, creating, unlock, key, text, stream, opened>>

-----------------------------------------------------------------------------
(* The room expires and its code is free again; a session expires.         *)
ExpireRoom ==
    /\ room # NoRoom
    /\ room' = NoRoom
    /\ savedFrom' = 0
    /\ UNCHANGED <<made, session, log, creating, unlock, save, page>>

ExpireSession(p) ==
    /\ session[p] # 0
    /\ session' = Set(session, p, 0)
    /\ UNCHANGED <<made, room, log, savedFrom, creating, unlock, save, page>>

Next ==
    \/ \E password \in Passwords : ClickCreate(password)
    \/ CreateRoom \/ CreateEndsElsewhere
    \/ \E p \in Pages :
         \/ \E password \in Passwords : ClickUnlock(p, password)
         \/ Login(p) \/ Open(p) \/ UnlockFails(p)
         \/ Subscribe(p) \/ Drop(p) \/ Receive(p) \/ ExpireSession(p)
    \/ \E p \in Savers : ClickSave(p) \/ Update(p) \/ SaveEnds(p)
    \/ ExpireRoom

Spec == Init /\ [][Next]_vars

-----------------------------------------------------------------------------
Versions == 0 .. MaxVersion
Boxes == [key : Nat, aad : Versions, content : Nat]
Envelopes == [version : Versions, box : Boxes]
Records ==
    [auth : Passwords \ {Empty},
     meta : [salt : Nat,
             wrapped : [key : [password : Passwords, salt : Nat], aad : {NoData}, content : Nat]],
     envelope : Envelopes]
StreamStates ==
    {Closed} \cup [at : {"connecting"}, key : Nat] \cup [at : {"attached"}, key : Nat, next : Nat \ {0}]

(* What server and pages hold. *)
TypeOK ==
    /\ made \in 0 .. MaxRooms
    /\ room \in {NoRoom} \cup Records
    /\ session \in [Pages -> 0 .. made]
    /\ log \in Seq(Envelopes)
    /\ creating \in {Idle} \cup [at : {"create"}, password : Passwords \ {Empty}]
    /\ unlock \in [Pages -> {Idle} \cup [at : {"login", "fetch"}, password : Passwords \ {Empty}]]
    /\ key \in [Pages -> 0 .. made]
    /\ text \in [Pages -> 0 .. made]
    /\ version \in [Pages -> Versions]
    /\ save \in [Pages -> {Idle} \cup [at : {"sent"}, from : Nat, envelope : Envelopes]
                               \cup [at : {"saved"}, version : Versions]]
    /\ stream \in [Pages -> StreamStates]
    /\ opened \in [Pages -> 0 .. made]
    /\ savedFrom \in Nat
    /\ \A p \in Pages : stream[p].at = "attached" => stream[p].next <= Len(log) + 1

(* A page that is unlocked shows, and so encrypts, only what was written   *)
(* in the room it is unlocked for, whichever rooms the session, the events *)
(* of the code and the answers it still waits for belong to.               *)
ShowsItsRoom ==
    \A p \in Pages : key[p] # 0 =>
        /\ text[p] = key[p]
        /\ stream[p] # Closed => stream[p].key = key[p]

(* A session of an earlier room is not enough to open the one that has the *)
(* code now: a page only opens a room whose own password was typed.        *)
OpensWithItsPassword ==
    [][\A p \in Pages : Open(p) => unlock[p].password = room.auth]_vars

(* What link and password of the room are good for: they unlock its key,   *)
(* and the key decrypts the text that is stored.                           *)
Opens ==
    LET unlocked == UnlockRoomKey(room.auth, room.meta)
    IN  unlocked # Failed /\ DecryptClipboard(unlocked, room.envelope) # Failed

(* The room's password opens the room and its text if, and only if, the    *)
(* last save was made by a page that was unlocked for this room, or there  *)
(* was none.  So the one thing that can spoil a room is a page of an       *)
(* earlier room of the code that saves into it: the session of that page   *)
(* and the version after the one it shows are all the server asks for.     *)
OpensUnlessOldPageSaved ==
    room # NoRoom => (Opens <=> savedFrom = made)

(* "Anyone with both can unlock the clipboard and see the latest text",    *)
(* says the landing page of password and link.                             *)
LinkAndPasswordShowLatest ==
    room # NoRoom => Opens
=============================================================================
