------------------------------- MODULE RoomSync -------------------------------
(***************************************************************************)
(* Live synchronisation of one clipboard between the browsers that have it *)
(* open: the handlers of src/src/api.rs with the broadcast channel of the  *)
(* room, and the page RoomPage of src/src/app.rs.                          *)
(*                                                                         *)
(* A save is a POST whose handler first updates the store, then sends an   *)
(* event to the channel, then answers; other handlers run in between, and  *)
(* when the connection is lost the handler may be dropped at any of these  *)
(* points or run on with nobody to answer.  Browsers read the room when    *)
(* they unlock it and subscribe to its events in a later request.  The     *)
(* store is one action here: RedisClips!Write says what it does.           *)
(*                                                                         *)
(* A text is identified by its author: what matters is whose text has      *)
(* which version.                                                          *)
(***************************************************************************)
EXTENDS Naturals, Sequences

CONSTANTS
    Clients,    \* browsers that have the page of the room open
    Writers,    \* those among them that save
    Slots,      \* bound: as many POST handlers run at a time
    None,       \* no slot
    Capacity,   \* events the broadcast channel retains
    MaxVersion  \* bound: content versions go from 1 to MaxVersion

ASSUME RoomAssumption ==
    /\ Writers \subseteq Clients
    /\ Capacity \in Nat \ {0}
    /\ MaxVersion \in Nat \ {0}
    /\ None \notin Slots

VARIABLES
    written,   \* written[v] is the author of version v; the last is in the store
    log,       \* every event sent to the channel; it retains the last Capacity
    handler,   \* handler[s] is the save that slot s works on
    version,   \* version[c] is the signal version of browser c
    base,      \* the version that the text in its textarea is, or was last sent as
    snapshot,  \* the version that the unlock in progress was answered, or 0
    unlocked,  \* the signal unlocked
    saving,    \* the slot whose answer browser c waits for, or None
    stream,    \* the state of the EventSource
    got,       \* an event has arrived since the stream was subscribed
    next       \* index in log of the next event the subscriber gets

store == <<written>>
page == <<version, base, snapshot, unlocked, saving>>
channel == <<log, stream, got, next>>
vars == <<store, handler, page, channel>>

Idle == [stage |-> "idle"]
Handler(stage, c, v) == [stage |-> stage, client |-> c, version |-> v]

-----------------------------------------------------------------------------
Init ==
    /\ \E creator \in Clients : written = <<creator>>
    /\ log = <<>>
    /\ handler = [s \in Slots |-> Idle]
    /\ version = [c \in Clients |-> 0]
    /\ base = [c \in Clients |-> 0]
    /\ snapshot = [c \in Clients |-> 0]
    /\ unlocked = [c \in Clients |-> FALSE]
    /\ saving = [c \in Clients |-> None]
    /\ stream = [c \in Clients |-> "closed"]
    /\ got = [c \in Clients |-> FALSE]
    /\ next = [c \in Clients |-> 1]

Detached(c) == got' = [got EXCEPT ![c] = FALSE] /\ next' = [next EXCEPT ![c] = 1]

(* unlock_room: after the login the page asks for the room and is answered *)
(* the room of that moment.  The button is disabled until all is done; an  *)
(* earlier stream and an earlier save go on meanwhile.                     *)
Unlock(c) ==
    /\ snapshot[c] = 0
    /\ snapshot' = [snapshot EXCEPT ![c] = Len(written)]
    /\ UNCHANGED <<store, handler, version, base, unlocked, saving, channel>>

UnlockedKeepsEdits(c) ==
    /\ snapshot[c] # 0
    /\ version' = [version EXCEPT ![c] = snapshot[c]]
    /\ base' = IF unlocked[c] THEN base ELSE [base EXCEPT ![c] = snapshot[c]]
    /\ snapshot' = [snapshot EXCEPT ![c] = 0]
    /\ unlocked' = [unlocked EXCEPT ![c] = TRUE]
    /\ stream' = [stream EXCEPT ![c] = "connecting"]
    /\ Detached(c)
    /\ UNCHANGED <<store, handler, saving, log>>

(* The answer is shown, and attach_room_stream replaces the stream.        *)
Unlocked(c) ==
    /\ snapshot[c] # 0
    /\ version' = [version EXCEPT ![c] = snapshot[c]]
    /\ base' = [base EXCEPT ![c] = snapshot[c]]
    /\ snapshot' = [snapshot EXCEPT ![c] = 0]
    /\ unlocked' = [unlocked EXCEPT ![c] = TRUE]
    /\ stream' = [stream EXCEPT ![c] = "connecting"]
    /\ Detached(c)
    /\ UNCHANGED <<store, handler, saving, log>>

(* A wrong password, or any request of the unlock that fails: what it was  *)
(* answered until then does not matter.                                    *)
UnlockFails(c) ==
    /\ snapshot[c] # 0
    /\ snapshot' = [snapshot EXCEPT ![c] = 0]
    /\ unlocked' = [unlocked EXCEPT ![c] = FALSE]
    /\ stream' = [stream EXCEPT ![c] = "closed"]
    /\ Detached(c)
    /\ UNCHANGED <<store, handler, version, base, saving, log>>

(* The GET of the events reaches room_events: subscribe() makes a receiver *)
(* that gets what is sent from now on.                                     *)
SubscribePastNext(c) ==
    /\ stream[c] = "connecting"
    /\ stream' = [stream EXCEPT ![c] = "attached"]
    /\ next' = [next EXCEPT ![c] = Len(log) + 2]
    /\ UNCHANGED <<store, handler, page, log, got>>

Subscribe(c) ==
    /\ stream[c] = "connecting"
    /\ stream' = [stream EXCEPT ![c] = "attached"]
    /\ next' = [next EXCEPT ![c] = Len(log) + 1]
    /\ UNCHANGED <<store, handler, page, log, got>>

(* The event stream breaks: the browser connects again by itself, unless   *)
(* it is answered an error.  The page only shows a status.                 *)
Drop(c) ==
    /\ stream[c] # "closed"
    /\ \E state \in {"connecting", "closed"} : stream' = [stream EXCEPT ![c] = state]
    /\ Detached(c)
    /\ UNCHANGED <<store, handler, page, log>>

(* recv() in the loop of room_events.  A receiver that lags behind goes on *)
(* with the oldest event the channel retains.  on_clipboard takes over     *)
(* text and version of the event.                                          *)
Oldest == IF Len(log) > Capacity THEN Len(log) - Capacity + 1 ELSE 1

ReceiveStopsWhenLagged(c) ==
    /\ stream[c] = "attached" /\ next[c] <= Len(log) /\ next[c] >= Oldest
    /\ version' = [version EXCEPT ![c] = log[next[c]].version]
    /\ base' = [base EXCEPT ![c] = log[next[c]].version]
    /\ next' = [next EXCEPT ![c] = @ + 1]
    /\ got' = [got EXCEPT ![c] = TRUE]
    /\ UNCHANGED <<store, handler, snapshot, unlocked, saving, log, stream>>

ReceiveSkipsAllWhenLagged(c) ==
    /\ stream[c] = "attached" /\ next[c] <= Len(log)
    /\ IF next[c] >= Oldest
       THEN /\ version' = [version EXCEPT ![c] = log[next[c]].version]
            /\ base' = [base EXCEPT ![c] = log[next[c]].version]
            /\ next' = [next EXCEPT ![c] = @ + 1]
       ELSE next' = [next EXCEPT ![c] = Len(log) + 1] /\ UNCHANGED <<version, base>>
    /\ got' = [got EXCEPT ![c] = TRUE]
    /\ UNCHANGED <<store, handler, snapshot, unlocked, saving, log, stream>>

Receive(c) ==
    /\ stream[c] = "attached"
    /\ next[c] <= Len(log)
    /\ LET i == IF next[c] < Oldest THEN Oldest ELSE next[c]
       IN  /\ version' = [version EXCEPT ![c] = log[i].version]
           /\ base' = [base EXCEPT ![c] = log[i].version]
           /\ next' = [next EXCEPT ![c] = i + 1]
    /\ got' = [got EXCEPT ![c] = TRUE]
    /\ UNCHANGED <<store, handler, snapshot, unlocked, saving, log, stream>>

-----------------------------------------------------------------------------
(* save_update: the button is disabled while locked or saving.             *)
SaveShowsAtOnce(c, s) ==
    /\ unlocked[c] /\ saving[c] = None /\ handler[s] = Idle /\ version[c] < MaxVersion
    /\ handler' = [handler EXCEPT ![s] = Handler("arrived", c, version[c] + 1)]
    /\ saving' = [saving EXCEPT ![c] = s]
    /\ version' = [version EXCEPT ![c] = @ + 1]
    /\ base' = [base EXCEPT ![c] = version[c] + 1]
    /\ UNCHANGED <<store, snapshot, unlocked, channel>>

Save(c, s) ==
    /\ unlocked[c]
    /\ saving[c] = None
    /\ handler[s] = Idle
    /\ version[c] < MaxVersion
    /\ handler' = [handler EXCEPT ![s] = Handler("arrived", c, version[c] + 1)]
    /\ saving' = [saving EXCEPT ![c] = s]
    /\ base' = [base EXCEPT ![c] = version[c] + 1]
    /\ UNCHANGED <<store, version, snapshot, unlocked, channel>>

UpdateTakesSameVersion(s) ==
    /\ handler[s].stage = "arrived"
    /\ IF handler[s].version >= Len(written)
       THEN /\ written' = [v \in 1 .. handler[s].version |->
                  IF v = handler[s].version THEN handler[s].client ELSE written[v]]
            /\ handler' = [handler EXCEPT ![s].stage = "stored"]
       ELSE /\ handler' = [handler EXCEPT ![s].stage = "refused"]
            /\ UNCHANGED written
    /\ UNCHANGED <<page, channel>>

(* update_clipboard: the store takes the next version and no other.        *)
Update(s) ==
    /\ handler[s].stage = "arrived"
    /\ IF handler[s].version = Len(written) + 1
       THEN /\ written' = Append(written, handler[s].client)
            /\ handler' = [handler EXCEPT ![s].stage = "stored"]
       ELSE /\ handler' = [handler EXCEPT ![s].stage = "refused"]
            /\ UNCHANGED written
    /\ UNCHANGED <<page, channel>>

(* sender_for(), which awaits a lock, and send().                          *)
AnnounceAgain(s) ==
    /\ handler[s].stage \in {"stored", "refused"}
    /\ log' = Append(log, [author |-> handler[s].client, version |-> handler[s].version])
    /\ handler' = [handler EXCEPT ![s].stage = "saved"]
    /\ UNCHANGED <<store, page, stream, got, next>>

Announce(s) ==
    /\ handler[s].stage = "stored"
    /\ log' = Append(log, [author |-> handler[s].client, version |-> handler[s].version])
    /\ handler' = [handler EXCEPT ![s].stage = "saved"]
    /\ UNCHANGED <<store, page, stream, got, next>>

(* The answer reaches the page that waits for it and sets the version, not *)
(* the text.                                                               *)
Answer(c, s) ==
    /\ saving[c] = s
    /\ handler[s].stage \in {"saved", "refused"}
    /\ version' = IF handler[s].stage = "saved"
                  THEN [version EXCEPT ![c] = handler[s].version] ELSE version
    /\ saving' = [saving EXCEPT ![c] = None]
    /\ handler' = [handler EXCEPT ![s] = Idle]
    /\ UNCHANGED <<store, base, snapshot, unlocked, channel>>

(* The connection of a save is lost, or the server answers another error:  *)
(* the page may save again.                                                *)
SaveFails(c) ==
    /\ saving[c] # None
    /\ saving' = [saving EXCEPT ![c] = None]
    /\ UNCHANGED <<store, handler, version, base, snapshot, unlocked, channel>>

(* A handler whose client has gone is dropped, at whatever point it is,    *)
(* or has come to its end.                                                 *)
Abandon(s) ==
    /\ handler[s] # Idle
    /\ \A c \in Clients : saving[c] # s
    /\ handler' = [handler EXCEPT ![s] = Idle]
    /\ UNCHANGED <<store, page, channel>>

Next ==
    \/ \E c \in Clients :
         \/ Unlock(c) \/ Unlocked(c) \/ UnlockFails(c)
         \/ Subscribe(c) \/ Drop(c) \/ Receive(c)
    \/ \E c \in Writers :
         \/ SaveFails(c)
         \/ \E s \in Slots : Save(c, s) \/ Answer(c, s)
    \/ \E s \in Slots : Update(s) \/ Announce(s) \/ Abandon(s)

Spec == Init /\ [][Next]_vars

(* The task of an event stream is polled whenever an event is there.       *)
FairSpec == Spec /\ \A c \in Clients : WF_vars(Receive(c))

-----------------------------------------------------------------------------
Events == [author : Clients, version : 1 .. MaxVersion]

Handlers ==
    {Idle} \cup [stage : {"arrived", "stored", "saved", "refused"},
                client : Clients, version : 1 .. MaxVersion]

(* What the signals, the handlers and the channel hold. *)
TypeOK ==
    /\ written \in Seq(Clients) /\ Len(written) \in 1 .. MaxVersion
    /\ log \in Seq(Events)
    /\ handler \in [Slots -> Handlers]
    /\ version \in [Clients -> 0 .. MaxVersion]
    /\ base \in [Clients -> 0 .. MaxVersion]
    /\ snapshot \in [Clients -> 0 .. MaxVersion]
    /\ unlocked \in [Clients -> BOOLEAN]
    /\ saving \in [Clients -> Slots \cup {None}]
    /\ stream \in [Clients -> {"closed", "connecting", "attached"}]
    /\ got \in [Clients -> BOOLEAN]
    /\ next \in [Clients -> 1 .. (Len(log) + 1)]

(* A version means the same text to everybody: what is announced under a   *)
(* version is what the store took for it, and is announced once, however   *)
(* often saves are repeated by clients that saw them fail.                 *)
AnnouncedOnceAsWritten ==
    /\ \A i \in 1 .. Len(log) :
         /\ log[i].version <= Len(written)
         /\ log[i].author = written[log[i].version]
    /\ \A i, j \in 1 .. Len(log) : log[i].version = log[j].version => i = j

(* An answer to a save is true whatever happened since it was computed:    *)
(* saved, and that version is the client's; refused, and somebody's text   *)
(* of that version, or a later one, is in the store, for no page is ever   *)
(* ahead of the store.                                                     *)
AnswersTrue ==
    /\ \A s \in Slots :
         /\ handler[s].stage \in {"stored", "saved"} =>
              /\ handler[s].version <= Len(written)
              /\ written[handler[s].version] = handler[s].client
         /\ handler[s].stage = "refused" => handler[s].version <= Len(written)
    /\ \A c \in Clients : version[c] <= Len(written)

Quiet == \A s \in Slots : handler[s] = Idle

UpToDate(c) == unlocked[c] /\ stream[c] = "attached" /\ next[c] > Len(log)

(* A page that is connected, has got the last event and shows another      *)
(* version than the latest: then the latest was never announced or was     *)
(* announced before an older one, or the page was answered its own earlier *)
(* save after the event.  A channel that overflows, saves that are         *)
(* repeated and unlocks in between never are the reason.                   *)
StaleOnlyIf ==
    \A c \in Clients : Quiet /\ UpToDate(c) /\ got[c] /\ version[c] # Len(written) =>
        \/ log[Len(log)].version # Len(written)
        \/ written[version[c]] = c

(* The text of a page may be older than its version signal, so that its    *)
(* next save puts that older text after versions it does not contain and   *)
(* is not refused.  Then the version is its own save, answered after an    *)
(* event of an earlier version had replaced the text: neither an unlock, a *)
(* channel that overflows nor a save that is refused or repeated does it.  *)
TextBehindOnlyIf ==
    \A c \in Clients : base[c] < version[c] =>
        /\ written[version[c]] = c
        /\ UpToDate(c) /\ got[c] => log[Len(log)].version = base[c]

(* The saves that were stored and are not answered or dropped yet.         *)
SavesTaken ==
    [s \in Slots |-> IF handler[s].stage \in {"stored", "saved"}
                     THEN [code |-> 0, life |-> 1, version |-> handler[s].version]
                     ELSE [version |-> 0]]

Rooms == INSTANCE VersionedRooms WITH
            Codes <- {0}, Callers <- Slots,
            lives <- [code \in {0} |-> 1], version <- [code \in {0} |-> Len(written)],
            taken <- SavesTaken

(* The handlers ask no more of a store than either store keeps: a save is  *)
(* stored in a step that gives the room its next version, and what its     *)
(* handler holds as saved, until it has answered or is dropped, is what    *)
(* that step took.  What is announced is AnnouncedOnceAsWritten's part.    *)
SavesAsPromised == [][Rooms!Next]_(Rooms!vars)

(* Every subscriber that stays connected gets the last event, however far  *)
(* it lagged behind.                                                       *)
LastEventArrives ==
    \A c \in Clients : \A n \in 1 .. MaxVersion :
        stream[c] = "attached" /\ Len(log) = n ~> stream[c] # "attached" \/ next[c] > n

(* An event never takes a page back to a version older than it shows.      *)
EventsNeverGoBack ==
    [][\A c \in Clients : Receive(c) => version'[c] >= version[c]]_vars

(* A page that is connected while nothing goes on shows the latest text.   *)
ConnectedIsCurrent ==
    \A c \in Clients : Quiet /\ UpToDate(c) => version[c] = Len(written)
=============================================================================
