# Verification of scpy

scpy is an end-to-end encrypted clipboard service: a Rust server (axum, tokio)
with a store in memory or in Redis, Lua scripts that Redis runs, and a browser
application (Leptos, compiled to WebAssembly). A clipboard, called room in the
code, has a short code, is created with version 1, and every save must bring
the next version. It expires some time after its last save, and its code is
then given out again.

This directory has TLA+ modules for the parts of it that are hard to test, the
TLC configurations that check them on small instances, and TLAPS proofs.

## 1. Inventory

| Part | Source | State | Operations | Talks to |
|---|---|---|---|---|
| Allocator of codes | `src/src/allocator.rs` | free intervals of ids, one `BTreeMap` for each code length 3 to 6 | `new`, `allocate`, `free` | used by the store in memory; the Lua scripts do the same in Redis |
| Code encoding | `src/src/allocator.rs` | none | `encode_local_id`, `decode_room_id`: a Feistel permutation with cycle walking, written in base 56 | both stores |
| Lua scripts | `src/redis/*.lua` | per code length a zset of starts and a hash of ends, a record per clipboard with a time to live, a zset of expiry times | `alloc_init`, `clip_create`, `clip_write`, `clip_free`, `clip_reclaim_expired` (and `clip_refresh`, which nothing calls) | run by Redis one at a time |
| `RedisRoomStore` | `src/src/store.rs` | none of its own | one script or a few commands for each operation; `get_or_create_server_setup`; the maintenance loop in `src/src/api.rs` runs the reclaim script every second | Redis, whose other clients are further servers |
| `MemoryRoomStore` | `src/src/store.rs` | maps of rooms, login states and sessions behind a lock each, the allocator behind a fourth | `create`, `get`, `update`, `remove_if_expired`, login states, sessions | called by handlers that run concurrently and may be dropped |
| Rooms API | `src/src/api.rs` | one broadcast channel of 32 events for each code | create, get, update, event stream | the store, then the channel |
| Logins | `src/src/api.rs`, `src/src/auth.rs` | login states (60 s) and sessions (30 min) in the store, the OPAQUE server setup | `start_registration`, `start_login`, `finish_login`, `is_authorized` | the store |
| Browser application | `src/src/app.rs` | the signals clipboard, version, unlocked, loading, saving; one EventSource | create, unlock, save, on_clipboard, on_error | the API over HTTP and server-sent events |
| scpy-crypto | `src/crates/scpy-crypto` | none | key derivation, encryption of a text together with its version | browser only |
| Start, routing, types | `src/src/main.rs`, `server.rs`, `lib.rs`, `protocol.rs` | configuration | | |

What is hard, and what makes each part correct:

* **Allocator.** Ids split off and merge back for as long as the service runs.
  Correct: the intervals stay in range, disjoint and maximal; `allocate` gives
  the lowest id of the shortest length, `free` tells the truth, no id is lost.
* **Codes.** The permutation is of more values than a tier has and walks on until
  it is back in the tier. Correct: codes and ids are one to one in each tier.
* **Lua scripts.** The record of a clipboard expires by itself, by Redis'
  clock, and nothing happens to its code until a script reclaims it, by the
  clock of a server. Servers may or may not keep the expiry index. Correct: the
  code of a clipboard that is there is never free; the code of one that is gone
  becomes free once; with the index kept, it always does.
* **Store in memory.** Every operation takes its locks one after the other and
  may be dropped in between. Correct: a code is in exactly one place; two saves
  never succeed for one version; no live room is evicted.
* **Live synchronisation.** A save is stored, announced and answered in
  separate steps; a page reads and subscribes in separate requests; connections
  are lost. Correct: a version means the same text everywhere; answers are
  true; connected pages show the latest text (they may not, see section 5).
* **Rooms that follow each other.** The server knows a room by its code: a
  session is for a code, the channel of a code is never removed, and pages of a
  room that has expired are still open when the next room gets its code.
  Correct: a page shows only texts of the room it was unlocked for; the
  password of a room opens it (it may not, see section 5).
* **Logins.** A request to finish a login is repeated or overlaps another, and
  reaches another server. Correct: a login that succeeded cannot be used again.
* **Update over Redis.** The script and the second read are two requests.
  Correct: a save that succeeds is one's own.
* **Start of several servers.** Correct: all use one OPAQUE setup, so that a
  login to any room can be started and finished everywhere.
* **Encryption.** No state, but what keeps two rooms of one code apart: a text
  opens with the room's key and the version it was sealed with only.
* **Restart of Redis:** see section 7.

`PROJECT.json` lists the hazards one by one, with their lines.

## 2. Modules

| Module | Models | State and actions |
|---|---|---|
| `Intervals` | the arithmetic of `allocate` and `free` on one tier's map from start to end | operators `TakeFirst`, `Contains`, `MergeFree`; `CanonicalTier` says what a tier must look like |
| `FreeIdPool` | abstract specification: what a pool of free ids promises | `free[l]`, the set of free ids; the last answer |
| `TieredAllocator` | `src/src/allocator.rs` | `intervals[l]` is the `BTreeMap` of length `l`; an action for each outcome of `allocate` and `free`; implements `FreeIdPool` |
| `RoomCode` | `encode_local_id`, `decode_room_id` | no state; a code is a sequence of digits, the round function a parameter |
| `CodedAllocator` | `TieredAllocator` with `CodeAllocation::room_id`, `RedisRoomStore::free` before its script | `held` are the codes that were handed out |
| `RedisClips` | the five scripts, and Redis' expiry of keys | `starts`, `ends`, `clips`, `expiring` are the keys; a script is an action, the loop of the reclaim script an action for each entry while nothing else runs; implements `FreeIdPool` |
| `RoomSync` | handlers, channel and pages of one room | `written` is the store's record with its history, `log` what was sent to the channel, the rest the signals of each page and the handlers' progress |
| `MemoryRooms` | `MemoryRoomStore`'s rooms and allocator | an action is what an operation does under one lock; `task` has what it keeps in between |
| `VersionedRooms` | abstract specification: what callers of `update()` are promised | `version[code]`, `lives[code]`, and the saves that took effect and are not answered yet |
| `RoomLives` | pages, sessions, channel and store of one code through rooms that follow each other | `room` is the store's record, `session`, `log`, and the signals `room_key`, `clipboard`, `version` of each page with its unlock, save and stream |
| `ClipCrypto` | `src/crates/scpy-crypto` | no state; boxes that open with the key and the associated data they were sealed with |
| `LoginSessions` | `start_login`, `finish_login` over either store, with the servers of `ServerSetup` | an action is one command or one lock |
| `StoreUpdate` | `RedisRoomStore::update` on one code | the script and the GET after it; `clip` is the record under the code's key, `life` tells the clipboards apart that had the code |
| `ServerSetup` | `get_or_create_server_setup`, registrations | GET, SETNX and GET by servers that crash and start again; `LoginSessions` extends it |
| `NumberLemmas`, `*_proofs` | theorems | see section 6 |
| `MC*` | instances for TLC | |

`TieredAllocator` and `RedisClips` implement the same `FreeIdPool`:
`src/tests/redis_allocator_integration.rs` compares the two on random
sequences, here both are compared with what they promise. `MemoryRooms` uses
the pool in place of the allocator.

`RoomSync` and `RoomLives` use one atomic action in place of the store's update.
That is what `VersionedRooms` promises, and both `MemoryRooms`, with its locks,
and `StoreUpdate`, with its two requests, are shown to implement it. In the other
direction `SavesAsPromised` says that `RoomSync` takes no more for granted: its
steps are steps of `VersionedRooms` for a room that does not expire, where a save
is under way until its handler has answered or is dropped. (`RoomLives` has the
same `Update`, but does not keep which room a save that waits for its answer went
to, so that there is no mapping.) A save that
`StoreUpdate` answers with an error although it is stored is in `RoomSync` a save
whose handler is dropped before it announces.

`RoomSync` looks into the handlers of one room, also those that run on after their
page has seen its POST fail; `RoomLives` takes a handler as one step, which ends
before the page gives up on it, and follows the code through several rooms; together they are the Rooms
API and the pages. The values that only one of them tells apart are left out of
the other: `RoomSync` has no keys, `RoomLives` no texts but the room they were
written in.

Definitions named for what they get wrong (`MergedStartForgetsLeft`,
`ReclaimEntrySkipsExists`, `AnnounceAgain`, ...) stand before the definition
they differ from. They are plausible mistakes: with one of them in its place
the property named in `PROJECT.json` fails, so that the property does depend on
that piece of code. Nothing else uses them.

## 3. Runs, bounds and why they are enough

| Run | Instance | Question |
|---|---|---|
| `tiered_allocator` | base 2, two tiers of 2 and 8 codes permuted within 4 and 16 values, three rounds, two round functions | does every sequence of `allocate` and `free` keep the intervals canonical and implement the pool, and are the codes people hold the ids that are taken? Eight ids in a row have every kind of neighbourhood: none, left, right, both, and both ends of the tier; both tiers are left by the permutation, which then walks on, up to several times |
| `redis_indexed` | two tiers (1 and 2 codes), TTL 2, clocks 1 apart, batches of 1, 2 versions, 6 instants | do servers that all keep the index lose no code, reclaim every expired one, and implement the pool? A batch of one forces the reclaim script to choose, the clocks make entries due before and after Redis drops the record |
| `redis_mixed` | one tier of 3 codes, TTL 1, batches of 2, 4 instants, servers with and without the index | are stale index entries harmless? |
| `room_events` | one page saves, one reads, two handlers, channel of 1, 3 versions | do repeated saves, overflow and reconnection keep one text for each version, are the answers to saves true, and is a text older than the version shown with it only after an answer that came late? Two handlers are needed to announce out of order, three versions to overflow |
| `room_lag` | one page saves, one reads, one handler, channel of 1, 3 versions | does a slow subscriber get the last event? Are the saves that handlers store, and hold until they have answered or are dropped, those that `VersionedRooms` promises, when a page repeats a save that seemed to fail? One handler at a time is enough for that, any number of them is the theorem's part (section 6) |
| `room_order`, `room_gap` | as above | the two disagreements of section 5 |
| `room_lives` | two rooms, one page that saves and one that reads, two passwords and a blank one, channel of 1, 2 versions | what does a page of the first room do to the second, and the other way round? Is a save by such a page the one thing that keeps the second room's password from opening it? Two versions are enough for the first room's page to be where the second room is |
| `room_reuse` | as above | the disagreement of section 5 about rooms that get a code again |
| `memory_rooms` | 2 codes, 3 operations at a time, TTL 2, 3 instants, versions wrap after 2 | do operations interleave safely between the locks, and are they single steps to callers? Three suffice for two that clash over a room while a third gives its code out again |
| `store_update` | 3 updates, TTL 2, clocks up to 1 from Redis' clock, clipboards created with any of 3 versions, 6 instants | is what `update` returns its own save, although it compares version and expiry time only? With TTL 1 it is not: the clocks must differ by no more than a clipboard lives. Does it fail only for a save that was overtaken? Is it one step to callers? |
| `logins` | both stores, 2 logins, 3 requests, 2 servers, 3 setups, the state expires after 1 of 3 instants | is a login used once, and can it be started and finished at any server? Three setups are one for each server, and one for a server that crashed with the setup it had drawn |

Deadlock is checked except for logins and updates, where the requests of the
instance come to an end. Two pages that both save, with two handlers and three versions, are
seven million states and no run here; the theorems about `RoomSync` hold for any
number of pages that save. Symmetry is used in runs without liveness, over pages,
handlers, tasks, requests and passwords, which no definition tells apart. In
`MemoryRooms` the largest version stands for `u64::MAX`: rooms start at any
version up to it, as clients may create them.

## 4. Fairness

* `RedisClips!FairSpec`: `WF_vars(Reclaim)` is the loop of
  `redis_with_reclaimer` (`src/src/api.rs:134-154`), which runs the script every
  interval, logs an error and goes on. `SF_vars(Tick)` says that time passes
  whatever scripts run; strong, because the model splits a script into steps
  during which its clock stands still. Nothing is assumed of creates, writes
  and frees.
* `RoomSync!FairSpec`: `WF_vars(Receive(c))` says that the task of an open event
  stream is polled when an event is there. Nothing is assumed of handlers:
  they may be dropped.

## 5. Where the code and its documents disagree

* `room_order`. `src/PLAN.md:158`: "Clients verify versioning and authenticated
  encryption before accepting an update." `on_clipboard`
  (`src/src/app.rs:718-720`) takes over whatever it can decrypt, and two
  handlers of `update_room` may announce in the other order than they stored.
  A page that shows version 3 goes back to version 2; its next save is refused.
* `room_gap`. `src/PLAN.md:12`: "Live clipboard sync between connected clients."
  A version that is stored while its client disconnects is never announced
  (`src/src/api.rs:301-318`), and one announced between a page's GET and its
  subscription is missed. The page stays on the older version, connected, until
  the next save or unlock. `StaleOnlyIf` shows that the channel itself, even
  when it overflows, is never the reason.

* `room_reuse`. `src/src/app.rs:285-286`: "Set a password, share a short link, and
  keep typing. Anyone with both can unlock the clipboard and see the latest text."
  A page of a room that has expired, with a session that lives or a save under
  way, saves into the next room of the code when the version fits:
  `src/src/api.rs:480-492` asks for a session of the code and the next version, not
  for a session of the room. The text is under the old room's key, and from then
  on the password of the new room does not open it. `OpensUnlessOldPageSaved`
  says exactly when this is so: the last save came from a page that was unlocked
  for an earlier room. The model keeps that as history (`opened`, `savedFrom`,
  `from`), apart from the keys that envelopes are sealed with, so that a page that
  sealed under a wrong key for any other reason would violate it.

Not a disagreement with a specification, but worth knowing:

* In `MemoryRooms` an update that waits for the lock until the room has expired
  and its code has been given out again writes the new room
  (`src/src/store.rs:508-525`), if the version fits, and an operation that is
  dropped between its two locks loses its code (`lost`).
* `RedisRoomStore::update` (`src/src/store.rs:704-720`) reads the record again after
  its script and answers an error when it is no longer what the script answered,
  although the script has stored the text: two saves one after the other are
  enough. That save is announced to nobody, and the page's retry is refused as a
  conflict with its own text. `ErrorOnlyIfOvertaken` says that nothing but a later
  save or the end of the clipboard does it. (`src/docs/redis_allocator.md:408-412`
  wants the script's answer taken as the truth, but for codes and expiry.)
* `src/docs/redis_allocator.md:371` lets the reclaim script only remove the index
  entry of a clipboard that is missing. With that the code of a clipboard that
  Redis has dropped would never be free again; `clip_reclaim_expired.lua:76-87`,
  which is modelled, frees it then.
* In `RoomSync` an answer to a save that arrives after an older event puts the
  older text under the new version (`src/src/app.rs:471`), and the next save
  stores it as the latest. `TextBehindOnlyIf` says that this is the only way.
* A page that is unlocked again while a save is under way takes the version of
  that save's answer, which may be for an earlier room.

## 6. What is proved

All theorems hold for every value of the constants that the modules' named
assumptions allow.

* `CodedAllocator_proofs`, of the allocator: `TypeAlways`, `CanonicalAlways`, and
  `Implements`, that every step of the allocator is a step of `FreeIdPool` or a
  stutter. `Canonical` is inductive by itself; the lemmas on one tier
  (`NumberLemmas`) say what `TakeFirst` and `MergeFree` do to the set of free ids
  and that they keep a tier canonical: the interval left of an id is the only one
  that can contain it, and merging leaves a gap on both sides.
* `CodedAllocator_proofs`, of the codes: `EncodeDecode` and `DecodeEncode`, that
  codes and ids are one to one in every tier, `CodedImplements`, that freeing by
  code is freeing the id it names, and `CodesNameTheirIdsAlways`. The inductive
  invariant (`CodedInv`) says that the codes that are held are exactly the codes
  of the ids that are taken; TLC finds it true on the instance of
  `tiered_allocator` as well. `CodeAssumption` asks for no particular base, key,
  round function or number of rounds, only that a tier fits into the square of
  its half; in the code 56^3 to 56^6 fit into squares of powers of two up to
  2^36, far from the end of `u64`. The argument:
  1. Induction and the existence of recursive functions (`Induction`,
     `Recursion`) come from the numbers being well founded, for properties given
     as sets, so that no theorem with an operator as its parameter is needed.
     With them every recursive function of `RoomCode` is shown to satisfy its
     equation.
  2. A turn of decryption undoes a turn of encryption with the same round, since
     exclusive or undoes itself (`XorUndone`, by induction over the bits), so the
     Feistel network is a permutation of the values of a tier (`FeistelUndone`).
  3. A walk from a value in the tier comes back to its start at the latest
     (`PathReturns`): two of its values are equal by the pigeonhole principle, and
     the first such pair has to begin with the start, as equal values have equal
     predecessors. So the walk ends (`WalkArrives`), and the walk with the inverse
     goes back through the same values, all of them outside the tier
     (`WalkUndone`).
  4. Writing a rank in the base and reading it back are inverse
     (`DigitsUndone`, `RankUndone`).
* `RedisClips_proofs`: `TypeAlways`, `CanonicalAlways`, `NoLiveFreeAlways` and
  `Implements` for every mix of servers, and `IndexExactAlways`,
  `IndexMatchesRecordAlways` under the hypothesis `IndexModes = {TRUE}`. The
  inductive invariant is `TypeOK /\ Canonical /\ Fresh /\ NoLiveFree`: `Fresh`
  says that there are no clipboards before the tiers are seeded, and
  `Canonical` is what makes `interval_contains` true exactly for free codes,
  which a reclaim that skips a live clipboard needs to keep `NoLiveFree`. The
  proof does not mention `Skew`: no difference of clocks can break it, since
  the script asks Redis whether the record is there.
* `RoomSync_proofs`: `TypeAlways`, `AnnouncedOnceAlways`, `AnswersTrueAlways`,
  `StaleOnlyIfAlways`, `TextBehindAlways` and `SavesAsPromisedAlways`, for any number
  of browsers and handlers and any capacity of the channel. Each property but the
  last needs a strengthening: `NotAhead` (no snapshot is ahead of the store and no
  save that has arrived is more than one version ahead), `Unannounced` (a version that is stored and not announced yet
  is in no event and belongs to one handler), `Waiting` (a page waits for the
  handler of its own save) and `ShowsLastEvent` (what a subscriber that has got
  everything shows), from which `StaleOnlyIf` follows.
* `RoomLives_proofs`: `TypeAlways`, `ShowsItsRoomAlways`,
  `OpensWithItsPasswordAlways` and `OpensAlways` (`OpensUnlessOldPageSaved`), for
  any number of rooms, pages and events. `Sound` says that whatever was sealed under a room's key was written
  in that room, in the store, in the channel and in saves under way; `Wrapped`
  that a room has the metadata it was created with; `StreamHasKey` that a page's
  stream has the page's key; `History` that an envelope, in a save under way or in
  the room, is sealed under the key of the room its page was unlocked for.
* `MemoryRooms_proofs`: `TypeAlways`, `CodesConservedAlways`,
  `OneSavePerVersionAlways`, `VersionsGrowAlways`, `OnlyExpiredGoAlways` and
  `Implements`, that every step is a step of `VersionedRooms` or a stutter, for
  any number of operations at a time. `OnePlace` says `CodesConserved` with quantifiers only;
  `SavesPast` says that a room's version is at least any version that was saved
  in its life, and that rooms that get the code later have another life;
  `Implements` needs both, so that a room is created only where none is;
  `InstantsPast` that nobody decides on an instant in the future.
* `StoreUpdate_proofs`: `TypeAlways` and `ErrorOnlyIfOvertakenAlways`, and under the
  hypothesis `ClocksAgree` (`2 * Skew <= TTL`) `AnswersOwnSaveAlways` and
  `Implements`, that script and second read are one step of `VersionedRooms`. A
  record that was written and is not read again yet is there, or has been
  followed by a later version, or its life is over (`Known`); in the last case
  what comes after it expires later by any server's clock. A record that was
  overtaken remains so (`Overtaken`).
* `LoginSessions_proofs`: `LoginsAnywhereAlways` and `NoReuseAlways` for both
  stores, and `OneSessionAlways` for the store in memory (`store = "memory"`).
  `OneSetup` says that whatever serves or was registered has the setup under the
  key, which never changes once it is there. A request
  that gets on has removed the login's state for good (`StateGone`), so one that
  is sent after a success never does (`LateRequests`), and requests that get on
  exclude each other if the state is taken under one lock (`OneTaker`).

Only model-checked: liveness (`ExpiredReclaimed`, `LastEventArrives`), which the
prover cannot do. Every invariant and every other action or temporal property
of the passing runs is a theorem.

## 7. Not modelled

* `clip_refresh.lua`: nothing calls it; it would also use another key than the
  other scripts.
* A restart of Redis. What a restart may lose is the last scripts, since each
  script is written as a whole; keys that expired meanwhile are gone, and the
  clock is later. To the scripts that is a state in which none of them ran for
  that long, which `RedisClips` reaches, so that `NoLiveFree`, `Canonical` and
  `IndexExact` speak of it. That is an argument: no module has a restart as an
  action, and no run checks one. What is lost are answers: a version that was
  announced may be taken back, and a setup that was drawn in the last second may
  be replaced by another one. The documents leave that to the configuration of
  Redis (`src/docs/redis_allocator.md:415`); `ServerSetup` and `StoreUpdate`
  assume that Redis keeps what it has answered.
* The number format of Lua: a version above 2^53 is rounded. The page starts
  with version 1; another client could get there.
* Configuration, routing, rendering, what text the user types, the messages of
  OPAQUE and the ciphers themselves, `free_intervals` (tests only) and
  `delete_session` (not called). Redis replication and eviction are not used.
* There is no liveness of the store in memory: a room that has expired stays
  until somebody asks for its code (`src/src/store.rs:219`).

## 8. Plan

Done: `Intervals`, `FreeIdPool`, `TieredAllocator`, `RedisClips`, `RoomSync`,
`MemoryRooms`, `StoreUpdate`, `VersionedRooms`, `RoomLives`, `ClipCrypto`,
`LoginSessions` with `ServerSetup`, and `RoomCode` with `CodedAllocator` are
checked and proved. What would come next:

1. `RoomSync` over the two requests of `StoreUpdate`, as a composition rather
   than by way of `VersionedRooms`.
2. Text that the user types while events arrive, which the event replaces
   (`src/src/app.rs:719`).
