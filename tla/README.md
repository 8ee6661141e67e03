# Verification of excalidraw-wopi

A TLA+ development of excalidraw-wopi: a Go service that lets several browsers
edit one Excalidraw board whose file lives on a WOPI host (La Suite Drive), and
the React client that talks to it. The modules below are translated from the
source; TLC checks them on small instances and TLAPS proves the most important
invariants for all of them.

## 1. The system

    browser (web/src)                       service (internal/)                   WOPI host
    useCollaboration --- socket.io ------->  relay ---- OnJoin/OnLeave --+
    useSync, worker ---- PUT/GET board --->  boardapi - Observe/PutScene +--> room.Manager -- LOCK, PUT, ... --> file
    ConflictBanner ----- resolve --------->  boardapi - ResolveConflict -+         |
                    <--- conflict-state, reload-required (through the relay) ------+

| Component | State | Operations | Interacts through |
|---|---|---|---|
| `room` (`manager.go`, `save.go`, `roomstate.go`) | per file: retained scene, dirty flag and sequence number, token registry, WOPI lock, expected version, conflict, close grace, timers | `Observe`, `PutScene`, `OnJoin`, `OnLeave`, `ResolveConflict`, and the background `evaluateRoom` (idle GC, version check, lock refresh, eager lock, save, close), `Shutdown` | one mutex; WOPI calls made with the mutex released; hooks into the relay |
| `wopitest` / Drive (`host.go`) | the file's content, version and lock | CheckFileInfo, PutFile, LOCK, REFRESH_LOCK, UNLOCK, UnlockAndRelock | HTTP, may fail before or after it takes effect |
| `hostadapter`, `wopiclient` | none | classify a status into token rejected, no write access, lock conflict, other | called by `room` |
| `relay` (`relay.go`, `rooms.go`, `syncer.go`, `emitlocks.go`, `broadcast.go`) | members in join order, the elected syncer, a mutex per room, a task queue per socket | join-room, disconnecting, server-broadcast, volatile broadcast, image-get | emits to sockets, `OnJoin`/`OnLeave` under the room's emit lock |
| `boardapi` | none | GET and PUT board, GET conflict, resolve; every request registers its token | calls `room` |
| `peers` | the DNS snapshot of replicas | `Owner`, one-hop reverse proxy, poll loop | decides which replica serves a file |
| `session`, `launch`, `proof`, `discovery`, `httpserver`, `config`, `app` | keys and configuration | launch, seal and verify a session, sign calls, wire everything | stateless, apart from the order of the shutdown hooks |
| client hooks (`useCollaboration.ts`, `useSync.ts`, `ConflictBanner.tsx`) | connection, room membership, syncer role, conflict and reload flags | connect, join and retry, save as the syncer, resolve, reload | socket.io, fetch, the worker |
| client store (`syncWorker.ts`, `db.ts`, `useBoardDataManager.ts`) | one IndexedDB record per board, the worker's message queue | local save, server save, load and reconcile | postMessage, Dexie transactions |

What is hard here, and which properties make each part correct:

* **room**: a pass of the background loop takes the mutex, reads what it needs,
  releases it, makes a WOPI call, and takes the mutex again to record what came
  back; requests and hooks run in the gaps. No scene may be lost or taken for
  saved; nothing may be written into a conflict; a conflict must not be raised
  against the room's own writes; what the room believes of its lock must be true;
  an Overwrite the user chose must survive the failure of one token; a room must
  save, close and be collected eventually.
* **relay**: joins and disconnects of different sockets race; a disconnect may
  overtake a queued join. There must be no ghost member, the syncer must be able
  to write, presence must be emitted in the order it was computed, the Manager
  must count what the registry holds.
* **peers**: replicas may disagree for a poll interval; a request must not be refused
  or served by the wrong replica, a file should have one owner once snapshots agree, and two rooms of one file
  must not both take their scene for the file's.
* **client, store**: a record marked as synced over a later edit, a queued save
  that outlives a reload, an empty scene saved over a board that could not be
  read. Nothing a browser stored may be lost without the server having it, and
  nothing a user discarded may come back.
* **client, collaboration**: a stale syncer role, broadcasts missed while a page
  loads, joins or is cut off, a save that is skipped because of its gate. Pages
  must come to show one scene, and the board must come to be what they show.
* **news of a conflict**: reports of concurrent callers may overtake each other,
  a page may miss a push. The last report must be true and a page that shows
  something else must have a reason.
* **shutdown**: the flush skips rooms a pass is at and the process may end
  first. A flush that reports no error must have saved every room it could.

`PROJECT.json` lists every component (modelled or not) and every hazard with its
line and the properties that cover it.

## 2. Modules

| Module | Content |
|---|---|
| `WopiHost` | the file on the host; each operation is a function of the file that returns the file after the call and the reply |
| `Room` | one room of the Manager, its pass, the requests and hooks around it, time, other WOPI clients, restarts; EXTENDS `WopiHost` |
| `MCRoom` | users, tokens and symmetry sets for TLC |
| `RoomMutex` | abstract: one holder of a room's lock at a time |
| `EmitLocks` | the emit lock of one room as the code makes it: a map entry with a mutex and a reference count |
| `Relay` | one room of the relay: sockets with their task queues, registry, election, what the sockets are told, the hooks; EXTENDS `EmitLocks` |
| `MCRelay` | users, sockets and symmetry sets for TLC |
| `Scenes` | scenes as the client compares them; the merge and the increment of two scenes |
| `Drafts` | the pages of one browser on a board: load, throttled saves, worker queue, shared record, conflict exits; EXTENDS `Scenes` |
| `Collab` | the pages of several users on a board: broadcasts, saves of the syncer, socket, join, role, teardown; EXTENDS `Scenes` |
| `ConflictNews` | the reports of a room's conflict and stall, their push, the page's poll and its banner |
| `Replicas` | replicas, what each heard of DNS, one-hop routing, and the rooms of one file on several replicas |
| `Shutdown` | the end of a process: HTTP shutdown, hook, background loop, passes, flush, deadlines |
| `MCComponents` | the five modules above side by side, their instances and symmetry for TLC |
| `ScenesProofs` | what the merge is, proved with TLAPS |
| `DraftProofs` | types and the safety properties of `Drafts`, proved with TLAPS |
| `CollabProofs` | types of `Collab`, the syncer its pages believe in, the page that saved last, and the convergence of two pages, proved with TLAPS |
| `ManagerProofs` | the last report is true and a stale page has a reason (`ConflictNews`), a flush without an error has saved (`Shutdown`), proved with TLAPS |
| `ReplicaProofs` | routing and the overwritten replica, proved with TLAPS |
| `RelayProofs` | the lock's refinement, types, the syncer, the membership, the Manager's count and what the sockets were told, proved with TLAPS |
| `RoomProofs` | type correctness and the typing of the pass, proved with TLAPS |
| `RoomSafetyProofs` | the safety invariants, proved with TLAPS |

### How `Room` corresponds to the code

The variables are the fields of `roomState` under the same names, with `live`
for `liveUserCount`, `failed` for `failedTokens`, `expected` for
`expectedVersion` (`NoVersion` stands for `haveVersion == false`), `forceUnlock`
for `forceUnlockValue`, `skipCheck` and `pendingCheck` for the two version check
flags and `foreignLock` for `conflictForeignLock`. `tokens`, `canWrite` and
`failed` together are the token registry.

The handlers are one action each: they run in one region of the mutex.
`admitted` says that a writer's request has passed `authenticate` (which calls
`Observe`) and its body, a scene or a decision, is still to come: the code
registers the token before it reads the body, so the room may be deleted in
between.

The pass is a program counter with the locals of the functions it is in. An
action of the pass is one mutex region together with the WOPI call it leads to:
nothing the call needs is read after the mutex is released, so the host may
serve it in the same step, and only the reply is read by a later action.
Everything else interleaves between the two.

| Code | Actions |
|---|---|
| `planPass` and the dispatch of `evaluateRoom` | `StartPass` |
| `checkVersion` | `CheckVersion`, `VersionChecked` |
| lock stage, `refreshLock` | `LockStage`, `Refresh`, `Refreshed` |
| `ensureLocked`, `resolveForeignLock`, `markLocked` | `Ensure`, `Relocked`, `Acquire`, `Locked` |
| `performSave`, `attemptSave`, `recordSaveSuccess`, `recordSaveFailure` | `Save`, `BeginSave`, `Put`, `PutAnswered`, `UnlockedPut`, `UnlockedPutAnswered` |
| `performClose` | `Close`, `CloseCheck`, `UnlockOnClose`, `UnlockedOnClose`, `Delete` |
| `gcRoom` | `CollectIdle`, `IdleUnlocked`, `DeleteIdle` |
| clock | `SaveTimerElapses`, `CloseGraceElapses`, `FailedTokenRetried`, `TokenExpires` |
| others | `StrangerActs` (another WOPI client, an expired lock, a replaced file), `Crash` |

Abstractions, each of which only adds behaviours:

* Time is "has elapsed". A room whose schedule has come (`timer = "now"`) stays
  due, although in the code a new PutScene moves the quiet window on; the passes
  a stay-due room makes are a superset. The lock refresh interval and the idle
  timeout are choices of `StartPass`.
* The order of the ladder behind its head (sorted by user id) is left open.
* A version is the content itself: the host's version is a hash of it.
* `Faults` are what a call may come to: `tokenRejected` (403), `noWriteAccess`
  (401), `failed` (anything else, or a timeout before the call took effect),
  `lostReply` (the call took effect, its reply did not arrive), `emptyConflict`
  (a 409 without a lock although the host could have served the call).
* `lostPut`, `overwriting` and `owed` are history variables: no guard reads them.

### How `Relay` corresponds to the code

`members` and `syncer` are the registry's slice and syncer of one room,
`entry`, `refs` and `locked` the map entry of its emit lock and the fields of
`refcountedMutex`. A socket has a life (`conn`), the tasks its queue still holds
(`queue`) and the place the running task is at (`step`, with the locals it will
tell in `told`). The Manager's side of the hooks is its count (`live`); the
clients' side is the last roster each was sent (`heard`) and whether its last
sync-designate said true (`belief`).

A task is a sequence of calls, and each call is an action: the registry, each of
the four regions of the lock, each emit, each hook. So everything the emit lock
is there to exclude can happen in the model if the lock does not exclude it.

| Code | Actions |
|---|---|
| the socket's transport goroutine: packets, `_onclose` | `JoinRequested`, `Disconnecting`, `Disconnected` |
| the socket's queue goroutine, `emitLocks.lock` | `NextTask` (takes the reference), `Locked` (gets the mutex) |
| `onJoinRoom` | `Locked` (the `Connected` check), `Join`, `Presence`, `JoinDesignate`, `OnJoin` |
| `onDisconnecting`, queued by `s.Enqueue` | `Leave`, `OnLeave`, `Presence`, `Promote`, `Demote` |
| the deferred `Unlock` | `Unlock` (drops the reference), `Unlocked` (releases the mutex) |

The connection's life is the library's, as the comment of `onDisconnecting`
(relay.go:302-316) describes it: "disconnecting" is emitted on the transport
goroutine before the socket is let go, everything else runs on the queue.
Rosters are sets of sockets (grouping them by user loses nothing); the
`user-joined` event and the forwarded broadcasts change nothing and are left
out. A reconnecting client is another socket.

### How the client's modules correspond to the code

A scene is the pair (version, versionNonce) of every element: the comparison in
`shouldDiscardRemoteElement` reads nothing else. `Merge` is
`mergeSceneElements`, `Incremental` `getIncrementalSceneElements`.

The server is in each module what that module's code sees of it. The modules do
not share variables; where one takes another's part for granted, its environment
is at least as free: what the socket brings may come at any time in `Drafts`,
and in `Collab` the service answers a PUT, fails it, or loses the answer.

| Code | `Drafts` |
|---|---|
| `loadBoard`, `getLocalBoardDataPolicy`, `fetchWhiteboardSnapshot`, `resolveInitialData` | `Open` (reads the record), `Fetch`, `Resolve` (writes it back): the awaits between them are where other pages and workers get in |
| `shouldSkipLocalSync`, `shouldSkipServerAPISync`, `doSyncToLocal`, `doSyncToServerAPI` | `MayStore`, `MayPut`, `SyncLocal`, `SyncServer`; a throttle's call may come at any time |
| `flushOnTeardown` | `Close`, then `Gone` |
| `messageQueue` of the worker | `queue`, whose first message runs; `Startable` |
| `handleSyncToLocal`, `handleSyncToServer` | `StoreLocal`; `ServePut`, `FailPut`, then `RecordPut` after the await |
| `ConflictBanner.tsx`, `ResolveConflict` as the client sees it, `clearPendingLocalChanges` | `ClickReload`, `ResolveReload`, `OnReloadRequired`, `ClearPending`, `Overwrite` |
| other browsers, the host | `OthersSave`, `OthersResolve`, `Stranger`; a crash is `Gone` |

| Code | `Collab` |
|---|---|
| load, `pendingSceneUpdateRef`, mount | `Enter`, `Mount` |
| `onChange` and its throttles (10 s, 500 ms, 20 s) | `due`: which calls are to come; each is made at any later time |
| `doSyncToServerAPI`: the gate is asked and the scene taken at the call, whatever the worker is at | `SyncToServer`, `Posts` |
| `messageQueue` of the worker, the PUT | `putting`, whose first scene is under way; `Answer`, `AnswerLate` |
| `doSyncViaWebSocket`, `decideSceneBroadcast`, `doPeriodicFullSceneHealing` | `SyncViaSocket`, `Payload`, `Heal` |
| `handleVisibilityChange`, `flushOnTeardown` | `Hide`, `Leave`, then `Vanish` |
| connect, init-room, join-room, disconnect | `Connect`, `Join`, `Break` (the relay notices), `Notice` (the page does) |
| `handleUserJoined`, `handleSyncDesignate`, `handleClientBroadcast` | `OnUserJoined`, `OnJoined`, `OnDesignate`, `OnScene` |

`inbox` is the order in which the relay emits to one socket; the relay is here
what `Relay` proves of it (one handler at a time, a syncer that is a member), for
users who may all write. `unsent`, `lost` and `putter` in `Collab`, `unsynced`,
`writer`, `discarded`, `unread`, `unreadRecord` and `failures` in `Drafts`, `passedBy` in `ConflictNews`, `steady` in
`Replicas`, `attempted` and `changed` in `Shutdown` are history: no guard reads
them.

In `ConflictNews` the callers of `notifyState` are the pass, the page's own
request and somebody else's. A call is a state change under `mu`
(`EnterConflict`, `Resolving`), a report under `notifyMu` (`NotifyState`:
compute, compare, push), and the recall of the pages (`RequireReload`).
`AskConflict` and `AskStalled` are the two reads of `handleGetConflict`.

### How `Replicas` and `Shutdown` correspond to the code

A request is at a replica, at one of the places where the code looks at the
snapshot: `Middleware` (`Route`), the choice of the target (`Forward`, which
looks again) and `authenticate`; between them a poll (`ResolveOnce`) may change
what it will find. The rooms of the replicas are `Room` without its lock, which
has the same value on every replica and so keeps none of them out, and without
the ways out of a conflict. A scene is the number of the request that put it,
the file's version counts the writes.

`Shutdown` has the goroutines of the end of a process: main with its 10 s, the
hook with its 8 s, the background loop, and a worker for each claimed room.
`inFlight` is the claim (`tryEnterInFlight`), `work` how far `performSave` is.
The limit of four workers is left out: it only delays.

### The bounds

`MaxPuts`, `MaxMembers`, `MaxFaults`, `MaxStrangers` and `MaxCrashes` bound what
the environment does and appear in guards only. `sceneSeq` is bounded by
`MaxPuts` and starts again when the room is forgotten, so a run can store more
scenes than `MaxPuts`. Two puts are what a stale save needs (one under way, one
newer); two acts of a stranger are what a takeover of a lock that changes hands
needs; one failed call, at any call, is what separates the last candidate of a
ladder from the others.

`components` starts in one of five parts, and in a part only that module moves.
`Drafts`: one tab that loads twice with one change and a trouble, that loads once
with two changes and a trouble, that loads twice with two changes and no trouble,
or that loads twice with two troubles and no change; or two tabs that load once
each with one change (`McPlans`): a change stored while the one before is at the
server, a record read before and written after another tab's, a discard and the
load after it, a load that fails and the record it leaves. A worker has at most two
unfinished messages (`MaxQueue`): one running and one behind it, which is what
the order of the queue is about. `Collab`: two users with one change and one
fault, two users with two changes, or one user with two tabs and one change
(`Starts`), two loads (`MaxEnters`), inboxes of two (`MaxInbox`), a worker with
one PUT under way and one behind it (`MaxSaves`). `ConflictNews`:
two conflicts or stalls, one cut, three events on the wire. `Replicas`: two
replicas, two scenes, three changes of DNS, restarts or lost replies together.
`Shutdown`: two rooms, two requests. Tabs (with their users) and elements are
symmetric. These parts are not larger because their bounds multiply: two tabs
with a trouble, or two changes with a fault, do not end within the time a run
may take. What is left out this way is what the theorems of section 4 about
`Drafts`, `ConflictNews`, `Replicas`, `Shutdown` and `Collab` are for: they hold
for all plans, pages and bounds, but for the convergence of `Collab`, which is of
two pages with any number of changes, faults, loads and events on their way.

## 3. Runs

| Run | Instance | Checks |
|---|---|---|
| `room_safety` | 1 user, 2 scenes, 2 puts, 2 strangers' acts, 1 fault (`failed`, `lostReply`, `emptyConflict`), 1 restart | `TypeOK`, `CleanMeansSaved`, `SavePausedInConflict`, `ConflictHasCause`, `HaveLockMeansLocked`, `ClosedMeansUnlocked`, `LiveNeverOvercounts` |
| `room_ladder` | 2 users with a token each, 1 fault of four kinds, tokens expire | `TakeoverKept`, and `SavePausedInConflict` with a ladder of two |
| `room_liveness` | 1 user with a writer's and a read-only token, weak and strong fairness | `EventuallySaved`, `EventuallyClosed`, `EventuallyCollected`, `WritesWithWriterToken` |
| `relay_room` | 3 sockets of 2 users, one read-only, queues of one waiting join | `RelayTypes`, `NoGhostMember`, `SyncerCanWrite`, `RosterIsFresh`, `NoStaleSyncer`, `SyncerKnows`, `LiveIsExact`, `EntryWhileReferenced`, `JoinElectsOnlyJoiner`, `OneHolderAtATime` |
| `relay_liveness` | 2 sockets of 2 users, with fairness | `JoinAnswered`, `GoneLeaves` |
| `relay_syncerless` | expects a violation | `SyncerWhileWriters` |
| `components` | the five parts above | `DraftTypes`, `UnsyncedStaysPending`, `PageShowsPending`, `DiscardStaysDiscarded`, `OneFailedLoadIsHarmless`; `CollabTypes`, `SaverIsSyncer`, `SettledConverged`, `SettledIsSaved`; `LastReportIsTrue`, `StaleOnlyIfPassedBy`; `AgreedViewsServe`, `NoSilentLoser`; `CleanFlushMeansSaved` |
| `shutdown_flush` | `Shutdown` alone; expects a violation | `DirtyRoomsFlushed` |
| `room_no_unsaved_drop` | expects a violation | `NoUnsavedDrop` |
| `room_no_empty_overwrite` | expects a violation | `NoEmptyOverwrite` |
| `room_overwrite_kept` | expects a violation | `OverwriteKept` |
| `room_eager_lock` | expects a violation | `EagerLockRechecked` |

Scenes are symmetric in `room_safety`, users with their tokens in `room_ladder`;
the liveness run uses no symmetry. Deadlock is not checked: a room nobody uses
any more rightly stops, since the environment's acts are bounded, and so do the
parts of `components` when their budgets are spent.

What the properties say:

* `CleanMeansSaved`: a room that is not dirty has its scene on the host. This is
  what `sceneSeq` exists for: a scene stored while an older one is saved.
* `SavePausedInConflict`: no put is sent or awaited in a conflict.
* `ConflictHasCause`: the room does not quarrel with its own writes; the one
  exception the code has is a put whose reply was lost, after which the host has
  a version the room does not expect.
* `HaveLockMeansLocked`: without strangers and faults, `haveLock` is true.
* `ClosedMeansUnlocked`: without faults, a closed room left no lock.
* `LiveNeverOvercounts`: joins the Manager dropped are never counted, leaves it
  did not drop never take the count below zero.
* `TakeoverKept`: the lock a user decided to take over stays the target until
  it is taken or gone, however the tokens on the ladder fail. `room_ladder` has
  one other lock, and a 409 names the lock in the way: without either the code
  does not keep the decision (see below).
* `EventuallySaved`: a retained scene becomes the clean one, or a newer scene
  takes its place, or the room pauses in a conflict or has nobody to save with.
  That the room is deleted does not count. A scene stored while `performClose`
  is on its way to the deletion is left out: `room_no_unsaved_drop` is about it.
  `room_liveness` has one scene and one put, so there the scene itself is saved.
* `EventuallyClosed`, `EventuallyCollected`: the two ways a room ends. A room that
  is dirty and in a conflict, or has nobody to save with, is exempt from the
  first: `performClose` keeps it for a user who comes back.

Of the relay (a state is `Quiet` when no handler is between a change of the
room and the last emit about it):

* `NoGhostMember`: a socket that is gone, with an empty queue, is no member.
* `SyncerCanWrite`, `JoinElectsOnlyJoiner`, `SyncerKnows`, `NoStaleSyncer`: the
  role is held by a user with a writable socket; a join elects the joiner or
  nobody, which is why `join` may forget the rest of its election's outcome;
  each writable socket of the syncer knows, and nobody else believes.
* `RosterIsFresh`: the last roster a member was sent is the membership.
* `LiveIsExact`: the hooks told the Manager exactly of the members there are.
  It is what the room's model takes for granted of `OnJoin` and `OnLeave`.
* `OneHolderAtATime`: the lock refines `RoomMutex`; `EntryWhileReferenced`: its
  entry is in the map exactly while somebody needs it.
* `JoinAnswered`, `GoneLeaves`: no path keeps the lock.

Of the web client:

* `UnsyncedStaysPending`: what was stored in the browser stays in its record,
  marked pending, until an answer of the server covers it. It rests on the
  worker's queue, on the order of `handleSyncToServer`'s two writes, and on the
  load writing back what it merged. Two tabs of a browser share the record, and
  the other tab's write ends the promise (see below).
* `PageShowsPending`: what was pending when the page loaded is on the screen.
* `DiscardStaysDiscarded`: edits discarded by a Reload do not come back, if the
  page was alone and its worker idle.
* `OneFailedLoadIsHarmless`: the empty scene of a load that could neither ask
  the server nor find a record is not PUT, while no second request of a load
  fails: not by the page that shows it, which stores it in the browser
  nevertheless, and not by a page whose load finds that record. With a second
  failure the code does not keep this (see below).
* `SaverIsSyncer`: a page in the room, with no designation on its way, believes
  in the role exactly if the relay holds its user for the syncer.
* `SettledConverged`: when nothing is due or on its way, the two pages show the
  same scene. It needs the merge to commute, the rebroadcast to a joiner, the
  flush after a join and the healing broadcast. `components` has two pages, which
  is not a matter of size only: two are proved to converge (section 4), but a
  third that leaves can leave them with different scenes, in two ways (see
  below).
* `SettledIsSaved`: then the board lacks nothing they show, if the last call to
  save of the page that saved last was neither skipped by its gate nor failed
  (`unsent`).

Of the reports, the replicas and the shutdown:

* `LastReportIsTrue`: reports cannot overtake each other.
* `StaleOnlyIfPassedBy`: a page shows something else than the last report only if
  the news is on its way or passed it by, in one of the ways listed below.
* `AgreedViewsServe`: while the snapshots agree a request is stored by the one
  owner they name, wherever it came in.
* `NoSilentLoser`: a replica whose scene was overwritten has more to save, is in
  conflict, or holds a version it will find drifted.
* `CleanFlushMeansSaved`: a flush without an error left a room unsaved only in a
  conflict or because of a request after its look at the room.

Three sockets are what these need: one that holds the lock, one that waits for
its entry and one that comes after the entry is dropped; a syncer with a second,
read-only tab, and another user to take over. Three entries are one for each
caller. One waiting task is enough for a repeated join and for a join with a
leave behind it (the leave is not counted).

### Fairness

In `Relay` the queue goroutine of each socket runs (weak fairness of its steps),
a closing connection is closed, and a waiter gets the mutex (strong fairness:
a Go mutex hands itself over to a waiter that has starved for a millisecond).
Joining and disconnecting are not fair. In `Room`:

`Evaluate` and `PassStep` are weakly fair: the loop of `Manager.loop` evaluates
every room on each tick, and a WOPI call returns or times out (`callTimeout`).
The save timer and the failed-token TTL are weakly fair: time passes. The close
grace and the idle timeout are strongly fair: they are compared with the time a
pass started at, so they are seen between passes only, and passes come and go.
Nothing the users, the relay or the host's other clients do is fair. Saving and
closing assume `JoinsStop`: every join restarts the close grace, so users that
come and go in step with the passes can put a close off for ever.

The parts of `components` have safety properties only. What a page or a replica
comes to do in the end depends there on the user, the network and DNS, none of
which is fair; the properties about settled states say what holds once all of
them have stopped.

### Where the code does less than its comments say

1. `performClose` (save.go:549-609) reads `dirty` before the UNLOCK call and does
   not look again before it deletes the room. A PutScene in between is answered
   204 and lost (`room_no_unsaved_drop`).
2. An Overwrite in a room that never retained a scene puts an empty file on the
   host (`room_no_empty_overwrite`). The room must be in a conflict without a
   scene. In the run another client locked the file before the room ever held
   the lock, so its first LOCK raised the conflict and the Overwrite takes that
   lock over; a Reload and another drift lead there too.
3. The version check that an Overwrite skips is the next one, not the one after
   the overwrite landed. If the save fails on its token first, the following
   check puts the room back into the conflict (`room_overwrite_kept`).
4. The eager lock does not re-check the conflict (`room_eager_lock`). With a
   takeover on record it takes a foreign lock over during the conflict.
5. `electNext` (syncer.go:60-71) ranks users by their earliest socket and looks
   at that socket only. A user whose read-only tab is older than her writable one
   is passed over, and a room can have a writer and no syncer
   (`relay_syncerless`).
6. `http.Server.Shutdown` starts its hooks on goroutines of their own and does
   not wait for them. With no request under way it returns at once, main returns
   (main.go:124), and the flush that docs/ARCHITECTURE.md promises for every
   dirty room may not have begun (`shutdown_flush`).

These are how the model came to have its exceptions, and no run of its own shows
them:

* A save or store posted to the worker before a Reload was chosen runs after the
  resolve; `DiscardStaysDiscarded` is about an idle worker for that reason.
* ensureLocked's comment says of the takeover on record that it "is consumed here
  as a one-shot, regardless of the outcome" (save.go:368-369). The code puts it
  back when the call failed on anything but a lock conflict (save.go:393-406),
  for the reason its inner comment gives: "a token-only failure must not spend
  the user's Overwrite decision". `TakeoverKept` states what the code does.
* Two failed loads in a row put an empty scene over the board. A load that could
  neither ask the server nor find a record shows the empty scene and does not
  confirm it, so the page does not PUT it; but `doSyncToLocal` has no such gate
  and stores it, marked pending. If the request of the next load fails as well,
  that record is its fallback, the load counts as confirmed, and the syncer PUTs
  the empty scene. This is what the comments of `loadBoard` rule out: the flag
  "must stay false so a dedicated syncer never PUTs it back and clobbers the host
  file" (useBoardDataManager.ts:149-151), "an empty scene is shown, but never
  persisted as the confirmed board state" (186-187). TLC finds it in `Drafts` with
  one tab, two loads, one change of others and two failed requests, as a
  behaviour of 13 states, if `OneFailedLoadIsHarmless` is stated without its
  bound on the failures.
* Two tabs of a browser overwrite each other's record and pending flag. The
  transaction of db.ts:61-69 keeps two writes apart, but the write of a tab whose
  scene lacks the other's edit still replaces it and may mark it synced. A
  read-only load overwrites a pending record with `pending = false`.
* The syncer role is kept from a lost socket until the next join is answered,
  and a hidden tab saves whether its socket is online or not.
* A broadcast held while the editor loads may be replaced by the initial scene
  (`lost`); it comes back only with the next full broadcast that differs.
* Nobody PUTs on being promoted: a change the old syncer had not saved waits for
  the next change or the next healing. The service keeps the PUT it got last, so
  a late PUT of a page that is gone replaces a newer board until then.
* The full-scene healing is not periodic and not the syncer's, as
  docs/ARCHITECTURE.md:168-170 has it: `onChange` (useSync.ts:530-533) calls it
  once, trailing, after a change. A page that loads the board before a change is
  saved, and joins after it was broadcast, gets it from the syncer's answer to
  `user-joined` alone. If the syncer leaves before it has answered, the page
  elected next has heard of the join before it hears of its election, and
  `handleSyncDesignate` (useCollaboration.ts:588) sends nothing: the two pages
  left show different boards until the scene changes at the one that has more.
  TLC finds it in `Collab` with three pages of three users, one change, no fault,
  `MaxEnters = 3` and `MaxInbox = 2`, as a behaviour of 28 states that violates
  `SettledConverged`; `components` has two pages, and no such behaviour.
* A page whose editor is not there yet holds the last broadcast alone:
  `queueSceneUpdate` (useCollaboration.ts:233-243) puts a new one in the place of
  the one before, an increment in the place of a whole scene. The syncer answers
  a joiner with its scene; a third page then broadcasts an increment, the change
  it has just got from the syncer, say, and leaves before its own healing. The
  increment tells the syncer nothing new, so no throttle of its starts, and the
  joiner shows the increment without the rest. The proof of convergence found
  it: with a third page, what is held is not what will be shown. TLC runs this
  order of steps through `Collab` with two elements, two changes and
  `MaxInbox = 4`, as a behaviour of 56 steps, many of them events delivered, to
  a state that violates `SettledConverged`.
* A conflict pushed between a page's connect and its join is never repaired: the
  poll stops when the socket is up (App.tsx:68-74), and its answer is dropped
  then. A poll may also read a state that is never reported, since a change that
  is taken back before the report is none. The answer of an Overwrite clears the
  banner even if a newer conflict was pushed before it. A `reload-required` that
  is missed leaves the page with the scene the others discarded.
* Two replicas that both own a file for a while are no foreign editors to each
  other's lock, as docs/ARCHITECTURE.md:138-143 says, but they are to each
  other's version: one goes into a conflict, or writes its older scene over a
  newer one first. Ownership is checked when a socket connects, not later.
* A takeover is lost in two ways that `room_ladder` leaves out and
  `TakeoversAreKept` excludes. A 409 without a lock, for a lock that is held,
  spends it (save.go:387-392 takes it for an expired lock). And `refreshLock`
  goes on down its ladder after one candidate's `ensureLocked` put the room into
  a conflict: if the user then decides on lock B, and on lock C in the next
  conflict while the takeover of B is on its way, a failure of that call puts B
  back on record over C (save.go:403-405).
* `Middleware` loads the snapshot twice, so a request can be proxied to the
  replica it is at, and is then served there if the views agree again.

## 4. Proofs

All theorems hold for every value of the constants that satisfies the
assumptions of their module, which TLC evaluates on every run of it:
`HostConstants` and `RoomConstants` for the room, `LockConstants` and
`RelayConstants` for the relay, `ReplicaConstants` for the replicas,
`ShutdownConstants`, `NoSceneAssumption` for scenes, and with it
`DraftAssumption` or `CollabAssumption` for the client. They say that a constant
standing for "none" is none of the others, that bounds are numbers, and that the
starts lie in the types; `ConflictNews` assumes nothing. Two hypotheses are not
assumptions of a module: `OneRival` of `TakeoversAreKept`, and `TwoPages` of
`PagesConverge` and `SettledIsSavedOfTwo`, that there are at most two pages.
Neither theorem holds without it, as section 3 describes.

| Theorem | Statement | Inductive invariant |
|---|---|---|
| `TypeCorrect` | `Spec => []TypeOK` | `TypeOK /\ WriterInv` |
| `WriterTokenOnly` | `Spec => []WritesWithWriterToken` | `WriterInv`: the tracked write-capable tokens, the pass's candidate and its ladder are writers' |
| `SavesPause` | `Spec => []SavePausedInConflict` | `PauseInv`: a save under way, from its first lock call on, is not in a conflict |
| `CleanIsSaved` | `Spec => []CleanMeansSaved` | `SavedInv`: a save under way has the scene of its sequence number; an acknowledged put has put it there |
| `ConflictCaused` | `Spec => []ConflictHasCause` | `CauseInv`: with no stranger and no lost put, the host has the expected version except while the answer to a put is on its way |
| `HeldIsHeld` | `Spec => []HaveLockMeansLocked` | `HeldInv`: while the file does not carry the room's lock, no answer on its way says that it does, and `haveLock` is set only while the answer to an UNLOCK is on its way |
| `LiveCounted` | `Spec => []LiveNeverOvercounts` | `LiveInv`: and a room the Manager does not know the file of counts nobody |
| `ClosedRoomsUnlock` | `Spec => []ClosedMeansUnlocked` | `ReleaseInv`: while the file carries the room's lock, a room knows it or is about to learn it, has a token on its ladder, and is not past its UNLOCK |
| `TakeoversAreKept` | `OneRival`: `Spec => []TakeoverKept` | `TakeInv`: a takeover on its way knows its lock, and leaves it on the file only if the answer says nothing about the lock |
| `EmitLocksExclude` | `EmitSpec => Mutex!Spec` | `LockInv`: whoever waits for the lock or has it refers to the entry in the map, the entry counts exactly these callers, an entry's mutex is locked for one caller |
| `HandlersExclude`, `EntriesAreDropped` | `Spec => OneHolderAtATime`, `Spec => []EntryWhileReferenced` of `Relay` | `LockInv`; a step of the relay is a step of the lock or none (`RelayLocks`) |
| `SyncerWrites`, `JoinTakesNoRole` | `Spec => []SyncerCanWrite`, `Spec => JoinElectsOnlyJoiner` | `SyncerInv`: and a room without a syncer has nobody `electNext` would take |
| `RelayTypeCorrect` | `Spec => []RelayTypes` | `LockInv /\ SyncerInv /\ SocketTypes` |
| `NoGhosts` | `Spec => []NoGhostMember` | `MemberInv`: a leave is the last task of its queue; until it starts a socket is a member exactly if its state says so, from then on only until `registry.leave` |
| `LiveCountExact` | `Spec => []LiveIsExact` of `Relay` | `LiveInv` of `Relay`: the count is behind the registry by what the one handler in the lock has yet to tell |
| `RostersAreFresh`, `NobodyIsStale`, `SyncersKnow` | `Spec => []RosterIsFresh`, `[]NoStaleSyncer`, `[]SyncerKnows` | `ToldInv`: what a member was told is true, or the handler in the lock has it among what it has yet to tell |
| `ReportsAreTrue` | `NewsSpec => []LastReportIsTrue` | `ReportInv`: whenever the last report disagrees with the room, a caller still owes one |
| `StaleForAReason` | `NewsSpec => []StaleOnlyIfPassedBy` | `ViewInv`: unless news passed the page by, the last conflict-state on the wire, or else what the page knows, is the last report, and a poll has read it |
| `CleanFlushSaves` | `ShutdownSpec => []CleanFlushMeansSaved` | `FlushInv`: a flush that starts in time starts behind every pass; a room it has let go of is saved, in conflict or changed since |
| `OwnerServes` | `ReplicaSpec => []AgreedViewsServe` | `ServeInv`: a replica that decided to serve is its own owner, and so is the one a request was forwarded to |
| `LosersFindOut` | `ReplicaSpec => []NoSilentLoser` | `BeliefInv`: nobody expects a version the file has not had; who expects the present one and has nothing to save has its scene |
| `DraftsAreTyped`, `StoredIsKept`, `PendingIsShown`, `DiscardedIsGone`, `OneFailureIsHarmless` | `DraftSpec => []DraftTypes`, `[]UnsyncedStaysPending`, `[]PageShowsPending`, `[]DiscardStaysDiscarded`, `[]OneFailedLoadIsHarmless` | `BoardShape /\ DraftInv`: each page shows what its load found, the messages of its worker are in the order of its scenes, what was stored last is in the record and in all the writer has yet to write; after a discard nothing is under way. For the last of them `UnreadOk`: without a failure nothing is unread, and until the second one a page that shows such a scene has not confirmed it; its worker then has no PUT of it (`DraftInv`) |
| `PagesAreTyped`, `SaversAreTheSyncers` | `CollabSpec => []CollabTypes`, `[]SaverIsSyncer` | `SyncerInv`: a member believes, or will when it has handled its inbox, exactly whether its user is the syncer; members are connected and one of them is the syncer's |
| `PagesConverge` | `TwoPages`: `CollabSpec => []SettledConverged` | `SenderInv /\ OwesInv`: each page of the room has the other's scene, or it is on its way, or the other will send it whole |
| `PutterIsServedAlways` | `CollabSpec => []PutterIsServed`: when nothing is due, the board is what the page shows that put it last; any number of pages | `PutterInv`: unless a save is due at it, the last PUT its worker has is of what it shows, and the board is what the page shows that put it last, or `unsent` says otherwise |
| `SettledIsSavedOfTwo` | `TwoPages`: `CollabSpec => []SettledIsSaved` | from the two theorems before |
| `MergeIsLeast`, `MergeCommutes`, `MergeAssociates`, `IncrementSuffices` | the merge is the least scene that covers both; its order does not matter; an increment is as good as the scene | none: algebra of `Scenes` |

The property alone is not inductive in any of these: what makes it hold is what
the pass carries across a call. `CleanMeansSaved`, for instance, is preserved by
`PutAnswered` only because the pass still has the scene its sequence number was
taken with, which in turn needs the conflict to be excluded (`PauseInv`): a
Reload in the middle of a save would drop the scene without counting. So each
invariant says what holds while a call is under way, and the step lemmas
(`PauseStep`, `SavedStep`, `CauseStep`, `HeldStep`, `LiveStep`) go through the
actions one by one, with the facts about steps that do not touch what they are
about shared in `CallSteps`, `LocalSteps`, `StageSteps`, `ContentSteps`,
`CallLocks`, `LockCalls` and `OtherCalls`.

The relay's election rests on what earlier elections left: that a join may
ignore whom it demotes holds because the syncer has a writable socket already
(`SyncerCanWrite`), and that it promotes the joiner alone because nobody before
was eligible. `electNext` takes the least index of a set, whose existence the
proof takes from the well-foundedness of the naturals (`Least`).

That no ghost stays rests on the queue: "disconnecting" is the last thing a
socket enqueues, so no join of it runs after its leave, whatever the other
sockets do. The count needs the lock as well: with two handlers between the
registry and their hooks it would be behind by both, so `LiveInv` is preserved
only because there is at most one (`OneHolder`).

A rendezvous owner is the peer of the greatest score, which exists because the
scores are bounded: the least of what they lack to the bound (`OwnerIsPeer`).
That the second hop is served rests on the owner of the owner being the owner,
which is where equal snapshots are used. `BeliefInv` speaks of the version
alone: a write makes a version nobody has expected before, so every other room's
belief is about an earlier one, lock or no lock.

The merge is proved from an order: `Covers` is a partial order on scenes, the
merge is its least upper bound, and commutativity, associativity and idempotence
follow from that.

That a closed room is unlocked (`ReleaseInv`) rests on three things. Nothing
leaves the file locked without the room knowing it: each answer of a lock call
tells it, and no handler clears `haveLock` (only a 409 or the answer of an UNLOCK
does). The room has a token to unlock with: while nothing goes wrong a tracked
token is replaced but never dropped, and stays on the ladder. And between the
answer to the UNLOCK and the end of the room no pass locks again. The invariant
holds only while no call failed, no token expired and nothing was restarted, and
those are the hypotheses of the property itself.

The relay's emits are true because the handler in the lock makes them before it
lets go, and no other can change the room meanwhile; so `ToldInv` says of each
socket that it was told, or is among what that one handler has yet to tell, and
when nobody is in the lock nothing is left to be told.

In `Drafts` the record is shared by all tabs and the promise is about the tab
that wrote it last. `DraftInv` follows its scenes from the page through the queue
to the record: each later message covers each earlier one, so whatever the worker
writes covers what it wrote before, and an answer that clears the mark covers
what was marked. The queue is a sequence, and the proof about it is by its head
and its tail alone.

In `Collab` a page may hold a wrong belief for as long as its inbox has
something to say about it. `SyncerInv` speaks of the last such event in the
inbox, which every append and every delivery keeps in step with the relay.

That two pages converge is a matter of debts. An open page `p` owes its scene to
the other page `q` of the room until `q` has merged it, and `Owes(p, q)` names the
three ways it is paid. `SendsAll`: `p` has yet to join or its first broadcast is
due, which is whole, or a healing is due. `Answers`: the join of `q` is in the
inbox of `p`, behind what makes `p` the syncer; of two pages the one that is in
the room when the other joins belongs to the syncer, or is about to hear that it
does. `Gets`: `q` shows the scene, or holds it, or the last broadcast in its inbox
brings it. An increment pays nothing, and may even take the place of a whole scene
that `q` holds; but a page sends one only if its scene is not what it sent last,
and then it has a healing due (`SenderInv`), so the debt becomes `SendsAll`. A
whole scene pays all at once: what follows it is either an increment, again, or
covers it. Two pages are needed in two places only: the answer to a join, which is
the other member's because there is no other, and the held broadcast, which no
third page replaces. They are the two behaviours section 3 describes. A page shows
what it gets, so when nothing is due or on its way each covers the other, and
`Covers` is antisymmetric.

What is saved needs no two pages: `PutterInv` follows the page whose PUT the
board is. Whatever changes its scene, its own editor or the socket, makes a save
due, and a save the gate skips, or that fails with none behind it, is recorded in
`unsent`. A save that is queued is of what the page shows, or another is due. With two pages it shows
what the other shows, and so the board lacks nothing of either.

In `ConflictNews` the news of a page is likewise the last of its kind on the
wire, unless one of the named things has happened, which the history variable
`passedBy` records. In `Shutdown` a flush that began in time began after the
background loop and its passes (`Through`), so it looks at a room last.

Only model-checked: the liveness properties. Liveness under fairness and ENABLED
are out of the prover's reach, and so is induction over data. Every invariant and
every action property of a passing run is proved.

## 5. Not modelled, and the plan

Not modelled in `Room`: expiry warnings, several WOPISrc spellings of one file,
the size cap of a scene, calls that take effect after their caller has given up,
the integers of the save schedule (delay, backoff, throttle). In the client:
read-only users and guests, libraries and images, the cursor and its volatile
broadcasts, the thumbnail, the view's settings, and everything drawn by React.
In the service: sessions and launch (a signed token and an expiry, one function
of its input), proof keys and signatures (cryptography), configuration,
discovery and the HTTP server's middleware (no state of their own that changes).
The replicas' proxying of sockets is a request in `Replicas`; a socket that
stays on a replica that has lost the file is described above and has no property.

The client's parts are not composed with `Relay` and `Room`: a page, its socket's
queue, the room and the pass together are beyond what a run can explore. Each
part's environment is what the other modules' properties say, and more.

Left for the proofs: `SettledConverged` for more than two pages of which none
leaves or loses its connection, the case section 3 does not refute.
