-------------------------------- MODULE Drafts --------------------------------
(***************************************************************************)
(* How the pages one browser has open on a board keep and save its scene   *)
(* (web/src): their load (useBoardDataManager), the throttled saves and    *)
(* their gates (useSync), the sync worker that runs them (syncWorker), the *)
(* IndexedDB record they share (db), and the two ways out of a save        *)
(* conflict (ConflictBanner).                                              *)
(*                                                                         *)
(* Users of other browsers are the environment: they save, and resolve a   *)
(* conflict. The socket is modelled in Collab and ConflictNews; here what  *)
(* it brings may come at any time: a change of another page, news of the   *)
(* conflict, the role of the syncer. The server is what these files see of *)
(* it: the scene it retains, the content of the host's file when it        *)
(* retains none, and the conflict.                                         *)
(***************************************************************************)
EXTENDS Scenes, SequencesExt

CONSTANTS Tabs,         \* of one browser
          Plans,        \* the bounds on loads, changes and troubles
          MaxQueue,     \* messages a worker has not finished
          NoRecord, NoTab

Records == [scene : AllScenes, pending : BOOLEAN]

ASSUME DraftAssumption ==
    /\ NoRecord \notin Records /\ NoTab \notin Tabs
    /\ Plans \subseteq [loads : [Tabs -> Nat], edits : Nat, troubles : Nat]

VARIABLES
    retained,  \* the scene the service holds for the board, or NoScene
    host,      \* the scene in the host's file, NoScene for a 0-byte file
    conflict,  \* the room's conflict
    stray      \* scenes of PUTs whose page is gone

boardVars == <<retained, host, conflict, stray>>

VARIABLES
    phase,     \* closed, reading, fetched, open, leaving
    found,     \* what the load of the page found
    scene,     \* the scene the page shows
    exit,      \* no, resolving, resolved, cleared: `reloading` is exit # "no"
    flag,      \* the conflict the page knows of
    recalled   \* the pages a reload-required is on its way to

pageVars == <<phase, found, scene, exit, flag, recalled>>

VARIABLES
    queue,     \* the messages the worker has not finished, the first one running
    answered,  \* the tabs whose worker has the answer to its first message, a PUT
    record     \* the browser's IndexedDB record of the board, or NoRecord

storeVars == <<queue, answered, record>>

VARIABLES
    loads,     \* the loads each tab may still make
    spare,     \* changes by the users still to come
    troubles   \* failed requests, crashes and conflicts to come

(***************************************************************************)
(* History, which no guard reads.                                          *)
(***************************************************************************)
VARIABLES
    unsynced,  \* the scene last stored that no answer of the server covers
    writer,    \* the tab that stored it
    discarded  \* pending edits were discarded with nothing under way

historyVars == <<unsynced, writer, discarded>>

VARIABLES
    unread,        \* the tabs whose scene stems from a load that had nothing to go by
    unreadRecord,  \* the record was last written by such a tab
    failures       \* the requests of loads that failed

readVars == <<unread, unreadRecord, failures>>

draftVars ==
    <<boardVars, pageVars, storeVars, loads, troubles, spare, historyVars, readVars>>

-----------------------------------------------------------------------------
Reloading(t) == exit[t] # "no"
Alive(t) == phase[t] \in {"open", "leaving"}
Alone(t) == \A u \in Tabs \ {t} : phase[u] = "closed"

Pending(local) == local # NoRecord /\ local.pending

Trouble == troubles > 0 /\ troubles' = troubles - 1

Forget == unsynced' = NoScene /\ writer' = NoTab

Served == IF retained # NoScene THEN retained ELSE host

-----------------------------------------------------------------------------
(***************************************************************************)
(* Loading a page (useBoardDataManager.ts).                                *)
(***************************************************************************)
NothingFound == [scene |-> EmptyScene, keep |-> "no", confirmed |-> FALSE, local |-> NoRecord]

\* A tab navigates to the board: the load reads the browser's record first.
Open(t) ==
    /\ phase[t] = "closed"
    /\ loads[t] > 0 /\ loads' = [loads EXCEPT ![t] = @ - 1]
    /\ found' = [found EXCEPT ![t] = [NothingFound EXCEPT !.local = record]]
    /\ discarded' = FALSE
    /\ unread' = IF unreadRecord THEN unread \cup {t} ELSE unread \ {t}
    /\ phase' = [phase EXCEPT ![t] = "reading"]
    /\ UNCHANGED <<boardVars, scene, exit, flag, recalled, storeVars, troubles, spare,
                   unsynced, writer, unreadRecord, failures>>

\* Mutant: the server's scene is shown whatever the record holds.
ServerFirst(server, local, failed) ==
    [local |-> local,
     scene |-> IF server # NoScene THEN server
               ELSE IF local # NoRecord THEN local.scene ELSE EmptyScene,
     keep |-> IF server = NoScene THEN "no"
              ELSE IF Pending(local) THEN "pending" ELSE "clean",
     confirmed |-> server # NoScene \/ local # NoRecord \/ ~failed]

\* Mutant: a board that could not be read is taken for an empty one.
FailedIsEmpty(server, local, failed) ==
    [local |-> local,
     scene |-> IF server = NoScene THEN IF local = NoRecord THEN EmptyScene ELSE local.scene
               ELSE IF Pending(local) THEN Merge(local.scene, server) ELSE server,
     keep |-> IF server = NoScene THEN "no"
              ELSE IF Pending(local) THEN "pending" ELSE "clean",
     confirmed |-> TRUE]

\* getLocalBoardDataPolicy and the branches of loadBoard: reconcile pending
\* local edits, else the server's scene, else the local one, else an empty
\* scene, which stands for the board only if the server could be asked.
Resolution(server, local, failed) ==
    LET got(s, keep, confirmed) ==
            [local |-> local, scene |-> s, keep |-> keep, confirmed |-> confirmed]
    IN  IF server # NoScene
        THEN IF Pending(local)
             THEN got(Merge(local.scene, server), "pending", TRUE)
             ELSE got(server, "clean", TRUE)
        ELSE IF local # NoRecord THEN got(local.scene, "no", TRUE)
        ELSE got(EmptyScene, "no", ~failed)

\* fetchWhiteboardSnapshot: a 0-byte board is answered as no data.
Fetch(t) ==
    /\ phase[t] = "reading"
    /\ \/ /\ found' = [found EXCEPT ![t] = Resolution(Served, @.local, FALSE)]
          /\ unread' = unread \ {t}
          /\ UNCHANGED <<troubles, failures>>
       \/ /\ Trouble
          /\ found' = [found EXCEPT ![t] = Resolution(NoScene, @.local, TRUE)]
          /\ unread' = IF found[t].local = NoRecord THEN unread \cup {t} ELSE unread
          /\ failures' = failures + 1
    /\ phase' = [phase EXCEPT ![t] = "fetched"]
    /\ UNCHANGED <<boardVars, scene, exit, flag, recalled, storeVars, loads, spare,
                   historyVars, unreadRecord>>

\* db.put of what the load found, then resolveInitialData mounts the editor.
Resolve(t) ==
    /\ phase[t] = "fetched"
    /\ phase' = [phase EXCEPT ![t] = "open"]
    /\ scene' = [scene EXCEPT ![t] = found[t].scene]
    /\ found' = [found EXCEPT ![t] = [NothingFound EXCEPT
                    !.confirmed = found[t].confirmed,
                    !.local = IF Pending(found[t].local) THEN found[t].local ELSE NoRecord]]
    /\ LET f == found[t]
       IN  IF f.keep = "no" THEN UNCHANGED <<record, unsynced, writer, unreadRecord>>
           ELSE /\ record' = [scene |-> f.scene, pending |-> f.keep = "pending"]
                /\ unreadRecord' = FALSE
                /\ IF record = f.local THEN UNCHANGED <<unsynced, writer>> ELSE Forget
    /\ UNCHANGED <<boardVars, exit, flag, recalled, queue, answered, loads, troubles, spare,
                   discarded, unread, failures>>

-----------------------------------------------------------------------------
(***************************************************************************)
(* Saving (useSync.ts).                                                    *)
(***************************************************************************)
Edit(t) ==
    /\ phase[t] = "open"
    /\ spare > 0 /\ spare' = spare - 1
    /\ \E e \in Elements : scene' = [scene EXCEPT ![t] = Edited(@, e, spare)]
    /\ UNCHANGED <<boardVars, phase, found, exit, flag, recalled, storeVars, loads, troubles,
                   historyVars, readVars>>

\* A broadcast of another page is merged; the editor reports it as a change.
Hear(t) ==
    /\ phase[t] = "open"
    /\ \E s \in {scene[u] : u \in Tabs} \cup ({retained} \ {NoScene}) :
          scene' = [scene EXCEPT ![t] = Merge(@, s)]
    /\ UNCHANGED <<boardVars, phase, found, exit, flag, recalled, storeVars, loads,
                   troubles, spare, historyVars, readVars>>

Message(kind, t) == [kind |-> kind, scene |-> scene[t]]
Postable(t, kind) ==
    /\ Len(queue[t]) < MaxQueue
    /\ \A i \in DOMAIN queue[t] : queue[t][i] # Message(kind, t)

\* Mutant: a page that is about to reload still stores its scene.
StoresAlways(t) == TRUE
\* shouldSkipLocalSync
MayStore(t) == ~Reloading(t)

\* shouldSkipServerAPISync and shouldSkipFinalServerSync, but for the role
MayPut(t) == ~flag[t] /\ ~Reloading(t) /\ found[t].confirmed

(***************************************************************************)
(* Any change the editor reports, one of the view too, leads to the calls  *)
(* below after their throttles, and a hidden tab makes them at once: they  *)
(* may come at any time.                                                   *)
(***************************************************************************)
\* doSyncToLocal
SyncLocal(t) ==
    /\ phase[t] = "open" /\ Postable(t, "store")
    /\ queue' = IF MayStore(t) THEN [queue EXCEPT ![t] = Append(@, Message("store", t))] ELSE queue
    /\ UNCHANGED <<boardVars, phase, found, scene, exit, flag, recalled, answered, record,
                   loads, troubles, spare, historyVars, readVars>>

\* doSyncToServerAPI: a page that is not the syncer, or not online, skips it.
SyncServer(t) ==
    /\ phase[t] = "open" /\ Postable(t, "put")
    /\ \/ MayPut(t) /\ queue' = [queue EXCEPT ![t] = Append(@, Message("put", t))]
       \/ UNCHANGED queue
    /\ UNCHANGED <<boardVars, phase, found, scene, exit, flag, recalled, answered, record,
                   loads, troubles, spare, historyVars, readVars>>

\* flushOnTeardown: the pagehide of a page the user leaves, or that reloads.
\* The syncer's last PUT blocks the page until it is answered or fails.
Close(t) ==
    /\ phase[t] = "open"
    /\ phase' = [phase EXCEPT ![t] = "leaving"]
    /\ found' = [found EXCEPT ![t].local = NoRecord]
    /\ \/ /\ queue' = IF MayStore(t) THEN [queue EXCEPT ![t] = Append(@, Message("store", t))]
                      ELSE queue
          /\ \/ MayPut(t) /\ retained' = scene[t]
             \/ UNCHANGED retained
       \/ UNCHANGED <<queue, retained>>
    /\ UNCHANGED <<host, conflict, stray, scene, exit, flag, recalled, answered, record,
                   loads, troubles, spare, historyVars, readVars>>

-----------------------------------------------------------------------------
(***************************************************************************)
(* The worker (syncWorker.ts).                                             *)
(***************************************************************************)
\* Mutant: a message starts while the one before it is still at the server.
StartsAnyway(t) == DOMAIN queue[t]
\* messageQueue: a message starts when every earlier one is finished.
Startable(t) == {i \in DOMAIN queue[t] : i = 1}

\* handleSyncToLocal
StoreLocal(t) ==
    /\ Alive(t)
    /\ \E i \in Startable(t) :
          /\ queue[t][i].kind = "store"
          /\ queue' = [queue EXCEPT ![t] = RemoveAt(@, i)]
          /\ record' = [scene |-> queue[t][i].scene, pending |-> TRUE]
          /\ unsynced' = queue[t][i].scene
    /\ writer' = t
    /\ unreadRecord' = (t \in unread)
    /\ UNCHANGED <<boardVars, pageVars, answered, loads, troubles, spare, discarded,
                   unread, failures>>

Putting(t) == t \notin answered /\ queue[t] # <<>> /\ Head(queue[t]).kind = "put"

\* handleSyncToServer: the PUT is served and answered.
ServePut(t) ==
    /\ Alive(t) /\ Putting(t)
    /\ retained' = Head(queue[t]).scene
    /\ answered' = answered \cup {t}
    /\ UNCHANGED <<host, conflict, stray, pageVars, queue, record, loads, troubles, spare,
                   historyVars, readVars>>

\* The PUT fails, or its answer is lost after it was served.
FailPut(t) ==
    /\ Alive(t) /\ Putting(t) /\ Trouble
    /\ \/ retained' = Head(queue[t]).scene
       \/ UNCHANGED retained
    /\ queue' = [queue EXCEPT ![t] = Tail(@)]
    /\ UNCHANGED <<host, conflict, stray, pageVars, answered, record, loads, spare, historyVars, readVars>>

\* The record is written back as synced, with the scene that was PUT.
RecordPut(t) ==
    /\ Alive(t) /\ t \in answered
    /\ LET s == Head(queue[t]).scene
       IN  /\ record' = [scene |-> s, pending |-> FALSE]
           /\ IF unsynced # NoScene /\ (Covers(s, unsynced) \/ writer # t)
              THEN Forget ELSE UNCHANGED <<unsynced, writer>>
    /\ unreadRecord' = (t \in unread)
    /\ answered' = answered \ {t}
    /\ queue' = [queue EXCEPT ![t] = Tail(@)]
    /\ UNCHANGED <<boardVars, pageVars, loads, troubles, spare, discarded, unread, failures>>

\* A PUT whose page is gone reaches the server; it may as well not.
Stray ==
    /\ \E s \in stray :
          /\ stray' = stray \ {s}
          /\ retained' = s
    /\ UNCHANGED <<host, conflict, pageVars, storeVars, loads, troubles, spare, historyVars, readVars>>

\* Another browser changes the board and saves it.
OthersSave ==
    /\ spare > 0 /\ spare' = spare - 1
    /\ \E e \in Elements :
          retained' = Edited(IF retained = NoScene THEN EmptyScene ELSE retained, e, spare)
    /\ UNCHANGED <<host, conflict, stray, pageVars, storeVars, loads, troubles, historyVars, readVars>>

-----------------------------------------------------------------------------
(***************************************************************************)
(* A conflict and the two ways out of it (ConflictBanner.tsx,              *)
(* ResolveConflict of internal/room/manager.go).                           *)
(***************************************************************************)
\* Someone else rewrites the file; the room's next save finds out.
Stranger ==
    /\ retained # NoScene /\ ~conflict /\ Trouble
    /\ host' = EmptyScene
    /\ conflict' = TRUE
    /\ UNCHANGED <<retained, stray, pageVars, storeVars, loads, spare, historyVars, readVars>>

\* conflict-state, or the poll: when it comes, and whether, is ConflictNews's.
Learn(t) ==
    /\ phase[t] = "open" /\ flag[t] # conflict
    /\ flag' = [flag EXCEPT ![t] = conflict]
    /\ UNCHANGED <<boardVars, phase, found, scene, exit, recalled, storeVars,
                   loads, troubles, spare, historyVars, readVars>>

\* handleReload of the banner.
ClickReload(t) ==
    /\ phase[t] = "open" /\ flag[t] /\ exit[t] = "no"
    /\ exit' = [exit EXCEPT ![t] = "resolving"]
    /\ UNCHANGED <<boardVars, phase, found, scene, flag, recalled, storeVars,
                   loads, troubles, spare, historyVars, readVars>>

\* ResolveConflict(overwrite = FALSE) drops the retained scene and recalls
\* the pages whose sockets are in the room.
DropScene(but) ==
    /\ conflict' = FALSE
    /\ retained' = NoScene
    /\ \E reached \in SUBSET {u \in Tabs \ but : phase[u] # "closed"} :
          recalled' = recalled \cup reached

\* The request of handleReload, which may fail. The page reloads either way.
ResolveReload(t) ==
    /\ exit[t] = "resolving" /\ phase[t] = "open"
    /\ exit' = [exit EXCEPT ![t] = "resolved"]
    /\ \/ conflict /\ DropScene({t}) /\ UNCHANGED troubles
       \/ /\ IF conflict THEN Trouble ELSE UNCHANGED troubles
          /\ UNCHANGED <<conflict, retained, recalled>>
    /\ UNCHANGED <<host, stray, phase, found, scene, flag, storeVars, loads, spare,
                   historyVars, readVars>>

\* reload-required: the page commits to a reload.
OnReloadRequired(t) ==
    /\ t \in recalled /\ phase[t] # "leaving"
    /\ recalled' = recalled \ {t}
    /\ exit' = [exit EXCEPT ![t] = IF @ = "no" THEN "resolved" ELSE @]
    /\ UNCHANGED <<boardVars, phase, found, scene, flag, storeVars, loads, troubles,
                   spare, historyVars, readVars>>

\* db.clearPendingLocalChanges, before the page reloads.
ClearPending(t) ==
    /\ exit[t] = "resolved" /\ phase[t] # "leaving"
    /\ exit' = [exit EXCEPT ![t] = "cleared"]
    /\ record' = IF record = NoRecord THEN record ELSE [record EXCEPT !.pending = FALSE]
    /\ Forget
    /\ discarded' = (Alone(t) /\ phase[t] = "open" /\ queue[t] = <<>>)
    /\ UNCHANGED <<boardVars, phase, found, scene, flag, recalled, queue, answered,
                   loads, troubles, spare, readVars>>

\* handleOverwrite of the banner: the retained scene stays and is forced out.
Overwrite(t) ==
    /\ phase[t] = "open" /\ flag[t] /\ exit[t] = "no"
    /\ conflict' = FALSE
    /\ flag' = [flag EXCEPT ![t] = FALSE]
    /\ UNCHANGED <<retained, host, stray, phase, found, scene, exit, recalled, storeVars,
                   loads, troubles, spare, historyVars, readVars>>

\* A user of another browser resolves the conflict.
OthersResolve ==
    /\ conflict
    /\ DropScene({}) \/ (conflict' = FALSE /\ UNCHANGED <<retained, recalled>>)
    /\ UNCHANGED <<host, stray, phase, found, scene, exit, flag, storeVars, loads, troubles, spare,
                   historyVars, readVars>>

-----------------------------------------------------------------------------
\* Mutant: the worker outlives its page.
Outlives(t) == queue[t]
Terminated(t) == <<>>

\* The document is destroyed, at the end of a teardown or without one: the
\* worker dies with it, a PUT under way does not.
Gone(t) ==
    /\ \/ phase[t] = "leaving" /\ UNCHANGED troubles
       \/ phase[t] \in {"reading", "fetched"} /\ exit[t] = "cleared" /\ UNCHANGED troubles
       \/ phase[t] \notin {"closed", "leaving"} /\ Trouble
    /\ phase' = [phase EXCEPT ![t] = "closed"]
    /\ found' = [found EXCEPT ![t] = NothingFound]
    /\ scene' = [scene EXCEPT ![t] = EmptyScene]
    /\ exit' = [exit EXCEPT ![t] = "no"]
    /\ flag' = [flag EXCEPT ![t] = FALSE]
    /\ recalled' = recalled \ {t}
    /\ stray' = IF Putting(t) THEN stray \cup {Head(queue[t]).scene} ELSE stray
    /\ queue' = [queue EXCEPT ![t] = Terminated(t)]
    /\ answered' = answered \ {t}
    /\ unread' = unread \ {t}
    /\ UNCHANGED <<retained, host, conflict, record, loads, spare, historyVars, unreadRecord,
                   failures>>

-----------------------------------------------------------------------------
DraftInit ==
    /\ retained = NoScene /\ host = NoScene /\ conflict = FALSE /\ stray = {}
    /\ phase = [t \in Tabs |-> "closed"]
    /\ found = [t \in Tabs |-> NothingFound]
    /\ scene = [t \in Tabs |-> EmptyScene]
    /\ exit = [t \in Tabs |-> "no"]
    /\ flag = [t \in Tabs |-> FALSE]
    /\ recalled = {}
    /\ queue = [t \in Tabs |-> <<>>]
    /\ answered = {}
    /\ record = NoRecord
    /\ \E p \in Plans : loads = p.loads /\ spare = p.edits /\ troubles = p.troubles
    /\ unsynced = NoScene /\ writer = NoTab /\ discarded = FALSE
    /\ unread = {} /\ unreadRecord = FALSE /\ failures = 0

Load(t) == Open(t) \/ Fetch(t) \/ Resolve(t)
Page(t) == Edit(t) \/ Hear(t) \/ SyncLocal(t) \/ SyncServer(t) \/ Close(t) \/ Gone(t)
Worker(t) == StoreLocal(t) \/ ServePut(t) \/ FailPut(t) \/ RecordPut(t)
Exits(t) ==
    \/ Learn(t) \/ ClickReload(t) \/ ResolveReload(t) \/ OnReloadRequired(t)
    \/ ClearPending(t) \/ Overwrite(t)

DraftNext ==
    \/ \E t \in Tabs : Load(t) \/ Page(t) \/ Worker(t) \/ Exits(t)
    \/ Stray \/ Stranger \/ OthersSave \/ OthersResolve

DraftSpec == DraftInit /\ [][DraftNext]_draftVars

-----------------------------------------------------------------------------
\* Every variable of the board, of the pages and of the browser stays in its
\* type, and a worker works for a page that runs.
DraftTypes ==
    /\ retained \in Kept /\ host \in Kept /\ conflict \in BOOLEAN /\ stray \subseteq AllScenes
    /\ recalled \subseteq Tabs
    /\ \A t \in Tabs :
          /\ phase[t] \in {"closed", "reading", "fetched", "open", "leaving"}
          /\ exit[t] \in {"no", "resolving", "resolved", "cleared"}
          /\ scene[t] \in AllScenes
          /\ ~Alive(t) => queue[t] = <<>>
          /\ t \in answered => queue[t] # <<>> /\ Head(queue[t]).kind = "put"
    /\ record # NoRecord => record.scene \in AllScenes /\ record.pending \in BOOLEAN

\* What a browser stored and no answer of the server covers stays in its
\* record, marked pending, through PUTs that fail or are answered late,
\* reloads and crashes. The worker's queue, the order of its two writes and
\* the load's own write have to keep it so; only a discard, or another tab of
\* the browser that writes the shared record, ends it.
UnsyncedStaysPending ==
    unsynced # NoScene =>
        /\ record # NoRecord
        /\ record.pending
        /\ Covers(record.scene, unsynced)

\* A page shows every edit that was pending when its load read the record,
\* whatever the server answered and whatever came from other pages since.
PageShowsPending ==
    \A t \in Tabs :
        phase[t] = "open" /\ Pending(found[t].local) => Covers(scene[t], found[t].local.scene)

\* Edits the user, or the relay, discarded with nothing of the page under way
\* are not marked pending again before the reloaded page has read the record:
\* it would merge them back into the board.
DiscardStaysDiscarded ==
    discarded /\ record # NoRecord => ~record.pending

\* While no more than one request of a load has failed, the empty scene a page
\* shows because it could neither ask the server nor find a record is not put
\* over the board: not by that page, which has not read the board, and not by
\* one that finds the record the first has written of it, since its own load
\* could ask and merged what it found. A second failure may end it: the record
\* then stands for the board.
OneFailedLoadIsHarmless ==
    failures <= 1 =>
        \A t \in unread :
            /\ phase[t] = "open" => ~MayPut(t)
            /\ \A i \in DOMAIN queue[t] : queue[t][i].kind # "put"

=============================================================================
