-------------------------------- MODULE Collab --------------------------------
(***************************************************************************)
(* The pages that edit one board together (web/src): the collaboration     *)
(* socket (useCollaboration) and the broadcasts and saves of a page with   *)
(* their gates (useSync).                                                  *)
(*                                                                         *)
(* The server is what the pages see of it: the scene it serves, the        *)
(* members of the relay's room and the user whose pages save. Relay and    *)
(* Room model how it gets there, Drafts what a browser stores,             *)
(* ConflictNews what a page knows of a save conflict. Every user may       *)
(* write.                                                                  *)
(***************************************************************************)
EXTENDS Scenes, SequencesExt

CONSTANTS Pages, Users,
          Starts,     \* the users of the pages, and the bounds on draws and faults
          MaxEnters,  \* loads
          MaxInbox,   \* events of the relay a page has not handled
          MaxSaves,   \* PUTs the worker of a page has not finished
          None

ASSUME CollabAssumption ==
    /\ None \notin Users \cup Pages /\ MaxInbox \in Nat /\ MaxSaves \in Nat
    /\ Starts \subseteq [user : [Pages -> Users], draws : Nat, faults : Nat]

VARIABLES
    board,      \* the scene the service serves
    members,    \* the pages whose sockets are in the room
    syncer,     \* the user the relay has designated, or None
    late        \* scenes of PUTs whose page is gone

serviceVars == <<board, members, syncer, late>>

VARIABLES
    stage,      \* closed, loading, open, leaving
    user,       \* the user of a page
    shown,      \* the scene the page shows, or will when it has loaded
    held,       \* pendingSceneUpdateRef, or NoScene
    due,        \* the throttled calls to come
    putting     \* the scenes the worker has not finished to PUT, the first under way

tabVars == <<stage, user, shown, held, due, putting>>

VARIABLES
    link,       \* the socket: down, up, or broken and not yet noticed
    inRoom,     \* isInRoom
    isSyncer,   \* isDedicatedSyncer
    sent,       \* broadcastedElementVersionsRef, NoScene before the first broadcast
    inbox       \* the relay's events for the page, in order

socketVars == <<link, inRoom, isSyncer, sent, inbox>>

VARIABLES
    enters,     \* loads so far
    draws,      \* changes by the users still to come
    faults      \* broken connections, failed PUTs, crashes and tab hides to come

(***************************************************************************)
(* History, which no guard reads.                                          *)
(***************************************************************************)
VARIABLES
    unsent,     \* the pages whose last call to save was skipped, or failed
    lost,       \* the editor dropped a broadcast held while the page loaded
    putter      \* the page whose PUT the service serves, or None

traceVars == <<unsent, lost, putter>>

collabVars == <<serviceVars, tabVars, socketVars, enters, faults, draws, traceVars>>

-----------------------------------------------------------------------------
Fault == faults > 0 /\ faults' = faults - 1

Event(kind, value) == [kind |-> kind, value |-> value]

\* The relay's emits reach the sockets they name, each in order.
Push(box, events, to) == [p \in Pages |-> IF p \in to THEN box[p] \o events ELSE box[p]]
Roomy(to, n) == \A p \in to : Len(inbox[p]) + n <= MaxInbox

\* Mutant: no periodic healing.
NoHealing == {"server", "socket"}
\* onChange: every change of the scene calls every throttle.
OnChange == {"server", "socket", "heal"}

\* Mutant: a change the socket brought is not saved.
NoRemoteSave(before, after) == IF before = after THEN {} ELSE OnChange \ {"server"}
\* The editor reports a remote change as it reports a local one.
OnRemoteChange(before, after) == IF before = after THEN {} ELSE OnChange

-----------------------------------------------------------------------------
(***************************************************************************)
(* A page opens, mounts its editor, and changes.                           *)
(***************************************************************************)
\* The load finds what the service serves; its socket connects meanwhile.
Enter(p) ==
    /\ stage[p] = "closed" /\ enters < MaxEnters
    /\ enters' = enters + 1
    /\ stage' = [stage EXCEPT ![p] = "loading"]
    /\ shown' = [shown EXCEPT ![p] = board]
    /\ UNCHANGED <<serviceVars, user, held, due, putting, socketVars, faults, draws,
                   unsent, lost, putter>>

\* Mutant: the held broadcast is not taken out.
Undrained(p) == held
Drained(p) == [held EXCEPT ![p] = NoScene]

\* The editor mounts and the held broadcast is drained into it; whether the
\* initial scene replaces it afterwards is the editor's affair.
Mount(p) ==
    /\ stage[p] = "loading"
    /\ stage' = [stage EXCEPT ![p] = "open"]
    /\ \/ /\ shown' = [shown EXCEPT ![p] = IF held[p] = NoScene THEN @ ELSE Merge(@, held[p])]
          /\ UNCHANGED lost
       \/ /\ held[p] # NoScene
          /\ lost' = [lost EXCEPT ![p] = TRUE]
          /\ UNCHANGED shown
    /\ held' = Drained(p)
    /\ due' = [due EXCEPT ![p] = OnChange]
    /\ UNCHANGED <<serviceVars, user, putting, socketVars, enters, faults, draws, unsent, putter>>

Draw(p) ==
    /\ stage[p] = "open"
    /\ draws > 0 /\ draws' = draws - 1
    /\ \E e \in Elements : shown' = [shown EXCEPT ![p] = Edited(@, e, draws)]
    /\ due' = [due EXCEPT ![p] = OnChange]
    /\ UNCHANGED <<serviceVars, stage, user, held, putting, socketVars, enters,
                   faults, traceVars>>

-----------------------------------------------------------------------------
(***************************************************************************)
(* Saves (useSync.ts, syncWorker.ts). The worker runs one PUT at a time,   *)
(* in the order of the calls.                                              *)
(***************************************************************************)
\* shouldSkipServerAPISync: a broken socket still reads as online.
MaySave(p) == isSyncer[p] /\ link[p] # "down"

\* The page posts the scene it shows to its worker.
Posts(p) == [putting EXCEPT ![p] = Append(@, shown[p])]

\* doSyncToServerAPI: the gate is asked and the scene taken at the call, which
\* does not wait for the worker; a call the gate skips is not made later.
SyncToServer(p) ==
    /\ stage[p] = "open" /\ "server" \in due[p]
    /\ due' = [due EXCEPT ![p] = @ \ {"server"}]
    /\ \/ /\ MaySave(p) /\ Len(putting[p]) < MaxSaves
          /\ putting' = Posts(p)
          /\ unsent' = unsent \ {p}
       \/ /\ ~MaySave(p)
          /\ unsent' = unsent \cup {p}
          /\ UNCHANGED putting
    /\ UNCHANGED <<serviceVars, stage, user, shown, held, socketVars, enters, faults,
                   draws, lost, putter>>

\* A PUT is served and answered; or it fails, or only its answer does. The
\* worker goes on with the next one.
Answer(p) ==
    /\ putting[p] # <<>>
    /\ \/ board' = Head(putting[p]) /\ putter' = p /\ UNCHANGED <<unsent, faults>>
       \/ /\ Fault
          /\ (board' = Head(putting[p]) /\ putter' = p) \/ UNCHANGED <<board, putter>>
          /\ unsent' = IF Tail(putting[p]) = <<>> THEN unsent \cup {p} ELSE unsent
    /\ putting' = [putting EXCEPT ![p] = Tail(@)]
    /\ UNCHANGED <<members, syncer, late, stage, user, shown, held, due,
                   socketVars, enters, draws, lost>>

\* A PUT whose page is gone reaches the server, or does not.
AnswerLate ==
    /\ \E s \in late :
          /\ late' = late \ {s}
          /\ \/ board' = s /\ putter' = None
             \/ UNCHANGED <<board, putter>>
    /\ UNCHANGED <<members, syncer, tabVars, socketVars, enters, faults, draws, unsent, lost>>

-----------------------------------------------------------------------------
(***************************************************************************)
(* Broadcasts (useSync.ts).                                                *)
(***************************************************************************)
Online(p) == link[p] # "down" /\ inRoom[p]

\* onServerBroadcast forwards a broadcast to the rest of the room of its
\* sender; what a broken socket sends is lost.
Peers(p) == IF p \in members THEN members \ {p} ELSE {}
Broadcast(p, payload, box) ==
    /\ Roomy(Peers(p), 1)
    /\ inbox' = Push(box, <<Event("scene", payload)>>, Peers(p))

\* decideSceneBroadcast: the first time the whole scene, then what changed.
Payload(p) == IF sent[p] = NoScene THEN shown[p] ELSE Incremental(shown[p], sent[p])

\* doSyncViaWebSocket
SendChanges(p) ==
    IF Online(p) /\ sent[p] # shown[p]
    THEN Broadcast(p, Payload(p), inbox) /\ sent' = [sent EXCEPT ![p] = shown[p]]
    ELSE UNCHANGED <<inbox, sent>>
Flush(p) == IF "socket" \in due[p] THEN SendChanges(p) ELSE UNCHANGED <<inbox, sent>>

SyncViaSocket(p) ==
    /\ stage[p] = "open" /\ "socket" \in due[p]
    /\ due' = [due EXCEPT ![p] = @ \ {"socket"}]
    /\ SendChanges(p)
    /\ UNCHANGED <<serviceVars, stage, user, shown, held, putting, link, inRoom,
                   isSyncer, enters, faults, draws, traceVars>>

\* doPeriodicFullSceneHealing: the whole scene, twenty seconds after a change.
Heal(p) ==
    /\ stage[p] = "open" /\ "heal" \in due[p]
    /\ due' = [due EXCEPT ![p] = @ \ {"heal"}]
    /\ IF Online(p) /\ sent[p] # NoScene
       THEN Broadcast(p, shown[p], inbox) /\ sent' = [sent EXCEPT ![p] = shown[p]]
       ELSE UNCHANGED <<inbox, sent>>
    /\ UNCHANGED <<serviceVars, stage, user, shown, held, putting, link, inRoom,
                   isSyncer, enters, faults, draws, traceVars>>

\* handleVisibilityChange: a hidden tab flushes its broadcast, and the
\* syncer's saves at once, its socket online or not.
Hide(p) ==
    /\ stage[p] = "open" /\ Fault
    /\ Flush(p)
    /\ IF isSyncer[p]
       THEN /\ Len(putting[p]) < MaxSaves
            /\ due' = [due EXCEPT ![p] = @ \ {"socket", "server"}]
            /\ putting' = Posts(p)
            /\ unsent' = unsent \ {p}
       ELSE due' = [due EXCEPT ![p] = @ \ {"socket"}] /\ UNCHANGED <<putting, unsent>>
    /\ UNCHANGED <<serviceVars, stage, user, shown, held, link, inRoom, isSyncer, enters,
                   draws, lost, putter>>

\* flushOnTeardown: a last broadcast, and the syncer's last PUT, which blocks
\* the page until it is answered or fails.
Leave(p) ==
    /\ stage[p] = "open"
    /\ stage' = [stage EXCEPT ![p] = "leaving"]
    /\ Flush(p)
    /\ \/ isSyncer[p] /\ board' = shown[p] /\ putter' = p /\ unsent' = unsent \ {p}
       \/ UNCHANGED <<board, putter, unsent>>
    /\ due' = [due EXCEPT ![p] = {}]
    /\ UNCHANGED <<members, syncer, late, user, shown, held, putting, link,
                   inRoom, isSyncer, enters, faults, draws, lost>>

-----------------------------------------------------------------------------
(***************************************************************************)
(* The socket (useCollaboration.ts) and the room it joins (relay.go).      *)
(***************************************************************************)
\* connect and init-room.
Connect(p) ==
    /\ stage[p] \in {"loading", "open"} /\ link[p] = "down"
    /\ link' = [link EXCEPT ![p] = "up"]
    /\ UNCHANGED <<serviceVars, tabVars, inRoom, isSyncer, sent, inbox, enters, faults,
                   draws, unsent, lost, putter>>

\* onJoinRoom, for the first join-room of a socket: every member hears of the
\* joiner, who is told whether it is the syncer.
Join(p) ==
    /\ stage[p] # "closed" /\ link[p] = "up" /\ p \notin members
    /\ Roomy(members \cup {p}, 1)
    /\ members' = members \cup {p}
    /\ syncer' = IF syncer = None THEN user[p] ELSE syncer
    /\ inbox' = Push(Push(inbox, <<Event("userJoined", p)>>, members),
                     <<Event("joined", syncer' = user[p])>>, {p})
    /\ UNCHANGED <<board, late, tabVars, link, inRoom, isSyncer, sent,
                   enters, faults, draws, traceVars>>

\* emitSyncDesignate: every socket of the elected user.
Promoted(u, rest) == {p \in rest : user[p] = u}

\* onDisconnecting: with the last socket of the syncer another user is
\* elected.
LeaveRoom(p, box) ==
    LET rest == members \ {p}
    IN  /\ members' = rest
        /\ IF p \notin members \/ syncer # user[p] \/ \E q \in rest : user[q] = user[p]
           THEN syncer' = syncer /\ inbox' = box
           ELSE \/ rest = {} /\ syncer' = None /\ inbox' = box
                \/ \E u \in {user[q] : q \in rest} :
                      /\ Roomy(Promoted(u, rest), 1)
                      /\ syncer' = u
                      /\ inbox' = Push(box, <<Event("designate", TRUE)>>, Promoted(u, rest))

\* The connection breaks and the relay notices; the page does later.
Break(p) ==
    /\ link[p] = "up" /\ Fault
    /\ link' = [link EXCEPT ![p] = "broken"]
    /\ LeaveRoom(p, inbox)
    /\ UNCHANGED <<board, late, tabVars, inRoom, isSyncer, sent, enters,
                   draws, traceVars>>

Coming(p, kinds) == \E i \in DOMAIN inbox[p] : inbox[p][i].kind \in kinds

\* disconnect: what was under way is lost; isDedicatedSyncer stays.
Notice(p) ==
    /\ link[p] = "broken"
    /\ link' = [link EXCEPT ![p] = "down"]
    /\ inRoom' = [inRoom EXCEPT ![p] = FALSE]
    /\ sent' = [sent EXCEPT ![p] = NoScene]
    /\ inbox' = [inbox EXCEPT ![p] = <<>>]
    /\ UNCHANGED <<serviceVars, tabVars, isSyncer, enters, faults, draws,
                   unsent, lost, putter>>

-----------------------------------------------------------------------------
(***************************************************************************)
(* The handlers of the relay's events, in useCollaboration.ts.             *)
(***************************************************************************)
Handled(p) == [inbox EXCEPT ![p] = Tail(@)]
NextIs(p, kind) == stage[p] \in {"loading", "open"} /\ inbox[p] # <<>> /\ Head(inbox[p]).kind = kind

\* handleUserJoined: the syncer sends the whole scene.
Rebroadcast(p) ==
    IF isSyncer[p] /\ stage[p] = "open" THEN Broadcast(p, shown[p], Handled(p))
    ELSE inbox' = Handled(p)

OnUserJoined(p) ==
    /\ NextIs(p, "userJoined")
    /\ Rebroadcast(p)
    /\ UNCHANGED <<tabVars, link, inRoom, isSyncer, sent>>

\* Mutant: the role is taken on and never put down.
RoleKept(p) == isSyncer[p] \/ Head(inbox[p]).value
\* handleSyncDesignate
Role(p) == Head(inbox[p]).value

\* room-user-change, user-joined and sync-designate of the page's own join,
\* in this order; the role it had before still counts for the second.
OnJoined(p) ==
    /\ NextIs(p, "joined")
    /\ Rebroadcast(p)
    /\ inRoom' = [inRoom EXCEPT ![p] = TRUE]
    /\ isSyncer' = [isSyncer EXCEPT ![p] = Role(p)]
    /\ due' = [due EXCEPT ![p] = IF stage[p] = "open" THEN @ \cup {"socket"} ELSE @]
    /\ UNCHANGED <<stage, user, shown, held, putting, link, sent>>

\* An election after the join.
OnDesignate(p) ==
    /\ NextIs(p, "designate")
    /\ isSyncer' = [isSyncer EXCEPT ![p] = Role(p)]
    /\ inbox' = Handled(p)
    /\ UNCHANGED <<tabVars, link, inRoom, sent>>

\* handleClientBroadcast and queueSceneUpdate: merged at once, or the last one
\* held until the editor is there.
OnScene(p) ==
    /\ NextIs(p, "scene")
    /\ inbox' = Handled(p)
    /\ LET payload == Head(inbox[p]).value
           merged == Merge(shown[p], payload)
       IN  IF stage[p] = "open"
           THEN /\ shown' = [shown EXCEPT ![p] = merged]
                /\ due' = [due EXCEPT ![p] = @ \cup OnRemoteChange(shown[p], merged)]
                /\ UNCHANGED held
           ELSE /\ held' = [held EXCEPT ![p] = payload]
                /\ UNCHANGED <<shown, due>>
    /\ UNCHANGED <<stage, user, putting, link, inRoom, isSyncer, sent>>

Deliver(p) ==
    /\ \/ OnUserJoined(p) \/ OnJoined(p) \/ OnDesignate(p)
       \/ OnScene(p)
    /\ UNCHANGED <<serviceVars, enters, faults, draws, unsent, lost, putter>>

-----------------------------------------------------------------------------
\* The document is destroyed, at the end of a teardown or without one: a PUT
\* under way lives on, and the relay sees the socket close.
Vanish(p) ==
    /\ \/ stage[p] = "leaving" /\ UNCHANGED faults
       \/ stage[p] \in {"loading", "open"} /\ Fault
    /\ LeaveRoom(p, [inbox EXCEPT ![p] = <<>>])
    /\ late' = IF putting[p] = <<>> THEN late ELSE late \cup {Head(putting[p])}
    /\ stage' = [stage EXCEPT ![p] = "closed"]
    /\ shown' = [shown EXCEPT ![p] = EmptyScene]
    /\ held' = [held EXCEPT ![p] = NoScene]
    /\ due' = [due EXCEPT ![p] = {}]
    /\ putting' = [putting EXCEPT ![p] = <<>>]
    /\ link' = [link EXCEPT ![p] = "down"]
    /\ inRoom' = [inRoom EXCEPT ![p] = FALSE]
    /\ isSyncer' = [isSyncer EXCEPT ![p] = FALSE]
    /\ sent' = [sent EXCEPT ![p] = NoScene]
    /\ unsent' = unsent \ {p}
    /\ lost' = [lost EXCEPT ![p] = FALSE]
    /\ putter' = IF putter = p THEN None ELSE putter
    /\ UNCHANGED <<board, user, enters, draws>>

-----------------------------------------------------------------------------
CollabInit ==
    /\ board = EmptyScene
    /\ members = {} /\ syncer = None /\ late = {}
    /\ stage = [p \in Pages |-> "closed"]
    /\ shown = [p \in Pages |-> EmptyScene]
    /\ held = [p \in Pages |-> NoScene]
    /\ due = [p \in Pages |-> {}]
    /\ putting = [p \in Pages |-> <<>>]
    /\ link = [p \in Pages |-> "down"]
    /\ inRoom = [p \in Pages |-> FALSE]
    /\ isSyncer = [p \in Pages |-> FALSE]
    /\ sent = [p \in Pages |-> NoScene]
    /\ inbox = [p \in Pages |-> <<>>]
    /\ enters = 0
    /\ \E s \in Starts : user = s.user /\ draws = s.draws /\ faults = s.faults
    /\ unsent = {}
    /\ lost = [p \in Pages |-> FALSE]
    /\ putter = None

Tab(p) ==
    \/ Enter(p) \/ Mount(p) \/ Draw(p) \/ SyncToServer(p) \/ Answer(p)
    \/ SyncViaSocket(p) \/ Heal(p) \/ Hide(p) \/ Leave(p) \/ Vanish(p)
Socket(p) == Connect(p) \/ Join(p) \/ Break(p) \/ Notice(p) \/ Deliver(p)
CollabNext ==
    \/ \E p \in Pages : Tab(p) \/ Socket(p)
    \/ AnswerLate

CollabSpec == CollabInit /\ [][CollabNext]_collabVars

-----------------------------------------------------------------------------
\* Every variable of the service, of the pages and of their sockets stays in
\* its type, and a page with an editor holds no broadcast back.
CollabTypes ==
    /\ board \in AllScenes /\ late \subseteq AllScenes
    /\ members \subseteq Pages /\ syncer \in Users \cup {None} /\ putter \in Pages \cup {None}
    /\ unsent \subseteq Pages
    /\ \A p \in Pages :
          /\ stage[p] \in {"closed", "loading", "open", "leaving"}
          /\ user[p] \in Users
          /\ shown[p] \in AllScenes /\ held[p] \in Kept /\ sent[p] \in Kept
          /\ Len(putting[p]) <= MaxSaves /\ \A i \in DOMAIN putting[p] : putting[p][i] \in AllScenes
          /\ due[p] \subseteq {"server", "socket", "heal"}
          /\ link[p] \in {"down", "up", "broken"}
          /\ Len(inbox[p]) <= MaxInbox
          /\ stage[p] = "open" => held[p] = NoScene

InTheRoom(p) == stage[p] = "open" /\ link[p] = "up" /\ inRoom[p] /\ p \in members

\* A page in the room with no designation on its way believes it is the
\* syncer exactly if the relay holds its user for the syncer, through
\* elections, reconnects and the role kept from the socket before.
SaverIsSyncer ==
    \A p \in Pages :
        InTheRoom(p) /\ ~Coming(p, {"joined", "designate"}) =>
            (isSyncer[p] <=> syncer = user[p])

\* Nothing is on its way to a page of the room.
Calm(p) == InTheRoom(p) /\ inbox[p] = <<>>
Settled(calls) == \A p \in Pages : stage[p] = "closed" \/ (Calm(p) /\ due[p] \cap calls = {})

\* When no broadcast is due or on its way, two pages that share the board show
\* one scene, whatever they missed while they loaded, joined or were cut off.
\* (With a third page they may not: it leaves before it has answered a joiner,
\* or has pushed out what a loading page held and leaves before its healing.)
SettledConverged ==
    Settled({"socket", "heal"}) =>
        \A p, q \in Pages :
            stage[p] = "open" /\ stage[q] = "open" /\ ~lost[p] /\ ~lost[q] => shown[p] = shown[q]

\* When nothing is due and no PUT is under way or waiting in a worker, the
\* board as the service serves it lacks nothing any page of the room shows, if
\* the last call to save of the page whose PUT it is was neither skipped nor
\* failed.
SettledIsSaved ==
    /\ Settled({"server", "socket", "heal"})
    /\ late = {} /\ \A p \in Pages : putting[p] = <<>> /\ ~lost[p]
    /\ putter # None /\ putter \notin unsent
    => \A p \in Pages : stage[p] = "open" => Covers(board, shown[p])

=============================================================================
