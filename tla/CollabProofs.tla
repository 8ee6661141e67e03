------------------------------ MODULE CollabProofs ------------------------------
(***************************************************************************)
(* Theorems about Collab, for any number of scenes, changes and faults. Of *)
(* any pages and users: types, the role of the syncer as the pages believe *)
(* it, and the page that saved last. Of two pages: that they come to show  *)
(* one scene, and that it is saved. The invariants say what a page will    *)
(* believe or show when it has handled what is on its way to it, so they   *)
(* hold at every point between the relay and the page.                     *)
(***************************************************************************)
EXTENDS Collab, ScenesProofs, SequenceTheorems

Stages == {"closed", "loading", "open", "leaving"}
Links == {"down", "up", "broken"}
Throttles == {"server", "socket", "heal"}
Events ==
    [kind : {"joined", "designate"}, value : BOOLEAN]
    \cup [kind : {"scene"}, value : AllScenes] \cup [kind : {"userJoined"}, value : Pages]

ServiceShape ==
    /\ board \in AllScenes /\ late \subseteq AllScenes /\ draws \in Nat
    /\ members \subseteq Pages /\ syncer \in Users \cup {None} /\ putter \in Pages \cup {None}
    /\ unsent \subseteq Pages

TabShape ==
    /\ stage \in [Pages -> Stages] /\ user \in [Pages -> Users]
    /\ shown \in [Pages -> AllScenes] /\ held \in [Pages -> Kept]
    /\ due \in [Pages -> SUBSET Throttles] /\ putting \in [Pages -> Seq(AllScenes)]
    /\ \A p \in Pages : Len(putting[p]) <= MaxSaves
    /\ \A p \in Pages : stage[p] = "open" => held[p] = NoScene

BoxesOk(boxes) ==
    /\ boxes \in [Pages -> Seq(Events)]
    /\ \A p \in Pages : Len(boxes[p]) <= MaxInbox

SocketShape ==
    /\ link \in [Pages -> Links] /\ inRoom \in [Pages -> BOOLEAN]
    /\ isSyncer \in [Pages -> BOOLEAN] /\ sent \in [Pages -> Kept] /\ BoxesOk(inbox)

CollabShape == ServiceShape /\ TabShape /\ SocketShape

\* An event that gives the page its role or takes it away.
IsRole(e) == e.kind \in {"joined", "designate"}

\* What the page believes, or will when it has handled what is on its way.
Believes(box, role, truth) ==
    /\ \A i \in DOMAIN box :
          IsRole(box[i]) /\ (\A j \in DOMAIN box : i < j => ~IsRole(box[j])) => box[i].value = truth
    /\ (\A i \in DOMAIN box : ~IsRole(box[i])) => role = truth

Beliefs(boxes, roles) == \A p \in members : Believes(boxes[p], roles[p], syncer = user[p])

\* A member has its socket up, and the syncer is the user of a member.
RoomOk ==
    /\ \A p \in members : link[p] = "up"
    /\ IF members = {} THEN syncer = None ELSE \E p \in members : syncer = user[p]

SyncerInv == CollabShape /\ RoomOk /\ Beliefs(inbox, isSyncer)

-----------------------------------------------------------------------------
(***************************************************************************)
(* What a page is about to believe, as its box grows and shrinks.          *)
(***************************************************************************)
\* A box with one more event.
LEMMA EventAppended ==
    ASSUME NEW box \in Seq(Events), NEW e \in Events
    PROVE  /\ Append(box, e) \in Seq(Events) /\ Len(Append(box, e)) = Len(box) + 1
           /\ box \o <<e>> = Append(box, e)
           /\ Len(box) \in Nat /\ DOMAIN box = 1 .. Len(box)
           /\ DOMAIN Append(box, e) = 1 .. Len(box) + 1
           /\ \A i \in DOMAIN box : Append(box, e)[i] = box[i]
           /\ Append(box, e)[Len(box) + 1] = e
<1>1. Len(box) \in Nat /\ DOMAIN box = 1 .. Len(box) BY LenProperties
<1>2. Append(box, e) \in Seq(Events) /\ Len(Append(box, e)) = Len(box) + 1 BY AppendProperties
<1>3. DOMAIN Append(box, e) = 1 .. Len(box) + 1 BY <1>2, LenProperties
<1>4. \A i \in 1 .. Len(box) : Append(box, e)[i] = box[i] BY AppendProperties
<1>5. Append(box, e)[Len(box) + 1] = e BY AppendProperties
<1>6. box \o <<e>> = Append(box, e) BY AppendIsConcat
<1> QED BY <1>1, <1>2, <1>3, <1>4, <1>5, <1>6

\* An event that says nothing of the role leaves the belief as it was.
LEMMA BelievesMore ==
    ASSUME NEW box \in Seq(Events), NEW e \in Events, NEW role, NEW truth,
           Believes(box, role, truth), ~IsRole(e)
    PROVE  Believes(Append(box, e), role, truth)
<1> DEFINE b == Append(box, e)
           n == Len(box)
<1>1. /\ n \in Nat /\ DOMAIN box = 1 .. n /\ DOMAIN b = 1 .. n + 1 /\ b[n + 1] = e
      /\ \A i \in DOMAIN box : b[i] = box[i]
  BY EventAppended
<1> HIDE DEF b, n
<1>2. DOMAIN box \subseteq DOMAIN b BY <1>1
<1>3. ASSUME NEW i \in DOMAIN b, IsRole(b[i]), \A j \in DOMAIN b : i < j => ~IsRole(b[j])
      PROVE  b[i].value = truth
  <2>1. i # n + 1 BY <1>1, <1>3
  <2>2. i \in DOMAIN box BY <1>1, <2>1
  <2>3. \A j \in DOMAIN box : i < j => ~IsRole(box[j]) BY <1>1, <1>2, <1>3
  <2> QED BY <1>1, <1>3, <2>2, <2>3 DEF Believes
<1>4. ASSUME \A i \in DOMAIN b : ~IsRole(b[i]) PROVE role = truth
  <2>1. \A i \in DOMAIN box : ~IsRole(box[i]) BY <1>1, <1>2, <1>4
  <2> QED BY <2>1 DEF Believes
<1>5. Believes(b, role, truth) BY <1>3, <1>4 DEF Believes
<1> QED BY <1>5 DEF b

\* An event that gives the role or takes it is the last word.
LEMMA BelievesAnew ==
    ASSUME NEW box \in Seq(Events), NEW e \in Events, NEW role, NEW truth, IsRole(e), e.value = truth
    PROVE  Believes(Append(box, e), role, truth)
<1> DEFINE b == Append(box, e)
           n == Len(box)
<1>1. n \in Nat /\ DOMAIN b = 1 .. n + 1 /\ b[n + 1] = e BY EventAppended
<1> HIDE DEF b, n
<1>2. n + 1 \in DOMAIN b BY <1>1
<1>3. ASSUME NEW i \in DOMAIN b, \A j \in DOMAIN b : i < j => ~IsRole(b[j])
      PROVE  b[i].value = truth
  <2>1. ~(i < n + 1) BY <1>1, <1>2, <1>3
  <2>2. i = n + 1 BY <1>1, <2>1
  <2> QED BY <1>1, <2>2
<1>4. Believes(b, role, truth) BY <1>1, <1>2, <1>3 DEF Believes
<1> QED BY <1>4 DEF b

\* The page handles an event: the role it takes on is what it was told last.
LEMMA BelievesLess ==
    ASSUME NEW box \in Seq(Events), box # <<>>, NEW role, NEW truth, Believes(box, role, truth)
    PROVE  Believes(Tail(box), IF IsRole(Head(box)) THEN Head(box).value ELSE role, truth)
<1> DEFINE b == Tail(box)
           n == Len(box)
           heard == IF IsRole(Head(box)) THEN Head(box).value ELSE role
<1>1. n \in Nat \ {0} /\ DOMAIN box = 1 .. n BY EmptySeq, LenProperties
<1>2. b \in Seq(Events) /\ Len(b) = n - 1 /\ \A i \in 1 .. Len(b) : b[i] = box[i + 1]
  BY HeadTailProperties
<1>3. DOMAIN b = 1 .. n - 1 BY <1>2, LenProperties
<1>4. Head(box) = box[1] OBVIOUS
<1> HIDE DEF b, n
<1>5. \A i \in DOMAIN b : i + 1 \in DOMAIN box /\ b[i] = box[i + 1] BY <1>1, <1>2, <1>3
<1>6. \A k \in DOMAIN box : k = 1 \/ (k - 1 \in DOMAIN b /\ b[k - 1] = box[k]) BY <1>1, <1>2, <1>3
<1>7. ASSUME NEW i \in DOMAIN b, IsRole(b[i]), \A j \in DOMAIN b : i < j => ~IsRole(b[j])
      PROVE  b[i].value = truth
  <2>1. ASSUME NEW k \in DOMAIN box, i + 1 < k PROVE ~IsRole(box[k])
    <3>1. k # 1 /\ i < k - 1 BY <1>1, <1>3, <2>1
    <3> QED BY <1>6, <1>7, <3>1
  <2> QED BY <1>5, <1>7, <2>1 DEF Believes
<1>8. ASSUME \A i \in DOMAIN b : ~IsRole(b[i]) PROVE heard = truth
  <2>1. \A k \in DOMAIN box : 1 < k => ~IsRole(box[k]) BY <1>6, <1>8
  <2>2. 1 \in DOMAIN box BY <1>1
  <2>3. CASE IsRole(box[1]) BY <1>4, <2>1, <2>2, <2>3 DEF Believes
  <2>4. CASE ~IsRole(box[1])
    <3>1. \A k \in DOMAIN box : ~IsRole(box[k]) BY <1>6, <1>8, <2>4
    <3> QED BY <1>4, <2>4, <3>1 DEF Believes
  <2> QED BY <2>3, <2>4
<1>9. Believes(b, heard, truth)
  <2> HIDE DEF heard
  <2> QED BY <1>7, <1>8 DEF Believes
<1> QED BY <1>9 DEF b

-----------------------------------------------------------------------------
(***************************************************************************)
(* The steps of the pages and of their sockets.                            *)
(***************************************************************************)
\* Every box named gets the event, behind what is in it.
LEMMA PushAt ==
    ASSUME NEW boxes \in [Pages -> Seq(Events)], NEW e \in Events, NEW to
    PROVE  /\ Push(boxes, <<e>>, to) \in [Pages -> Seq(Events)]
           /\ \A p \in Pages :
                 Push(boxes, <<e>>, to)[p] = IF p \in to THEN Append(boxes[p], e) ELSE boxes[p]
<1>1. \A p \in Pages : boxes[p] \o <<e>> = Append(boxes[p], e) /\ Append(boxes[p], e) \in Seq(Events)
  BY EventAppended
<1> QED BY <1>1 DEF Push

\* The relay emits only to boxes that have room.
LEMMA PushFits ==
    ASSUME BoxesOk(inbox), NEW boxes, BoxesOk(boxes), NEW e \in Events, NEW to \in SUBSET Pages,
           Roomy(to, 1), \A p \in to : boxes[p] = inbox[p], MaxInbox \in Nat
    PROVE  BoxesOk(Push(boxes, <<e>>, to))
<1>1. boxes \in [Pages -> Seq(Events)] BY DEF BoxesOk
<1>2. ASSUME NEW p \in Pages PROVE Len(Push(boxes, <<e>>, to)[p]) <= MaxInbox
  <2>1. CASE p \in to
    <3>1. Push(boxes, <<e>>, to)[p] = Append(boxes[p], e) BY <1>1, <2>1, PushAt
    <3>5. Push(boxes, <<e>>, to)[p] = Append(inbox[p], e) BY <2>1, <3>1
    <3>2. inbox[p] \in Seq(Events) BY DEF BoxesOk
    <3>3. Len(Append(inbox[p], e)) = Len(inbox[p]) + 1 BY <3>2, EventAppended
    <3>4. Len(inbox[p]) + 1 <= MaxInbox BY <2>1 DEF Roomy
    <3> QED BY <3>5, <3>3, <3>4
  <2>2. CASE p \notin to
    <3>1. Push(boxes, <<e>>, to)[p] = boxes[p] BY <1>1, <2>2, PushAt
    <3> QED BY <3>1 DEF BoxesOk
  <2> QED BY <2>1, <2>2
<1> QED BY <1>1, <1>2, PushAt DEF BoxesOk

\* A broadcast changes nobody's role.
LEMMA PushKeepsBeliefs ==
    ASSUME NEW boxes \in [Pages -> Seq(Events)], NEW e \in Events, ~IsRole(e), NEW to, NEW roles,
           members \subseteq Pages, Beliefs(boxes, roles)
    PROVE  Beliefs(Push(boxes, <<e>>, to), roles)
<1> SUFFICES ASSUME NEW p \in members
             PROVE  Believes(Push(boxes, <<e>>, to)[p], roles[p], syncer = user[p])
  BY DEF Beliefs
<1>1. Believes(boxes[p], roles[p], syncer = user[p]) BY DEF Beliefs
<1>2. boxes[p] \in Seq(Events) /\ p \in Pages OBVIOUS
<1>3. Believes(Append(boxes[p], e), roles[p], syncer = user[p]) BY <1>1, <1>2, BelievesMore
<1>4. Push(boxes, <<e>>, to)[p] = IF p \in to THEN Append(boxes[p], e) ELSE boxes[p] BY <1>2, PushAt
<1>5. Push(boxes, <<e>>, to)[p] \in {Append(boxes[p], e), boxes[p]} BY <1>4
<1> QED BY <1>1, <1>3, <1>5

\* A scene broadcast to the others of the room.
LEMMA BroadcastOk ==
    ASSUME SyncerInv, NEW p \in Pages, NEW payload \in AllScenes, NEW boxes, BoxesOk(boxes),
           \A q \in Pages \ {p} : boxes[q] = inbox[q], NEW roles, Beliefs(boxes, roles),
           Broadcast(p, payload, boxes)
    PROVE  BoxesOk(inbox') /\ Beliefs(inbox', roles)
<1> DEFINE e == Event("scene", payload)
           to == Peers(p)
<1>1. e \in Events /\ ~IsRole(e) BY DEF Event, Events, IsRole
<1>2. to \in SUBSET Pages /\ p \notin to BY DEF Peers, SyncerInv, CollabShape, ServiceShape
<1>3. Roomy(to, 1) /\ inbox' = Push(boxes, <<e>>, to) BY DEF Broadcast
<1>4. BoxesOk(inbox) /\ members \subseteq Pages BY DEF SyncerInv, CollabShape, ServiceShape, SocketShape
<1>5. boxes \in [Pages -> Seq(Events)] /\ MaxInbox \in Nat BY CollabAssumption DEF BoxesOk
<1> HIDE DEF e, to
<1>6. \A q \in to : boxes[q] = inbox[q] BY <1>2
<1> QED BY <1>1, <1>2, <1>3, <1>4, <1>5, <1>6, PushFits, PushKeepsBeliefs

\* getIncrementalSceneElements makes a scene.
LEMMA PayloadIsScene ==
    ASSUME SyncerInv, NEW p \in Pages
    PROVE  Payload(p) \in AllScenes
<1>1. shown[p] \in AllScenes /\ sent[p] \in Kept
  BY DEF SyncerInv, CollabShape, TabShape, SocketShape
<1>2. CASE sent[p] = NoScene BY <1>1, <1>2 DEF Payload
<1>3. CASE sent[p] # NoScene
  <2>1. Incremental(shown[p], sent[p]) \in AllScenes
    BY <1>1, SceneOf DEF Incremental, AllScenes, Absent, Stamps
  <2> QED BY <1>3, <2>1 DEF Payload
<1> QED BY <1>2, <1>3

\* doSyncViaWebSocket, called or flushed.
LEMMA SendingOk ==
    ASSUME SyncerInv, NEW p \in Pages, SendChanges(p) \/ Flush(p)
    PROVE  BoxesOk(inbox') /\ Beliefs(inbox', isSyncer) /\ sent' \in [Pages -> Kept]
<1>1. /\ BoxesOk(inbox) /\ Beliefs(inbox, isSyncer) /\ sent \in [Pages -> Kept]
      /\ shown[p] \in AllScenes
  BY DEF SyncerInv, CollabShape, SocketShape, TabShape
<1>2. CASE UNCHANGED <<inbox, sent>> BY <1>1, <1>2
<1>3. CASE Broadcast(p, Payload(p), inbox) /\ sent' = [sent EXCEPT ![p] = shown[p]]
  <2>1. sent' \in [Pages -> Kept] BY <1>1, <1>3 DEF Kept
  <2> QED BY <1>1, <1>3, <2>1, PayloadIsScene, BroadcastOk
<1> QED BY <1>2, <1>3 DEF SendChanges, Flush

\* A step that leaves the room as it was.
LEMMA RoomAsItWas ==
    ASSUME SyncerInv, UNCHANGED <<members, syncer, user, link, isSyncer>>, Beliefs(inbox', isSyncer)
    PROVE  RoomOk' /\ Beliefs(inbox, isSyncer)'
BY DEF SyncerInv, RoomOk, Beliefs

\* The saves a worker has not finished, with one more, and without the first.
LEMMA OneMoreSave ==
    ASSUME NEW q \in Seq(AllScenes), NEW s \in AllScenes
    PROVE  /\ Append(q, s) \in Seq(AllScenes) /\ Append(q, s) # <<>> /\ Last(Append(q, s)) = s
           /\ Len(Append(q, s)) = Len(q) + 1
<1>1. /\ Append(q, s) \in Seq(AllScenes) /\ Append(q, s) # <<>> /\ Len(Append(q, s)) = Len(q) + 1
      /\ Append(q, s)[Len(q) + 1] = s
  BY AppendProperties
<1> QED BY <1>1 DEF Last

LEMMA OneSaveLess ==
    ASSUME NEW q \in Seq(AllScenes), q # <<>>
    PROVE  /\ Head(q) \in AllScenes /\ Tail(q) \in Seq(AllScenes) /\ Len(Tail(q)) <= Len(q)
           /\ IF Tail(q) = <<>> THEN Head(q) = Last(q) ELSE Last(Tail(q)) = Last(q)
<1>1. /\ Head(q) \in AllScenes /\ Tail(q) \in Seq(AllScenes) /\ Len(Tail(q)) = Len(q) - 1
      /\ \A i \in 1 .. Len(Tail(q)) : Tail(q)[i] = q[i + 1]
  BY HeadTailProperties
<1>2. Len(q) \in Nat \ {0} BY EmptySeq
<1>3. CASE Tail(q) = <<>>
  <2>1. Len(Tail(q)) = 0 BY <1>3, EmptySeq
  <2>2. Len(Tail(q)) = Len(q) - 1 BY <1>1
  <2>3. Len(q) - 1 = 0 BY <2>1, <2>2, Zenon
  <2>4. Len(q) = 1 BY <1>2, <2>3
  <2>5. Head(q) = q[1] OBVIOUS
  <2> QED BY <1>3, <2>4, <2>5 DEF Last
<1>4. CASE Tail(q) # <<>>
  <2>1. Len(Tail(q)) \in Nat \ {0} BY <1>1, <1>4, EmptySeq
  <2>2. Tail(q)[Len(Tail(q))] = q[Len(q)] BY <1>1, <1>2, <2>1
  <2> QED BY <1>4, <2>2, <1>1, <1>2 DEF Last
<1> QED BY <1>1, <1>2, <1>3, <1>4

\* What the invariant says of the variables of one page.
LEMMA AtPage ==
    ASSUME SyncerInv, NEW p \in Pages
    PROVE  /\ shown[p] \in AllScenes /\ held[p] \in Kept /\ sent[p] \in Kept
           /\ putting[p] \in Seq(AllScenes) /\ Len(putting[p]) <= MaxSaves
           /\ due[p] \in SUBSET Throttles /\ inbox[p] \in Seq(Events) /\ isSyncer[p] \in BOOLEAN
           /\ board \in AllScenes /\ draws \in Nat /\ user[p] \in Users
BY DEF SyncerInv, CollabShape, ServiceShape, TabShape, SocketShape, BoxesOk

\* A page posts a save to a worker with room for it.
LEMMA PostsOk ==
    ASSUME SyncerInv, NEW p \in Pages, Len(putting[p]) < MaxSaves
    PROVE  /\ Posts(p) \in [Pages -> Seq(AllScenes)]
           /\ \A r \in Pages : Len(Posts(p)[r]) <= MaxSaves
           /\ Posts(p)[p] # <<>> /\ Last(Posts(p)[p]) = shown[p]
<1>1. putting \in [Pages -> Seq(AllScenes)] /\ \A r \in Pages : Len(putting[r]) <= MaxSaves
  BY DEF SyncerInv, CollabShape, TabShape
<1>2. shown[p] \in AllScenes /\ putting[p] \in Seq(AllScenes) BY AtPage
<1>3. /\ Append(putting[p], shown[p]) \in Seq(AllScenes) /\ Append(putting[p], shown[p]) # <<>>
      /\ Last(Append(putting[p], shown[p])) = shown[p]
      /\ Len(Append(putting[p], shown[p])) = Len(putting[p]) + 1
  BY <1>2, OneMoreSave
<1>4. Len(putting[p]) \in Nat /\ MaxSaves \in Nat BY <1>2, LenProperties, CollabAssumption
<1>5. Posts(p)[p] = Append(putting[p], shown[p]) BY <1>1 DEF Posts
<1>6. \A r \in Pages \ {p} : Posts(p)[r] = putting[r] BY <1>1 DEF Posts
<1>7. Len(Posts(p)[p]) <= MaxSaves BY <1>3, <1>4, <1>5
<1>8. Posts(p) \in [Pages -> Seq(AllScenes)] BY <1>1, <1>3 DEF Posts
<1> QED BY <1>1, <1>3, <1>5, <1>6, <1>7, <1>8

\* A page opens, mounts its editor, or changes its scene, or a PUT of it is
\* made or answered: nothing goes over its socket.
LEMMA QuietSteps ==
    ASSUME SyncerInv, NEW p \in Pages,
           Enter(p) \/ Mount(p) \/ Draw(p) \/ SyncToServer(p) \/ Answer(p)
    PROVE  SyncerInv'
<1>1. UNCHANGED <<members, syncer, user, link, inRoom, isSyncer, sent, inbox, late>>
  BY DEF Enter, Mount, Draw, SyncToServer, Answer, serviceVars, socketVars
<1>2. Beliefs(inbox', isSyncer) BY <1>1 DEF SyncerInv
<1>3. SocketShape' BY <1>1 DEF SyncerInv, CollabShape, SocketShape, BoxesOk
<1>4. CASE Enter(p)
  <2>1. TabShape' BY <1>4, AtPage DEF Enter, SyncerInv, CollabShape, TabShape, Stages
  <2>2. ServiceShape' BY <1>4 DEF Enter, SyncerInv, CollabShape, ServiceShape, serviceVars
  <2> QED BY <2>1, <2>2, <1>1, <1>2, <1>3, RoomAsItWas DEF SyncerInv, CollabShape
<1>5. CASE Mount(p)
  <2>1. held[p] # NoScene => Merge(shown[p], held[p]) \in AllScenes BY AtPage, MergeIsScene DEF Kept
  <2>2. shown' \in [Pages -> AllScenes]
    BY <1>5, <2>1, AtPage DEF Mount, SyncerInv, CollabShape, TabShape
  <2>3. TabShape'
    BY <1>5, <2>2 DEF Mount, Drained, OnChange, Throttles, SyncerInv, CollabShape, TabShape, Stages, Kept
  <2>4. ServiceShape' BY <1>5 DEF Mount, SyncerInv, CollabShape, ServiceShape, serviceVars
  <2> QED BY <2>3, <2>4, <1>1, <1>2, <1>3, RoomAsItWas DEF SyncerInv, CollabShape
<1>6. CASE Draw(p)
  <2>1. \A e \in Elements : Edited(shown[p], e, draws) \in AllScenes
    <3> TAKE e \in Elements
    <3>1. shown[p][e] \in Stamps /\ draws \in Nat /\ shown[p] \in AllScenes BY AtPage, SceneOf
    <3> QED BY <3>1 DEF Edited, AllScenes, Stamps
  <2>2. shown' \in [Pages -> AllScenes] BY <1>6, <2>1 DEF Draw, SyncerInv, CollabShape, TabShape
  <2>3. TabShape'
    BY <1>6, <2>2 DEF Draw, OnChange, Throttles, SyncerInv, CollabShape, TabShape
  <2>4. ServiceShape' BY <1>6 DEF Draw, SyncerInv, CollabShape, ServiceShape, serviceVars, traceVars
  <2> QED BY <2>3, <2>4, <1>1, <1>2, <1>3, RoomAsItWas DEF SyncerInv, CollabShape
<1>7. CASE SyncToServer(p)
  <2>1. TabShape'
    <3>1. /\ due' = [due EXCEPT ![p] = @ \ {"server"}] /\ UNCHANGED <<stage, user, shown, held>>
          /\ UNCHANGED putting \/ (Len(putting[p]) < MaxSaves /\ putting' = Posts(p))
      BY <1>7 DEF SyncToServer
    <3>2. /\ putting' \in [Pages -> Seq(AllScenes)]
          /\ \A r \in Pages : Len(putting'[r]) <= MaxSaves
      BY <3>1, PostsOk DEF SyncerInv, CollabShape, TabShape
    <3>3. due' \in [Pages -> SUBSET Throttles] BY <3>1, AtPage DEF SyncerInv, CollabShape, TabShape
    <3> QED BY <3>1, <3>2, <3>3 DEF SyncerInv, CollabShape, TabShape
  <2>2. ServiceShape' BY <1>7 DEF SyncToServer, SyncerInv, CollabShape, ServiceShape, serviceVars
  <2> QED BY <2>1, <2>2, <1>1, <1>2, <1>3, RoomAsItWas DEF SyncerInv, CollabShape
<1>8. CASE Answer(p)
  <2>1. putting[p] # <<>> /\ putting' = [putting EXCEPT ![p] = Tail(putting[p])]
    BY <1>8 DEF Answer, SyncerInv, CollabShape, TabShape
  <2>2. /\ Head(putting[p]) \in AllScenes /\ Tail(putting[p]) \in Seq(AllScenes)
        /\ Len(Tail(putting[p])) <= MaxSaves
    <3>1. putting[p] \in Seq(AllScenes) /\ Len(putting[p]) <= MaxSaves BY AtPage
    <3>2. Len(putting[p]) \in Nat /\ Len(Tail(putting[p])) = Len(putting[p]) - 1
      BY <2>1, <3>1, HeadTailProperties, LenProperties
    <3> QED BY <2>1, <3>1, <3>2, OneSaveLess, CollabAssumption
  <2>4. TabShape'
    <3>1. /\ putting' \in [Pages -> Seq(AllScenes)]
          /\ \A r \in Pages : Len(putting'[r]) <= MaxSaves
      BY <2>1, <2>2 DEF SyncerInv, CollabShape, TabShape
    <3>2. UNCHANGED <<stage, user, shown, held, due>> BY <1>8 DEF Answer
    <3> QED BY <3>1, <3>2 DEF SyncerInv, CollabShape, TabShape
  <2>3. ServiceShape' BY <1>8, <2>2 DEF Answer, SyncerInv, CollabShape, ServiceShape
  <2> QED BY <2>3, <2>4, <1>1, <1>2, <1>3, RoomAsItWas DEF SyncerInv, CollabShape
<1> QED BY <1>4, <1>5, <1>6, <1>7, <1>8

\* A PUT whose page is gone.
LEMMA AnswerLateInv == ASSUME SyncerInv, AnswerLate PROVE SyncerInv'
<1>1. UNCHANGED <<members, syncer, user, link, inRoom, isSyncer, sent, inbox, stage, shown, held, due, putting, draws>>
  BY DEF AnswerLate, tabVars, socketVars
<1>2. ServiceShape' BY <1>1 DEF AnswerLate, SyncerInv, CollabShape, ServiceShape
<1>3. TabShape' /\ SocketShape' BY <1>1 DEF SyncerInv, CollabShape, TabShape, SocketShape, BoxesOk
<1>4. Beliefs(inbox', isSyncer) BY <1>1 DEF SyncerInv
<1> QED BY <1>1, <1>2, <1>3, <1>4, RoomAsItWas DEF SyncerInv, CollabShape

\* The page broadcasts its scene, or flushes it before it is hidden or leaves.
LEMMA SendingSteps ==
    ASSUME SyncerInv, NEW p \in Pages, SyncViaSocket(p) \/ Heal(p) \/ Hide(p) \/ Leave(p)
    PROVE  SyncerInv'
<1>1. UNCHANGED <<members, syncer, user, link, inRoom, isSyncer, late, shown, held, draws>>
  BY DEF SyncViaSocket, Heal, Hide, Leave, serviceVars
<1>2. BoxesOk(inbox') /\ Beliefs(inbox', isSyncer) /\ sent' \in [Pages -> Kept]
  <2>1. CASE Heal(p)
    <3>1. /\ BoxesOk(inbox) /\ Beliefs(inbox, isSyncer) /\ sent \in [Pages -> Kept]
          /\ shown[p] \in AllScenes
      BY DEF SyncerInv, CollabShape, SocketShape, TabShape
    <3>2. CASE UNCHANGED <<inbox, sent>> BY <3>1, <3>2
    <3>3. CASE Broadcast(p, shown[p], inbox) /\ sent' = [sent EXCEPT ![p] = shown[p]]
      <4>1. sent' \in [Pages -> Kept] BY <3>1, <3>3 DEF Kept
      <4> QED BY <3>1, <3>3, <4>1, BroadcastOk
    <3> QED BY <2>1, <3>2, <3>3 DEF Heal
  <2>2. CASE SyncViaSocket(p) \/ Hide(p) \/ Leave(p)
    <3>1. SendChanges(p) \/ Flush(p) BY <2>2 DEF SyncViaSocket, Hide, Leave
    <3> QED BY <3>1, SendingOk
  <2> QED BY <2>1, <2>2
<1>3. SocketShape' BY <1>1, <1>2 DEF SyncerInv, CollabShape, SocketShape, BoxesOk
<1>4. ServiceShape'
  BY <1>1, AtPage DEF SyncViaSocket, Heal, Hide, Leave, SyncerInv, CollabShape, ServiceShape,
                      serviceVars, traceVars
<1>5. putting' \in [Pages -> Seq(AllScenes)] /\ \A r \in Pages : Len(putting'[r]) <= MaxSaves
  <2>1. UNCHANGED putting \/ (Len(putting[p]) < MaxSaves /\ putting' = Posts(p))
    BY DEF SyncViaSocket, Heal, Hide, Leave
  <2> QED BY <2>1, PostsOk DEF SyncerInv, CollabShape, TabShape
<1>6. due' \in [Pages -> SUBSET Throttles]
  BY AtPage DEF SyncViaSocket, Heal, Hide, Leave, SyncerInv, CollabShape, TabShape
<1>7. stage' \in [Pages -> Stages] /\ \A q \in Pages : stage'[q] = "open" => stage[q] = "open"
  BY DEF SyncViaSocket, Heal, Hide, Leave, SyncerInv, CollabShape, TabShape, Stages
<1>8. TabShape' BY <1>1, <1>5, <1>6, <1>7 DEF SyncerInv, CollabShape, TabShape
<1> QED BY <1>1, <1>2, <1>3, <1>4, <1>8, RoomAsItWas DEF SyncerInv, CollabShape

\* The socket of a page that is in no room comes up, or is noticed to be gone.
LEMMA LineSteps ==
    ASSUME SyncerInv, NEW p \in Pages, Connect(p) \/ Notice(p)
    PROVE  SyncerInv'
<1>1. p \notin members
  BY DEF Connect, Notice, SyncerInv, RoomOk
<1>2. UNCHANGED <<members, syncer, user, isSyncer>> /\ ServiceShape' /\ TabShape'
  BY DEF Connect, Notice, serviceVars, tabVars, SyncerInv, CollabShape, ServiceShape, TabShape
<1>3. <<>> \in Seq(Events) /\ Len(<<>>) = 0 /\ MaxInbox \in Nat BY EmptySeq, CollabAssumption
<1>4. SocketShape'
  <2>1. link' \in [Pages -> Links] BY DEF Connect, Notice, SyncerInv, CollabShape, SocketShape, Links
  <2>2. inRoom' \in [Pages -> BOOLEAN] /\ sent' \in [Pages -> Kept]
    BY DEF Connect, Notice, SyncerInv, CollabShape, SocketShape, Kept
  <2>3. BoxesOk(inbox')
    <3>1. BoxesOk(inbox) BY DEF SyncerInv, CollabShape, SocketShape
    <3>2. inbox' = inbox \/ inbox' = [inbox EXCEPT ![p] = <<>>] BY DEF Connect, Notice
    <3>3. CASE inbox' = [inbox EXCEPT ![p] = <<>>]
      <4>1. inbox' \in [Pages -> Seq(Events)] BY <1>3, <3>1, <3>3 DEF BoxesOk
      <4>2. \A q \in Pages : inbox'[q] = IF q = p THEN <<>> ELSE inbox[q] BY <3>1, <3>3 DEF BoxesOk
      <4>3. \A q \in Pages : Len(inbox'[q]) <= MaxInbox BY <1>3, <3>1, <4>2 DEF BoxesOk
      <4> QED BY <4>1, <4>3 DEF BoxesOk
    <3> QED BY <3>1, <3>2, <3>3
  <2> QED BY <1>2, <2>1, <2>2, <2>3 DEF SyncerInv, CollabShape, SocketShape, BoxesOk
<1>5. \A q \in members : q \in Pages /\ q # p BY <1>1 DEF SyncerInv, CollabShape, ServiceShape
<1>6. \A q \in members : link'[q] = link[q] /\ inbox'[q] = inbox[q]
  BY <1>5 DEF Connect, Notice, SyncerInv, CollabShape, SocketShape, BoxesOk
<1>7. RoomOk' BY <1>2, <1>6 DEF SyncerInv, RoomOk
<1>8. Beliefs(inbox, isSyncer)' BY <1>2, <1>6 DEF SyncerInv, Beliefs
<1> QED BY <1>2, <1>4, <1>7, <1>8 DEF SyncerInv, CollabShape

\* onDisconnecting: the syncer's last socket leaves the role to a user of the
\* rest, whose pages are told; to the others nothing changes.
LEMMA LeavingRoom ==
    ASSUME SyncerInv, NEW p \in Pages, NEW boxes, BoxesOk(boxes),
           \A q \in Pages \ {p} : boxes[q] = inbox[q], LeaveRoom(p, boxes)
    PROVE  /\ members' = members \ {p} /\ syncer' \in Users \cup {None} /\ BoxesOk(inbox')
           /\ IF members' = {} THEN syncer' = None ELSE \E q \in members' : syncer' = user[q]
           /\ \A q \in members' : Believes(inbox'[q], isSyncer[q], syncer' = user[q])
<1> DEFINE rest == members \ {p}
<1>1. members' = rest BY DEF LeaveRoom
<1>2. /\ members \subseteq Pages /\ syncer \in Users \cup {None} /\ boxes \in [Pages -> Seq(Events)]
      /\ rest \in SUBSET Pages
  BY DEF SyncerInv, CollabShape, ServiceShape, BoxesOk
<1>3. \A q \in rest : boxes[q] = inbox[q] BY <1>2
<1>4. \A q \in rest : Believes(boxes[q], isSyncer[q], syncer = user[q])
  BY <1>3 DEF SyncerInv, Beliefs
<1>5. CASE /\ p \notin members \/ syncer # user[p] \/ \E q \in rest : user[q] = user[p]
           /\ syncer' = syncer /\ inbox' = boxes
  <2>1. IF rest = {} THEN syncer = None ELSE \E q \in rest : syncer = user[q]
    BY <1>5 DEF SyncerInv, RoomOk
  <2> QED BY <1>1, <1>2, <1>4, <1>5, <2>1
<1>6. CASE rest = {} /\ syncer' = None /\ inbox' = boxes BY <1>1, <1>6
<1>7. ASSUME NEW u \in {user[q] : q \in rest}, Roomy(Promoted(u, rest), 1), syncer' = u,
             inbox' = Push(boxes, <<Event("designate", TRUE)>>, Promoted(u, rest)),
             syncer = user[p], \A q \in rest : user[q] # user[p]
      PROVE  /\ syncer' \in Users \cup {None} /\ BoxesOk(inbox')
             /\ \E q \in rest : syncer' = user[q]
             /\ \A q \in rest : Believes(inbox'[q], isSyncer[q], syncer' = user[q])
  <2> DEFINE e == Event("designate", TRUE)
             to == Promoted(u, rest)
  <2>1. e \in Events /\ IsRole(e) /\ e.value = TRUE BY DEF Event, Events, IsRole
  <2>2. to \in SUBSET Pages /\ to \subseteq rest BY <1>2 DEF Promoted
  <2>3. BoxesOk(inbox) /\ MaxInbox \in Nat
    BY CollabAssumption DEF SyncerInv, CollabShape, SocketShape
  <2>4. inbox' = Push(boxes, <<e>>, to) /\ Roomy(to, 1) BY <1>7
  <2>5. \A q \in rest : q \in to <=> user[q] = u BY DEF Promoted
  <2> HIDE DEF e, to
  <2>6. BoxesOk(inbox') BY <1>3, <2>1, <2>2, <2>3, <2>4, PushFits
  <2>7. ASSUME NEW q \in rest PROVE Believes(inbox'[q], isSyncer[q], syncer' = user[q])
    <3>1. q \in Pages /\ boxes[q] \in Seq(Events) BY <1>2
    <3>2. Push(boxes, <<e>>, to)[q] = IF q \in to THEN Append(boxes[q], e) ELSE boxes[q]
      BY <1>2, <2>1, <3>1, PushAt
    <3>3. CASE q \in to
      <4>1. (syncer' = user[q]) = TRUE BY <1>7, <2>5, <3>3
      <4>2. inbox'[q] = Append(boxes[q], e) BY <2>4, <3>2, <3>3
      <4>3. Believes(Append(boxes[q], e), isSyncer[q], TRUE) BY <2>1, <3>1, BelievesAnew
      <4> QED BY <4>1, <4>2, <4>3
    <3>4. CASE q \notin to
      <4>1. (syncer' = user[q]) = (syncer = user[q]) BY <1>7, <2>5, <3>4
      <4>2. inbox'[q] = boxes[q] BY <2>4, <3>2, <3>4
      <4> QED BY <1>4, <4>1, <4>2
    <3> QED BY <3>3, <3>4
  <2>8. u \in Users BY <1>2, AtPage
  <2> QED BY <1>7, <2>6, <2>7, <2>8
<1>8. CASE \E u \in {user[q] : q \in rest} :
              /\ Roomy(Promoted(u, rest), 1) /\ syncer' = u
              /\ inbox' = Push(boxes, <<Event("designate", TRUE)>>, Promoted(u, rest))
              /\ syncer = user[p] /\ \A q \in rest : user[q] # user[p]
  BY <1>1, <1>7, <1>8
<1> QED BY <1>5, <1>6, <1>8 DEF LeaveRoom

\* The connection breaks; or the document is destroyed, and its socket closes.
LEMMA LeavingSteps ==
    ASSUME SyncerInv, NEW p \in Pages, Break(p) \/ Vanish(p)
    PROVE  SyncerInv'
<1> DEFINE boxes == IF Break(p) THEN inbox ELSE [inbox EXCEPT ![p] = <<>>]
<1>1. <<>> \in Seq(Events) /\ Len(<<>>) = 0 /\ MaxInbox \in Nat BY EmptySeq, CollabAssumption
<1>2. BoxesOk(boxes) /\ \A q \in Pages \ {p} : boxes[q] = inbox[q]
  BY <1>1 DEF SyncerInv, CollabShape, SocketShape, BoxesOk
<1>3. LeaveRoom(p, boxes) /\ UNCHANGED <<user, draws, board>> BY DEF Break, Vanish, tabVars
<1> HIDE DEF boxes
<1>4. /\ members' = members \ {p} /\ syncer' \in Users \cup {None} /\ BoxesOk(inbox')
      /\ IF members' = {} THEN syncer' = None ELSE \E q \in members' : syncer' = user[q]
      /\ \A q \in members' : Believes(inbox'[q], isSyncer[q], syncer' = user[q])
  BY <1>2, <1>3, LeavingRoom
<1>5. members \subseteq Pages BY DEF SyncerInv, CollabShape, ServiceShape
<1>6. \A q \in Pages \ {p} : link'[q] = link[q] /\ isSyncer'[q] = isSyncer[q]
  BY DEF Break, Vanish, SyncerInv, CollabShape, SocketShape
<1>7. SocketShape'
  <2>1. link' \in [Pages -> Links] BY DEF Break, Vanish, SyncerInv, CollabShape, SocketShape, Links
  <2>2. inRoom' \in [Pages -> BOOLEAN] /\ isSyncer' \in [Pages -> BOOLEAN] /\ sent' \in [Pages -> Kept]
    BY DEF Break, Vanish, SyncerInv, CollabShape, SocketShape, Kept
  <2> QED BY <1>4, <2>1, <2>2 DEF SocketShape, BoxesOk
<1>8. TabShape'
  <2>1. CASE Break(p) BY <2>1 DEF Break, tabVars, SyncerInv, CollabShape, TabShape
  <2>2. CASE Vanish(p)
    <3>1. <<>> \in Seq(AllScenes) /\ Len(<<>>) = 0 /\ MaxSaves \in Nat BY EmptySeq, CollabAssumption
    <3>2. /\ putting' \in [Pages -> Seq(AllScenes)]
          /\ \A r \in Pages : Len(putting'[r]) <= MaxSaves
      BY <2>2, <3>1 DEF Vanish, SyncerInv, CollabShape, TabShape
    <3> QED BY <2>2, <3>2, EmptyIsScene DEF Vanish, SyncerInv, CollabShape, TabShape, Stages, Kept
  <2> QED BY <2>1, <2>2
<1>9. ServiceShape'
  <2>1. late' \subseteq AllScenes /\ putter' \in Pages \cup {None} /\ unsent' \subseteq Pages
    <3>1. putting[p] # <<>> => Head(putting[p]) \in AllScenes BY AtPage, OneSaveLess
    <3> QED BY <3>1 DEF Break, Vanish, SyncerInv, CollabShape, ServiceShape, traceVars
  <2> QED BY <1>3, <1>4, <1>5, <2>1 DEF SyncerInv, CollabShape, ServiceShape
<1>10. RoomOk'
  <2>1. \A q \in members' : link'[q] = "up" BY <1>4, <1>5, <1>6 DEF SyncerInv, RoomOk
  <2> QED BY <1>3, <1>4, <2>1 DEF RoomOk
<1>11. Beliefs(inbox, isSyncer)' BY <1>3, <1>4, <1>5, <1>6 DEF Beliefs
<1> QED BY <1>7, <1>8, <1>9, <1>10, <1>11 DEF SyncerInv, CollabShape

\* onJoinRoom: the joiner is told whether it is the syncer, which it becomes
\* only if there was none; the members hear of it and keep what they believe.
LEMMA JoinInv == ASSUME SyncerInv, NEW p \in Pages, Join(p) PROVE SyncerInv'
<1> DEFINE uj == Event("userJoined", p)
           jd == Event("joined", syncer' = user[p])
           first == Push(inbox, <<uj>>, members)
<1>1. /\ link[p] = "up" /\ p \notin members /\ Roomy(members \cup {p}, 1)
      /\ members' = members \cup {p} /\ syncer' = (IF syncer = None THEN user[p] ELSE syncer)
      /\ inbox' = Push(first, <<jd>>, {p})
      /\ UNCHANGED <<board, late, draws, putter, unsent, tabVars, link, inRoom, isSyncer, sent>>
  BY DEF Join, traceVars
<1>2. (syncer' = user[p]) \in BOOLEAN OBVIOUS
<1>3. uj \in Events /\ ~IsRole(uj) BY DEF Event, Events, IsRole
<1>4. jd \in Events /\ IsRole(jd) /\ jd.value = (syncer' = user[p])
  BY <1>2 DEF Event, Events, IsRole
<1>5. /\ members \in SUBSET Pages /\ {p} \in SUBSET Pages /\ BoxesOk(inbox) /\ MaxInbox \in Nat
      /\ inbox \in [Pages -> Seq(Events)] /\ Beliefs(inbox, isSyncer)
  BY CollabAssumption DEF SyncerInv, CollabShape, ServiceShape, SocketShape, BoxesOk
<1> HIDE DEF uj, jd
<1>6. Roomy(members, 1) /\ Roomy({p}, 1) BY <1>1 DEF Roomy
<1>7. BoxesOk(first) BY <1>3, <1>5, <1>6, PushFits
<1>8. first \in [Pages -> Seq(Events)] BY <1>7 DEF BoxesOk
<1>9. Push(inbox, <<uj>>, members)[p] = IF p \in members THEN Append(inbox[p], uj) ELSE inbox[p]
  BY <1>3, <1>5, PushAt
<1>10. first[p] = inbox[p] BY <1>1, <1>9
<1>11. Beliefs(first, isSyncer) BY <1>3, <1>5, PushKeepsBeliefs
<1> HIDE DEF first
<1>12. BoxesOk(inbox') BY <1>1, <1>4, <1>5, <1>6, <1>7, <1>10, PushFits
<1>13. user[p] \in Users /\ syncer \in Users \cup {None} /\ syncer' \in Users
  BY <1>1, AtPage DEF SyncerInv, CollabShape, ServiceShape
<1>14. \A q \in members : syncer' = syncer
  <2> TAKE q \in members
  <2>1. PICK m \in members : syncer = user[m] BY DEF SyncerInv, RoomOk
  <2>2. syncer \in Users BY <2>1, <1>5, AtPage
  <2> QED BY <1>1, <2>2, CollabAssumption
<1>15. ASSUME NEW q \in members'
       PROVE  Believes(inbox'[q], isSyncer[q], syncer' = user[q])
  <2>1. q \in Pages /\ first[q] \in Seq(Events) BY <1>1, <1>5, <1>8
  <2>2. Push(first, <<jd>>, {p})[q] = IF q \in {p} THEN Append(first[q], jd) ELSE first[q]
    BY <1>4, <1>8, <2>1, PushAt
  <2>3. CASE q = p
    <3>1. inbox'[q] = Append(first[q], jd) BY <1>1, <2>2, <2>3
    <3>2. Believes(Append(first[q], jd), isSyncer[q], syncer' = user[p]) BY <1>4, <2>1, BelievesAnew
    <3> QED BY <2>3, <3>1, <3>2
  <2>4. CASE q # p
    <3>1. inbox'[q] = first[q] /\ q \in members BY <1>1, <2>2, <2>4
    <3>2. Believes(first[q], isSyncer[q], syncer = user[q]) BY <1>11, <3>1 DEF Beliefs
    <3>3. syncer' = syncer BY <1>14, <3>1
    <3> QED BY <3>1, <3>2, <3>3
  <2> QED BY <2>3, <2>4
<1>16. RoomOk'
  <2>1. \A q \in members' : link'[q] = "up" BY <1>1 DEF SyncerInv, RoomOk
  <2>2. \E q \in members' : syncer' = user'[q]
    <3>1. CASE members = {} BY <1>1, <3>1 DEF SyncerInv, RoomOk, tabVars
    <3>2. CASE members # {}
      <4>1. PICK m \in members : syncer = user[m] BY <3>2 DEF SyncerInv, RoomOk
      <4>2. syncer' = syncer BY <1>14, <4>1
      <4> QED BY <1>1, <4>1, <4>2 DEF tabVars
    <3> QED BY <3>1, <3>2
  <2> QED BY <2>1, <2>2 DEF RoomOk
<1>17. Beliefs(inbox, isSyncer)' BY <1>1, <1>15 DEF Beliefs, tabVars
<1>18. TabShape' BY <1>1 DEF tabVars, SyncerInv, CollabShape, TabShape
<1>19. SocketShape' BY <1>1, <1>12 DEF SyncerInv, CollabShape, SocketShape, BoxesOk
<1>20. ServiceShape' BY <1>1, <1>5, <1>13 DEF SyncerInv, CollabShape, ServiceShape
<1> QED BY <1>16, <1>17, <1>18, <1>19, <1>20 DEF SyncerInv, CollabShape

\* The page takes the next event out of its box.
LEMMA HandledOk ==
    ASSUME SyncerInv, NEW p \in Pages, inbox[p] # <<>>
    PROVE  /\ BoxesOk(Handled(p)) /\ \A q \in Pages \ {p} : Handled(p)[q] = inbox[q]
           /\ Head(inbox[p]) \in Events
           /\ \A role : role = (IF IsRole(Head(inbox[p])) THEN Head(inbox[p]).value ELSE isSyncer[p])
                        => Beliefs(Handled(p), [isSyncer EXCEPT ![p] = role])
<1> DEFINE boxes == Handled(p)
<1>1. /\ inbox \in [Pages -> Seq(Events)] /\ \A q \in Pages : Len(inbox[q]) <= MaxInbox
      /\ members \subseteq Pages /\ MaxInbox \in Nat /\ isSyncer \in [Pages -> BOOLEAN]
  BY CollabAssumption DEF SyncerInv, CollabShape, ServiceShape, SocketShape, BoxesOk
<1>2. inbox[p] \in Seq(Events) BY <1>1
<1>3. /\ Tail(inbox[p]) \in Seq(Events) /\ Len(Tail(inbox[p])) = Len(inbox[p]) - 1
      /\ Head(inbox[p]) \in Events /\ Len(inbox[p]) \in Nat
  BY <1>2, HeadTailProperties, LenProperties
<1>4. boxes \in [Pages -> Seq(Events)] /\ \A q \in Pages : boxes[q] = IF q = p THEN Tail(inbox[p]) ELSE inbox[q]
  BY <1>1, <1>3 DEF Handled
<1>5. ASSUME NEW q \in Pages PROVE Len(boxes[q]) <= MaxInbox
  <2>1. CASE q = p
    <3>1. boxes[q] = Tail(inbox[p]) BY <1>4, <2>1
    <3>2. Len(inbox[p]) <= MaxInbox BY <1>1
    <3> QED BY <1>1, <1>3, <3>1, <3>2
  <2>2. CASE q # p BY <1>1, <1>4, <2>2
  <2> QED BY <2>1, <2>2
<1>6. BoxesOk(boxes) BY <1>4, <1>5 DEF BoxesOk
<1>7. ASSUME NEW role, role = (IF IsRole(Head(inbox[p])) THEN Head(inbox[p]).value ELSE isSyncer[p])
      PROVE  Beliefs(boxes, [isSyncer EXCEPT ![p] = role])
  <2> SUFFICES ASSUME NEW q \in members
               PROVE  Believes(boxes[q], [isSyncer EXCEPT ![p] = role][q], syncer = user[q])
    BY DEF Beliefs
  <2>1. Believes(inbox[q], isSyncer[q], syncer = user[q]) /\ q \in Pages BY <1>1 DEF SyncerInv, Beliefs
  <2>2. [isSyncer EXCEPT ![p] = role][q] = IF q = p THEN role ELSE isSyncer[q] BY <1>1, <2>1
  <2>3. CASE q = p
    <3>1. Believes(Tail(inbox[p]), role, syncer = user[p]) BY <1>2, <1>7, <2>1, <2>3, BelievesLess
    <3>2. boxes[q] = Tail(inbox[p]) /\ [isSyncer EXCEPT ![p] = role][q] = role BY <1>4, <2>2, <2>3
    <3> QED BY <2>3, <3>1, <3>2
  <2>4. CASE q # p
    <3>1. boxes[q] = inbox[q] /\ [isSyncer EXCEPT ![p] = role][q] = isSyncer[q] BY <1>4, <2>1, <2>2, <2>4
    <3> QED BY <2>1, <3>1
  <2> QED BY <2>3, <2>4
<1>8. \A q \in Pages \ {p} : boxes[q] = inbox[q] BY <1>4
<1> QED BY <1>3, <1>6, <1>7, <1>8

\* The handlers of the relay's events.
LEMMA DeliverInv == ASSUME SyncerInv, NEW p \in Pages, Deliver(p) PROVE SyncerInv'
<1> DEFINE e == Head(inbox[p])
           roles == [isSyncer EXCEPT ![p] = IF IsRole(e) THEN e.value ELSE isSyncer[p]]
<1>1. inbox[p] # <<>> /\ UNCHANGED <<board, members, syncer, late, putter, unsent, draws>>
  BY DEF Deliver, OnUserJoined, OnJoined, OnDesignate, OnScene, NextIs, serviceVars
<1>2. /\ BoxesOk(Handled(p)) /\ \A q \in Pages \ {p} : Handled(p)[q] = inbox[q]
      /\ e \in Events /\ Beliefs(Handled(p), roles)
  BY <1>1, HandledOk
<1>3. shown[p] \in AllScenes /\ isSyncer[p] \in BOOLEAN /\ isSyncer \in [Pages -> BOOLEAN]
  BY AtPage DEF SyncerInv, CollabShape, SocketShape
<1>4. IsRole(e) => e.value \in BOOLEAN BY <1>2 DEF Events, IsRole
<1>5. ~IsRole(e) => roles = isSyncer BY <1>3
<1>6. isSyncer' = roles /\ UNCHANGED <<user, link, sent, stage, putting>>
  <2>1. CASE OnUserJoined(p) \/ OnScene(p)
    <3>1. ~IsRole(e) /\ UNCHANGED isSyncer BY <2>1 DEF OnUserJoined, OnScene, NextIs, IsRole
    <3> QED BY <1>5, <2>1, <3>1 DEF OnUserJoined, OnScene, tabVars
  <2>2. CASE OnJoined(p) \/ OnDesignate(p)
    <3>1. IsRole(e) /\ isSyncer' = [isSyncer EXCEPT ![p] = e.value]
      BY <2>2 DEF OnJoined, OnDesignate, NextIs, IsRole, Role
    <3> QED BY <2>2, <3>1 DEF OnJoined, OnDesignate, tabVars
  <2> QED BY <2>1, <2>2 DEF Deliver
<1> HIDE DEF roles
<1>7. BoxesOk(inbox') /\ Beliefs(inbox', roles)
  <2>1. CASE inbox' = Handled(p) BY <1>2, <2>1
  <2>2. CASE Broadcast(p, shown[p], Handled(p)) BY <1>2, <1>3, <2>2, BroadcastOk
  <2> QED BY <2>1, <2>2 DEF Deliver, OnUserJoined, OnJoined, OnDesignate, OnScene, Rebroadcast
<1>8. ServiceShape' BY <1>1 DEF SyncerInv, CollabShape, ServiceShape
<1>9. isSyncer' \in [Pages -> BOOLEAN] BY <1>3, <1>4, <1>6 DEF roles
<1>10. inRoom' \in [Pages -> BOOLEAN]
  BY DEF Deliver, OnUserJoined, OnJoined, OnDesignate, OnScene, SyncerInv, CollabShape, SocketShape
<1>11. SocketShape' BY <1>6, <1>7, <1>9, <1>10 DEF SyncerInv, CollabShape, SocketShape, BoxesOk
<1>12. TabShape'
  <2>1. CASE OnUserJoined(p) \/ OnDesignate(p)
    BY <2>1 DEF OnUserJoined, OnDesignate, tabVars, SyncerInv, CollabShape, TabShape
  <2>2. CASE OnJoined(p)
    BY <2>2, AtPage DEF OnJoined, SyncerInv, CollabShape, TabShape, Throttles
  <2>3. CASE OnScene(p)
    <3>1. e.value \in AllScenes BY <1>2, <2>3 DEF OnScene, NextIs, Events
    <3>2. Merge(shown[p], e.value) \in AllScenes BY <1>3, <3>1, MergeIsScene
    <3>3. OnRemoteChange(shown[p], Merge(shown[p], e.value)) \in SUBSET Throttles
      BY DEF OnRemoteChange, OnChange, Throttles
    <3>4. CASE stage[p] = "open"
      BY <2>3, <3>2, <3>3, <3>4, AtPage DEF OnScene, SyncerInv, CollabShape, TabShape
    <3>5. CASE stage[p] # "open"
      BY <2>3, <3>1, <3>5 DEF OnScene, SyncerInv, CollabShape, TabShape, Kept
    <3> QED BY <3>4, <3>5
  <2> QED BY <2>1, <2>2, <2>3 DEF Deliver
<1>13. RoomOk' BY <1>1, <1>6 DEF SyncerInv, RoomOk
<1>14. Beliefs(inbox, isSyncer)' BY <1>1, <1>6, <1>7 DEF Beliefs
<1> QED BY <1>8, <1>11, <1>12, <1>13, <1>14 DEF SyncerInv, CollabShape

-----------------------------------------------------------------------------
(***************************************************************************)
(* Every step, and what follows.                                           *)
(***************************************************************************)
\* The room is empty at first, and nobody believes anything.
LEMMA CollabAtFirst == CollabInit => SyncerInv
<1> SUFFICES ASSUME CollabInit PROVE SyncerInv OBVIOUS
<1>1. user \in [Pages -> Users] /\ draws \in Nat BY CollabAssumption DEF CollabInit
<1>2. ServiceShape BY <1>1, EmptyIsScene DEF CollabInit, ServiceShape
<1>3. TabShape
  <2>1. <<>> \in Seq(AllScenes) /\ Len(<<>>) = 0 /\ MaxSaves \in Nat BY EmptySeq, CollabAssumption
  <2> QED BY <1>1, <2>1, EmptyIsScene DEF CollabInit, TabShape, Stages, Kept
<1>4. <<>> \in Seq(Events) /\ Len(<<>>) = 0 /\ MaxInbox \in Nat BY EmptySeq, CollabAssumption
<1>5. BoxesOk(inbox) BY <1>4 DEF CollabInit, BoxesOk
<1>6. SocketShape BY <1>5 DEF CollabInit, SocketShape, Links, Kept
<1> QED BY <1>2, <1>3, <1>6 DEF CollabInit, SyncerInv, CollabShape, RoomOk, Beliefs

\* Every step keeps the invariant.
LEMMA CollabStep == ASSUME SyncerInv, [CollabNext]_collabVars PROVE SyncerInv'
<1>1. CASE UNCHANGED collabVars
  BY <1>1 DEF collabVars, serviceVars, tabVars, socketVars, traceVars, SyncerInv, CollabShape,
              ServiceShape, TabShape, SocketShape, BoxesOk, RoomOk, Beliefs
<1>2. ASSUME NEW p \in Pages, Tab(p) \/ Socket(p) PROVE SyncerInv'
  BY <1>2, QuietSteps, SendingSteps, LeavingSteps, LineSteps, JoinInv, DeliverInv DEF Tab, Socket
<1> QED BY <1>1, <1>2, AnswerLateInv DEF CollabNext

\* The invariant of the pages' roles holds throughout.
LEMMA CollabIsInv == CollabSpec => []SyncerInv
<1> QED BY CollabAtFirst, CollabStep, PTL DEF CollabSpec

\* The service, the pages and their sockets stay in their types, no box takes
\* more than it has room for, and a page with an editor holds nothing back.
THEOREM PagesAreTyped == CollabSpec => []CollabTypes
<1>1. SyncerInv => CollabTypes
  BY DEF SyncerInv, CollabShape, ServiceShape, TabShape, SocketShape, BoxesOk, CollabTypes, Stages, Links,
         Throttles
<1> QED BY <1>1, CollabIsInv, PTL

\* A page of the room that has been told of its role believes what is true:
\* whoever leaves, is elected or comes back, exactly the pages of the relay's
\* syncer save.
THEOREM SaversAreTheSyncers == CollabSpec => []SaverIsSyncer
<1>1. ASSUME SyncerInv PROVE SaverIsSyncer
  <2> SUFFICES ASSUME NEW p \in Pages, InTheRoom(p), ~Coming(p, {"joined", "designate"})
               PROVE  isSyncer[p] <=> syncer = user[p]
    BY DEF SaverIsSyncer
  <2>1. \A i \in DOMAIN inbox[p] : ~IsRole(inbox[p][i]) BY DEF Coming, IsRole
  <2>2. Believes(inbox[p], isSyncer[p], syncer = user[p]) BY <1>1 DEF InTheRoom, SyncerInv, Beliefs
  <2>3. isSyncer[p] = (syncer = user[p]) BY <2>1, <2>2 DEF Believes
  <2> QED BY <2>3
<1> QED BY <1>1, CollabIsInv, PTL

-----------------------------------------------------------------------------
(***************************************************************************)
(* Convergence. A page owes another its scene until the other has merged   *)
(* it; the invariant says what will still bring it: the throttled call     *)
(* that sends the whole scene, the answer to the other's user-joined, or a *)
(* broadcast on its way. It holds for two pages and not for three: a third *)
(* that leaves may owe the answer, and one that broadcasts may push a held *)
(* broadcast out.                                                          *)
(***************************************************************************)
IsScene(e) == e.kind = "scene"

\* The last scene of the box brings all of s.
LastScene(box, s) ==
    \E i \in DOMAIN box :
        /\ IsScene(box[i]) /\ Covers(box[i].value, s)
        /\ \A j \in DOMAIN box : i < j => ~IsScene(box[j])

\* A page with this box, this held broadcast and this scene has s or gets it.
Brings(box, hold, scene, s) ==
    \/ Covers(scene, s)
    \/ LastScene(box, s)
    \/ hold # NoScene /\ Covers(hold, s) /\ \A i \in DOMAIN box : ~IsScene(box[i])

\* The page has s, or gets it, unless its editor dropped a broadcast.
Gets(q, s) == lost[q] \/ Brings(inbox[q], held[q], shown[q], s)

\* The page will take itself for the syncer when it comes to event i.
RoleBefore(box, role, i) ==
    /\ \A k \in DOMAIN box :
          k < i /\ IsRole(box[k]) /\ (\A j \in DOMAIN box : k < j /\ j < i => ~IsRole(box[j]))
          => box[k].value = TRUE
    /\ (\A k \in DOMAIN box : k < i => ~IsRole(box[k])) => role = TRUE

\* The page will hear of q's join, as the syncer.
Answers(box, role, q) ==
    \E i \in DOMAIN box : box[i] = Event("userJoined", q) /\ RoleBefore(box, role, i)

\* What the page has to send it sends as a whole: after its next join, with
\* its first broadcast, or by the healing.
SendsAll(p) ==
    \/ p \notin members \/ ~inRoom[p]
    \/ IF sent[p] = NoScene THEN "socket" \in due[p] ELSE "heal" \in due[p]

Owes(p, q) ==
    stage[p] = "open" /\ q \in members =>
        SendsAll(p) \/ Answers(inbox[p], isSyncer[p], q) \/ Gets(q, shown[p])

\* A page sends nothing before it is in a room, and owes a healing for what it
\* has not sent; a socket out of the room carries nothing.
SenderOk(p) ==
    /\ stage[p] = "closed" => link[p] = "down"
    /\ stage[p] = "loading" \/ ~inRoom[p] => sent[p] = NoScene
    /\ p \notin members /\ link[p] # "broken" => ~inRoom[p] /\ inbox[p] = <<>>
    /\ stage[p] = "open" /\ sent[p] \notin {NoScene, shown[p]} => "heal" \in due[p]

SenderInv == lost \in [Pages -> BOOLEAN] /\ \A p \in Pages : SenderOk(p)
OwesInv == \A p, q \in Pages : p # q => Owes(p, q)

\* The board is shared by two pages at most.
TwoPages == \A p, q, r \in Pages : p = q \/ q = r \/ p = r

\* What is on its way stays so when more comes.
LEMMA AnswersMore ==
    ASSUME NEW box \in Seq(Events), NEW e \in Events, NEW role, NEW q, Answers(box, role, q)
    PROVE  Answers(Append(box, e), role, q)
<1> DEFINE b == Append(box, e)
           n == Len(box)
<1>1. /\ n \in Nat /\ DOMAIN box = 1 .. n /\ DOMAIN b = 1 .. n + 1
      /\ \A i \in DOMAIN box : b[i] = box[i]
  BY EventAppended
<1> HIDE DEF b, n
<1>2. PICK i \in DOMAIN box : box[i] = Event("userJoined", q) /\ RoleBefore(box, role, i) BY DEF Answers
<1>3. i \in DOMAIN b /\ b[i] = box[i] BY <1>1
<1>4. \A k \in DOMAIN b : k < i => k \in DOMAIN box /\ b[k] = box[k] BY <1>1
<1>5. DOMAIN box \subseteq DOMAIN b BY <1>1
<1>6. ASSUME NEW k \in DOMAIN b, k < i, IsRole(b[k]), \A j \in DOMAIN b : k < j /\ j < i => ~IsRole(b[j])
      PROVE  b[k].value = TRUE
  <2>1. k \in DOMAIN box /\ b[k] = box[k] BY <1>4, <1>6
  <2>2. \A j \in DOMAIN box : k < j /\ j < i => ~IsRole(box[j]) BY <1>1, <1>5, <1>6
  <2> QED BY <1>2, <1>6, <2>1, <2>2 DEF RoleBefore
<1>7. ASSUME \A k \in DOMAIN b : k < i => ~IsRole(b[k]) PROVE role = TRUE
  <2>1. \A k \in DOMAIN box : k < i => ~IsRole(box[k]) BY <1>1, <1>5, <1>7
  <2> QED BY <1>2, <2>1 DEF RoleBefore
<1>8. RoleBefore(b, role, i) BY <1>6, <1>7 DEF RoleBefore
<1>9. Answers(b, role, q) BY <1>2, <1>3, <1>8 DEF Answers
<1> QED BY <1>9 DEF b

\* A page that will be the syncer hears of a join: it will answer it.
LEMMA AnswersAnew ==
    ASSUME NEW box \in Seq(Events), NEW q, Event("userJoined", q) \in Events, NEW role,
           Believes(box, role, TRUE)
    PROVE  Answers(Append(box, Event("userJoined", q)), role, q)
<1> DEFINE e == Event("userJoined", q)
           b == Append(box, e)
           n == Len(box)
<1>1. /\ n \in Nat /\ DOMAIN box = 1 .. n /\ DOMAIN b = 1 .. n + 1 /\ b[n + 1] = e
      /\ \A i \in DOMAIN box : b[i] = box[i]
  BY EventAppended
<1> HIDE DEF b, n
<1>2. n + 1 \in DOMAIN b /\ DOMAIN box \subseteq DOMAIN b BY <1>1
<1>3. \A k \in DOMAIN b : k < n + 1 => k \in DOMAIN box /\ b[k] = box[k] BY <1>1
<1>4. \A j \in DOMAIN box : j < n + 1 BY <1>1
<1>5. ASSUME NEW k \in DOMAIN b, k < n + 1, IsRole(b[k]),
             \A j \in DOMAIN b : k < j /\ j < n + 1 => ~IsRole(b[j])
      PROVE  b[k].value = TRUE
  <2>1. k \in DOMAIN box /\ b[k] = box[k] BY <1>3, <1>5
  <2>2. \A j \in DOMAIN box : k < j => ~IsRole(box[j]) BY <1>1, <1>2, <1>4, <1>5
  <2> QED BY <1>5, <2>1, <2>2 DEF Believes
<1>6. ASSUME \A k \in DOMAIN b : k < n + 1 => ~IsRole(b[k]) PROVE role = TRUE
  <2>1. \A k \in DOMAIN box : ~IsRole(box[k]) BY <1>1, <1>2, <1>4, <1>6
  <2> QED BY <2>1 DEF Believes
<1>7. RoleBefore(b, role, n + 1) BY <1>5, <1>6 DEF RoleBefore
<1>8. Answers(b, role, q)
  <2> HIDE DEF e
  <2>1. b[n + 1] = e BY <1>1
  <2> QED BY <1>2, <1>7, <2>1 DEF Answers, e
<1> QED BY <1>8 DEF b, e

\* The page handles an event: it answers the join now, or still will.
LEMMA AnswersLess ==
    ASSUME NEW box \in Seq(Events), box # <<>>, NEW role, NEW q, Answers(box, role, q)
    PROVE  \/ Head(box) = Event("userJoined", q) /\ role = TRUE
           \/ Answers(Tail(box), IF IsRole(Head(box)) THEN Head(box).value ELSE role, q)
<1> DEFINE b == Tail(box)
           n == Len(box)
           heard == IF IsRole(Head(box)) THEN Head(box).value ELSE role
<1>1. n \in Nat \ {0} /\ DOMAIN box = 1 .. n BY EmptySeq, LenProperties
<1>2. b \in Seq(Events) /\ Len(b) = n - 1 /\ \A i \in 1 .. Len(b) : b[i] = box[i + 1]
  BY HeadTailProperties
<1>3. DOMAIN b = 1 .. n - 1 BY <1>2, LenProperties
<1>4. Head(box) = box[1] OBVIOUS
<1>5. PICK i \in DOMAIN box : box[i] = Event("userJoined", q) /\ RoleBefore(box, role, i) BY DEF Answers
<1> HIDE DEF b, n
<1>6. \A k \in DOMAIN b : k \in Nat /\ k + 1 \in DOMAIN box /\ b[k] = box[k + 1] BY <1>1, <1>2, <1>3
<1>7. \A k \in DOMAIN box : k = 1 \/ (k - 1 \in DOMAIN b /\ b[k - 1] = box[k]) BY <1>1, <1>2, <1>3
<1>8. CASE i = 1
  <2>1. \A k \in DOMAIN box : ~(k < i) BY <1>1, <1>8
  <2>2. role = TRUE BY <1>5, <2>1 DEF RoleBefore
  <2> QED BY <1>4, <1>5, <1>8, <2>2
<1>9. CASE i # 1
  <2> DEFINE m == i - 1
  <2>1. m \in DOMAIN b /\ b[m] = box[i] /\ i = m + 1 /\ m \in Nat BY <1>1, <1>3, <1>7, <1>9
  <2> HIDE DEF m
  <2>2. ASSUME NEW k \in DOMAIN b, k < m, IsRole(b[k]), \A j \in DOMAIN b : k < j /\ j < m => ~IsRole(b[j])
        PROVE  b[k].value = TRUE
    <3>1. ASSUME NEW j \in DOMAIN box, k + 1 < j, j < i PROVE ~IsRole(box[j])
      <4>1. j # 1 /\ k < j - 1 /\ j - 1 < m BY <1>1, <1>3, <2>1, <3>1
      <4> QED BY <1>7, <2>2, <4>1
    <3>2. k + 1 \in DOMAIN box /\ k + 1 < i /\ box[k + 1] = b[k] BY <1>6, <2>1, <2>2
    <3> QED BY <1>5, <2>2, <3>1, <3>2 DEF RoleBefore
  <2>3. ASSUME \A k \in DOMAIN b : k < m => ~IsRole(b[k]) PROVE heard = TRUE
    <3>1. ASSUME NEW k \in DOMAIN box, 1 < k, k < i PROVE ~IsRole(box[k])
      <4>1. k - 1 \in DOMAIN b /\ b[k - 1] = box[k] /\ k - 1 < m BY <1>1, <1>7, <2>1, <3>1
      <4> QED BY <2>3, <4>1
    <3>2. 1 \in DOMAIN box /\ 1 < i BY <1>1, <1>9
    <3>3. CASE IsRole(box[1]) BY <1>4, <1>5, <3>1, <3>2, <3>3 DEF RoleBefore
    <3>4. CASE ~IsRole(box[1])
      <4>1. \A k \in DOMAIN box : k < i => ~IsRole(box[k]) BY <1>1, <3>1, <3>4
      <4> QED BY <1>4, <1>5, <3>4, <4>1 DEF RoleBefore
    <3> QED BY <3>3, <3>4
  <2>4. RoleBefore(b, heard, m)
    <3> HIDE DEF heard
    <3> QED BY <2>2, <2>3 DEF RoleBefore
  <2>5. Answers(b, heard, q)
    <3> HIDE DEF heard
    <3> QED BY <1>5, <2>1, <2>4 DEF Answers
  <2> QED BY <2>5 DEF b
<1> QED BY <1>8, <1>9

\* An event that is no scene takes nothing away.
LEMMA BringsMore ==
    ASSUME NEW box \in Seq(Events), NEW e \in Events, ~IsScene(e), NEW hold, NEW scene, NEW s,
           Brings(box, hold, scene, s)
    PROVE  Brings(Append(box, e), hold, scene, s)
<1> DEFINE b == Append(box, e)
           n == Len(box)
<1>1. /\ n \in Nat /\ DOMAIN box = 1 .. n /\ DOMAIN b = 1 .. n + 1 /\ b[n + 1] = e
      /\ \A i \in DOMAIN box : b[i] = box[i]
  BY EventAppended
<1> HIDE DEF b, n
<1>2. \A k \in DOMAIN b : k = n + 1 \/ k \in DOMAIN box BY <1>1
<1>3. CASE LastScene(box, s)
  <2>1. PICK i \in DOMAIN box : /\ IsScene(box[i]) /\ Covers(box[i].value, s)
                                /\ \A j \in DOMAIN box : i < j => ~IsScene(box[j])
    BY <1>3 DEF LastScene
  <2>2. i \in DOMAIN b /\ b[i] = box[i] BY <1>1
  <2>3. \A j \in DOMAIN b : i < j => ~IsScene(b[j]) BY <1>1, <1>2, <2>1
  <2>4. LastScene(b, s) BY <2>1, <2>2, <2>3 DEF LastScene
  <2> QED BY <2>4 DEF Brings, b
<1>4. CASE hold # NoScene /\ Covers(hold, s) /\ \A i \in DOMAIN box : ~IsScene(box[i])
  <2>1. \A i \in DOMAIN b : ~IsScene(b[i]) BY <1>1, <1>2, <1>4
  <2> QED BY <1>4, <2>1 DEF Brings, b
<1> QED BY <1>3, <1>4 DEF Brings

\* A scene that covers s is the last one when it comes.
LEMMA BringsAnew ==
    ASSUME NEW box \in Seq(Events), NEW e \in Events, IsScene(e), NEW s, Covers(e.value, s),
           NEW hold, NEW scene
    PROVE  Brings(Append(box, e), hold, scene, s)
<1> DEFINE b == Append(box, e)
           n == Len(box)
<1>1. n \in Nat /\ DOMAIN b = 1 .. n + 1 /\ b[n + 1] = e BY EventAppended
<1> HIDE DEF b, n
<1>2. n + 1 \in DOMAIN b /\ \A j \in DOMAIN b : ~(n + 1 < j) BY <1>1
<1>3. LastScene(b, s) BY <1>1, <1>2 DEF LastScene
<1> QED BY <1>3 DEF Brings, b

\* A page whose scene grows has what it had.
LEMMA BringsToMore ==
    ASSUME NEW box, NEW hold, NEW s \in AllScenes, NEW scene \in AllScenes, NEW after \in AllScenes,
           Covers(after, scene), Brings(box, hold, scene, s)
    PROVE  Brings(box, hold, after, s)
BY CoversIsTransitive DEF Brings

\* The page handles an event that is no scene.
LEMMA BringsLess ==
    ASSUME NEW box \in Seq(Events), box # <<>>, ~IsScene(Head(box)), NEW hold, NEW scene, NEW s,
           Brings(box, hold, scene, s)
    PROVE  Brings(Tail(box), hold, scene, s)
<1> DEFINE b == Tail(box)
           n == Len(box)
<1>1. n \in Nat \ {0} /\ DOMAIN box = 1 .. n BY EmptySeq, LenProperties
<1>2. b \in Seq(Events) /\ Len(b) = n - 1 /\ \A i \in 1 .. Len(b) : b[i] = box[i + 1]
  BY HeadTailProperties
<1>3. DOMAIN b = 1 .. n - 1 BY <1>2, LenProperties
<1>4. Head(box) = box[1] OBVIOUS
<1> HIDE DEF b, n
<1>5. \A k \in DOMAIN b : k + 1 \in DOMAIN box /\ b[k] = box[k + 1] BY <1>1, <1>2, <1>3
<1>6. CASE LastScene(box, s)
  <2>1. PICK i \in DOMAIN box : /\ IsScene(box[i]) /\ Covers(box[i].value, s)
                                /\ \A j \in DOMAIN box : i < j => ~IsScene(box[j])
    BY <1>6 DEF LastScene
  <2>2. i # 1 BY <1>4, <2>1
  <2>3. i - 1 \in DOMAIN b /\ b[i - 1] = box[i] BY <1>1, <1>2, <1>3, <2>2
  <2>4. \A j \in DOMAIN b : i - 1 < j => i < j + 1 BY <1>1, <1>3
  <2>5. \A j \in DOMAIN b : i - 1 < j => ~IsScene(b[j]) BY <1>5, <2>1, <2>4
  <2>6. LastScene(b, s) BY <2>1, <2>3, <2>5 DEF LastScene
  <2> QED BY <2>6 DEF Brings, b
<1>7. CASE hold # NoScene /\ Covers(hold, s) /\ \A i \in DOMAIN box : ~IsScene(box[i])
  <2>1. \A i \in DOMAIN b : ~IsScene(b[i]) BY <1>5, <1>7
  <2> QED BY <1>7, <2>1 DEF Brings, b
<1> QED BY <1>6, <1>7 DEF Brings

\* The page takes a scene out of its box: it was the last and brings s, or the
\* last is still to come.
LEMMA SceneTaken ==
    ASSUME NEW box \in Seq(Events), box # <<>>, NEW s, LastScene(box, s)
    PROVE  \/ LastScene(Tail(box), s)
           \/ Covers(Head(box).value, s) /\ \A i \in DOMAIN Tail(box) : ~IsScene(Tail(box)[i])
<1> DEFINE b == Tail(box)
           n == Len(box)
<1>1. n \in Nat \ {0} /\ DOMAIN box = 1 .. n BY EmptySeq, LenProperties
<1>2. b \in Seq(Events) /\ Len(b) = n - 1 /\ \A i \in 1 .. Len(b) : b[i] = box[i + 1]
  BY HeadTailProperties
<1>3. DOMAIN b = 1 .. n - 1 BY <1>2, LenProperties
<1>4. Head(box) = box[1] OBVIOUS
<1> HIDE DEF b, n
<1>5. \A k \in DOMAIN b : k + 1 \in DOMAIN box /\ b[k] = box[k + 1] BY <1>1, <1>2, <1>3
<1>6. PICK i \in DOMAIN box : /\ IsScene(box[i]) /\ Covers(box[i].value, s)
                              /\ \A j \in DOMAIN box : i < j => ~IsScene(box[j])
  BY DEF LastScene
<1>7. CASE i = 1
  <2>1. \A k \in DOMAIN b : i < k + 1 BY <1>3, <1>7
  <2>2. \A k \in DOMAIN b : ~IsScene(b[k]) BY <1>5, <1>6, <2>1
  <2> QED BY <1>4, <1>6, <1>7, <2>2 DEF b
<1>8. CASE i # 1
  <2>1. i - 1 \in DOMAIN b /\ b[i - 1] = box[i] BY <1>1, <1>2, <1>3, <1>8
  <2>2. \A j \in DOMAIN b : i - 1 < j => i < j + 1 BY <1>1, <1>3
  <2>3. \A j \in DOMAIN b : i - 1 < j => ~IsScene(b[j]) BY <1>5, <1>6, <2>2
  <2>4. LastScene(b, s) BY <1>6, <2>1, <2>3 DEF LastScene
  <2> QED BY <2>4 DEF b
<1> QED BY <1>7, <1>8

\* A step of a page changes nothing of another but its box, and that only if
\* the other is in the room.
LEMMA OthersAsTheyWere ==
    ASSUME SyncerInv, SenderInv, NEW p \in Pages, Tab(p) \/ Socket(p), NEW q \in Pages \ {p}
    PROVE  /\ stage'[q] = stage[q] /\ shown'[q] = shown[q] /\ held'[q] = held[q] /\ due'[q] = due[q]
           /\ putting'[q] = putting[q] /\ link'[q] = link[q] /\ inRoom'[q] = inRoom[q]
           /\ isSyncer'[q] = isSyncer[q] /\ sent'[q] = sent[q] /\ lost'[q] = lost[q]
           /\ q \in members' <=> q \in members
           /\ q \notin members => inbox'[q] = inbox[q]
<1> USE DEF SyncerInv, SenderInv, CollabShape, ServiceShape, TabShape, SocketShape, BoxesOk
<1>1. CASE Enter(p) \/ Mount(p) \/ Draw(p) \/ SyncToServer(p) \/ Answer(p)
  BY <1>1 DEF Enter, Mount, Draw, SyncToServer, Answer, Drained, Posts, serviceVars, socketVars, traceVars
<1>2. ASSUME NEW payload, NEW boxes, boxes[q] = inbox[q], boxes \in [Pages -> Seq(Events)],
             Broadcast(p, payload, boxes)
      PROVE  q \notin members => inbox'[q] = inbox[q]
  BY <1>2 DEF Broadcast, Push, Peers
<1>3. SendChanges(p) \/ Flush(p) => (q \notin members => inbox'[q] = inbox[q]) /\ sent'[q] = sent[q]
  BY <1>2 DEF SendChanges, Flush
<1>4. CASE SyncViaSocket(p) \/ Hide(p) \/ Leave(p)
  BY <1>3, <1>4 DEF SyncViaSocket, Hide, Leave, Posts, serviceVars, traceVars
<1>5. CASE Heal(p)
  BY <1>2, <1>5 DEF Heal, serviceVars, traceVars
<1>6. CASE Connect(p) \/ Notice(p)
  BY <1>6 DEF Connect, Notice, serviceVars, tabVars
<1>7. CASE Join(p)
  <2>1. p # q /\ members' = members \cup {p} BY <1>7 DEF Join
  <2>2. inbox'[q] = IF q \in members THEN inbox[q] \o <<Event("userJoined", p)>> ELSE inbox[q]
    BY <1>7 DEF Join, Push
  <2> QED BY <1>7, <2>1, <2>2 DEF Join, tabVars, traceVars
<1>8. ASSUME NEW boxes, boxes[q] = inbox[q], boxes \in [Pages -> Seq(Events)], LeaveRoom(p, boxes)
      PROVE  (q \in members' <=> q \in members) /\ (q \notin members => inbox'[q] = inbox[q])
  <2>1. members' = members \ {p} BY <1>8 DEF LeaveRoom
  <2>2. ASSUME q \notin members, NEW u, inbox' = Push(boxes, <<Event("designate", TRUE)>>, Promoted(u, members \ {p}))
        PROVE  inbox'[q] = inbox[q]
    BY <1>8, <2>2 DEF Push, Promoted
  <2> QED BY <1>8, <2>1, <2>2 DEF LeaveRoom
<1>9. CASE Break(p)
  BY <1>8, <1>9 DEF Break, tabVars, traceVars
<1>10. CASE Vanish(p)
  <2>1. LeaveRoom(p, [inbox EXCEPT ![p] = <<>>]) BY <1>10 DEF Vanish
  <2>2. [inbox EXCEPT ![p] = <<>>][q] = inbox[q] OBVIOUS
  <2>3. [inbox EXCEPT ![p] = <<>>] \in [Pages -> Seq(Events)] BY EmptySeq
  <2>4. (q \in members' <=> q \in members) /\ (q \notin members => inbox'[q] = inbox[q]) BY <1>8, <2>1, <2>2, <2>3
  <2> QED BY <1>10, <2>4 DEF Vanish
<1>11. CASE Deliver(p)
  <2>1. inbox[p] # <<>> BY <1>11 DEF Deliver, OnUserJoined, OnJoined, OnDesignate, OnScene, NextIs
  <2>2. Handled(p)[q] = inbox[q] /\ Handled(p) \in [Pages -> Seq(Events)] BY <2>1, HandledOk
  <2>3. inbox' = Handled(p) \/ Broadcast(p, shown[p], Handled(p))
    BY <1>11 DEF Deliver, OnUserJoined, OnJoined, OnDesignate, OnScene, Rebroadcast
  <2>4. q \notin members => inbox'[q] = inbox[q] BY <1>2, <2>2, <2>3
  <2> QED BY <1>11, <2>4 DEF Deliver, OnUserJoined, OnJoined, OnDesignate, OnScene, serviceVars, tabVars
<1> QED BY <1>1, <1>4, <1>5, <1>6, <1>7, <1>9, <1>10, <1>11 DEF Tab, Socket

\* What a page that sends and one that is out of the room have sent.
LEMMA SenderStep ==
    ASSUME SyncerInv, SenderInv, NEW p \in Pages, Tab(p) \/ Socket(p)
    PROVE  SenderInv'
<1>1. ASSUME NEW q \in Pages \ {p} PROVE SenderOk(q)'
  BY OthersAsTheyWere DEF SenderInv, SenderOk
<1>2. SenderOk(p) /\ (p \in members => link[p] = "up") /\ stage[p] \in Stages /\ link[p] \in Links
  BY DEF SenderInv, SyncerInv, RoomOk, CollabShape, TabShape, SocketShape
<1>3. /\ stage \in [Pages -> Stages] /\ link \in [Pages -> Links] /\ inRoom \in [Pages -> BOOLEAN]
      /\ sent \in [Pages -> Kept] /\ shown \in [Pages -> AllScenes] /\ due \in [Pages -> SUBSET Throttles]
      /\ inbox \in [Pages -> Seq(Events)] /\ lost \in [Pages -> BOOLEAN]
  BY DEF SenderInv, SyncerInv, CollabShape, TabShape, SocketShape, BoxesOk
<1>4. lost' \in [Pages -> BOOLEAN]
  BY <1>3 DEF Tab, Socket, Enter, Mount, Draw, SyncToServer, Answer, SyncViaSocket, Heal, Hide, Leave,
              Vanish, Connect, Join, Break, Notice, Deliver, traceVars
<1>5. SenderOk(p)'
  <2>1. CASE Enter(p) BY <1>2, <1>3, <2>1 DEF Enter, SenderOk, serviceVars, socketVars, Links
  <2>2. CASE Mount(p)
    BY <1>2, <1>3, <2>2 DEF Mount, SenderOk, serviceVars, socketVars
  <2>3. CASE Draw(p)
    BY <1>2, <1>3, <2>3 DEF Draw, OnChange, SenderOk, serviceVars, socketVars
  <2>4. CASE SyncToServer(p) \/ Answer(p)
    BY <1>2, <1>3, <2>4 DEF SyncToServer, Answer, SenderOk, serviceVars, socketVars
  <2>5. CASE SyncViaSocket(p) \/ Hide(p)
    <3>1. sent' = sent \/ (Online(p) /\ sent' = [sent EXCEPT ![p] = shown[p]])
      BY <2>5 DEF SyncViaSocket, Hide, Flush, SendChanges
    <3>2. /\ UNCHANGED <<members, stage, shown, link, inRoom>> /\ stage[p] = "open"
          /\ "heal" \in due[p] => "heal" \in due'[p]
      BY <1>3, <2>5 DEF SyncViaSocket, Hide, serviceVars
    <3>3. p \notin members => inbox'[p] = inbox[p]
      BY <1>3, <2>5 DEF SyncViaSocket, Hide, Flush, SendChanges, Broadcast, Push, Peers
    <3> QED BY <1>2, <1>3, <3>1, <3>2, <3>3 DEF SenderOk, Online
  <2>6. CASE Heal(p)
    <3>1. \/ sent' = [sent EXCEPT ![p] = shown[p]] /\ Online(p)
          \/ sent' = sent /\ (~Online(p) \/ sent[p] = NoScene)
      BY <2>6 DEF Heal
    <3>2. UNCHANGED <<members, stage, shown, link, inRoom>> /\ stage[p] = "open"
      BY <2>6 DEF Heal, serviceVars
    <3>3. p \notin members => inbox'[p] = inbox[p]
      BY <1>3, <2>6 DEF Heal, Broadcast, Push, Peers
    <3>4. ~Online(p) => ~inRoom[p] BY <1>2 DEF Online, SenderOk
    <3> QED BY <1>2, <1>3, <3>1, <3>2, <3>3, <3>4 DEF SenderOk, Online
  <2>7. CASE Leave(p)
    <3>1. sent' = sent \/ (Online(p) /\ sent' = [sent EXCEPT ![p] = shown[p]])
      BY <2>7 DEF Leave, Flush, SendChanges
    <3>2. UNCHANGED <<members, link, inRoom>> /\ stage'[p] = "leaving" BY <1>3, <2>7 DEF Leave
    <3>3. p \notin members => inbox'[p] = inbox[p]
      BY <1>3, <2>7 DEF Leave, Flush, SendChanges, Broadcast, Push, Peers
    <3> QED BY <1>2, <1>3, <3>1, <3>2, <3>3 DEF SenderOk, Online
  <2>8. CASE Vanish(p)
    <3>1. /\ stage'[p] = "closed" /\ link'[p] = "down" /\ inRoom'[p] = FALSE /\ sent'[p] = NoScene
      BY <1>3, <2>8 DEF Vanish
    <3>2. inbox'[p] = <<>>
      BY <1>3, <2>8 DEF Vanish, LeaveRoom, Push, Promoted
    <3> QED BY <3>1, <3>2 DEF SenderOk
  <2>9. CASE Connect(p)
    BY <1>2, <1>3, <2>9 DEF Connect, SenderOk, serviceVars, tabVars
  <2>10. CASE Join(p)
    BY <1>2, <1>3, <2>10 DEF Join, SenderOk, tabVars
  <2>11. CASE Break(p)
    BY <1>2, <1>3, <2>11 DEF Break, SenderOk, tabVars
  <2>12. CASE Notice(p)
    BY <1>2, <1>3, <2>12 DEF Notice, SenderOk, serviceVars, tabVars
  <2>13. CASE Deliver(p)
    <3>1. inbox[p] # <<>> /\ UNCHANGED <<members, link, sent, stage>> /\ stage[p] \in {"loading", "open"}
      BY <2>13 DEF Deliver, OnUserJoined, OnJoined, OnDesignate, OnScene, NextIs, serviceVars, tabVars
    <3>2. p \in members \/ link[p] = "broken" BY <1>2, <3>1 DEF SenderOk
    <3>3. "heal" \in due[p] => "heal" \in due'[p]
      BY <1>3, <2>13 DEF Deliver, OnUserJoined, OnJoined, OnDesignate, OnScene, tabVars
    <3>4. inRoom'[p] = inRoom[p] \/ inRoom'[p]
      BY <1>3, <2>13 DEF Deliver, OnUserJoined, OnJoined, OnDesignate, OnScene
    <3>5. shown'[p] = shown[p] \/ "heal" \in due'[p] \/ stage[p] # "open"
      BY <1>3, <2>13 DEF Deliver, OnUserJoined, OnJoined, OnDesignate, OnScene, OnRemoteChange, OnChange, tabVars
    <3> QED BY <1>2, <1>3, <3>1, <3>2, <3>3, <3>4, <3>5 DEF SenderOk
  <2> QED BY <2>1, <2>2, <2>3, <2>4, <2>5, <2>6, <2>7, <2>8, <2>9, <2>10, <2>11, <2>12, <2>13 DEF Tab, Socket
<1> QED BY <1>1, <1>4, <1>5 DEF SenderInv

\* A page that is out of the room owes nothing, and is owed nothing.
LEMMA OwesNothing ==
    ASSUME NEW p \in Pages, NEW q \in Pages, p \notin members'
    PROVE  Owes(p, q)' /\ Owes(q, p)'
BY DEF Owes, SendsAll

\* What a broadcast adds to the boxes.
LEMMA BroadcastAt ==
    ASSUME SyncerInv, NEW p \in Pages, NEW q \in Pages \ {p}, NEW payload \in AllScenes,
           NEW boxes \in [Pages -> Seq(Events)], boxes[q] = inbox[q], Broadcast(p, payload, boxes)
    PROVE  /\ inbox'[p] = boxes[p]
           /\ inbox'[q] = IF p \in members /\ q \in members
                          THEN Append(inbox[q], Event("scene", payload)) ELSE inbox[q]
           /\ Event("scene", payload) \in Events
<1>1. Event("scene", payload) \in Events BY DEF Event, Events
<1>2. inbox' = Push(boxes, <<Event("scene", payload)>>, Peers(p)) BY DEF Broadcast
<1>3. \A x \in Pages : inbox'[x] = IF x \in Peers(p) THEN Append(boxes[x], Event("scene", payload)) ELSE boxes[x]
  BY <1>1, <1>2, PushAt
<1>4. p \notin Peers(p) /\ (q \in Peers(p) <=> p \in members /\ q \in members) BY DEF Peers
<1> QED BY <1>1, <1>3, <1>4

\* A whole scene broadcast to a page of the room is what that page gets.
LEMMA WholeSceneComes ==
    ASSUME SyncerInv, NEW p \in Pages, NEW q \in Pages \ {p}, p \in members, q \in members,
           NEW boxes \in [Pages -> Seq(Events)], boxes[q] = inbox[q], Broadcast(p, shown[p], boxes),
           NEW hold, NEW scene
    PROVE  Brings(inbox'[q], hold, scene, shown[p])
<1> DEFINE e == Event("scene", shown[p])
<1>1. shown[p] \in AllScenes /\ inbox[q] \in Seq(Events) BY AtPage
<1>2. inbox'[q] = Append(inbox[q], e) /\ e \in Events BY <1>1, BroadcastAt
<1>3. IsScene(e) /\ Covers(e.value, shown[p]) BY <1>1, CoversItself DEF Event, IsScene
<1> HIDE DEF e
<1>4. Brings(Append(inbox[q], e), hold, scene, shown[p]) BY <1>1, <1>2, <1>3, BringsAnew
<1> QED BY <1>2, <1>4

\* What another page owes p it still owes after a step of p, if p keeps what
\* is on its way to it.
LEMMA StillOwed ==
    ASSUME SyncerInv, SenderInv, NEW p \in Pages, Tab(p) \/ Socket(p), NEW q \in Pages \ {p}, Owes(q, p),
           p \in members' => p \in members,
           inbox'[q] = inbox[q] \/ \E e \in Events : inbox'[q] = Append(inbox[q], e),
           Gets(p, shown[q]) => lost'[p] \/ Brings(inbox'[p], held'[p], shown'[p], shown[q])
    PROVE  Owes(q, p)'
<1>1. /\ stage'[q] = stage[q] /\ shown'[q] = shown[q] /\ due'[q] = due[q] /\ inRoom'[q] = inRoom[q]
      /\ isSyncer'[q] = isSyncer[q] /\ sent'[q] = sent[q] /\ (q \in members' <=> q \in members)
  BY OthersAsTheyWere
<1>2. inbox[q] \in Seq(Events) BY AtPage
<1>3. Answers(inbox[q], isSyncer[q], p) => Answers(inbox'[q], isSyncer[q], p) BY <1>2, AnswersMore
<1>4. SendsAll(q) => SendsAll(q)' BY <1>1 DEF SendsAll
<1>5. Gets(p, shown[q]) => Gets(p, shown[q])' BY <1>1 DEF Gets
<1>6. Answers(inbox[q], isSyncer[q], p) => Answers(inbox[q], isSyncer[q], p)' BY <1>1, <1>3
<1> QED BY <1>1, <1>4, <1>5, <1>6 DEF Owes

\* A page mounts its editor or draws: it has yet to send its scene.
LEMMA OwesOfChanges ==
    ASSUME SyncerInv, SenderInv, OwesInv, NEW p \in Pages, Mount(p) \/ Draw(p), NEW q \in Pages \ {p}
    PROVE  Owes(p, q)' /\ Owes(q, p)'
<1>1. /\ shown[p] \in AllScenes /\ held[p] \in Kept /\ shown[q] \in AllScenes /\ draws \in Nat
      /\ due \in [Pages -> SUBSET Throttles] /\ shown \in [Pages -> AllScenes]
      /\ lost \in [Pages -> BOOLEAN] /\ Owes(q, p) /\ p # q
  BY AtPage DEF SyncerInv, SenderInv, OwesInv, CollabShape, ServiceShape, TabShape
<1>2. /\ UNCHANGED <<members, inRoom, sent, inbox>> /\ due'[p] = OnChange
  BY <1>1 DEF Mount, Draw, serviceVars, socketVars
<1>3. Owes(p, q)' BY <1>2 DEF Owes, SendsAll, OnChange
<1>4. Gets(p, shown[q]) => lost'[p] \/ Brings(inbox'[p], held'[p], shown'[p], shown[q])
  <2> SUFFICES ASSUME Brings(inbox[p], held[p], shown[p], shown[q]), ~lost[p], ~lost'[p]
               PROVE  Brings(inbox'[p], held'[p], shown'[p], shown[q])
    BY <1>1 DEF Gets, Mount, Draw, traceVars
  <2>1. CASE Draw(p)
    <3>1. PICK e \in Elements : shown' = [shown EXCEPT ![p] = Edited(@, e, draws)] BY <2>1 DEF Draw
    <3>2. shown'[p] \in AllScenes /\ Covers(shown'[p], shown[p]) BY <1>1, <3>1, EditedCovers
    <3>3. held' = held BY <2>1 DEF Draw
    <3> QED BY <1>1, <1>2, <3>2, <3>3, BringsToMore
  <2>2. CASE Mount(p)
    <3>1. shown'[p] = IF held[p] = NoScene THEN shown[p] ELSE Merge(shown[p], held[p])
      BY <1>1, <2>2 DEF Mount
    <3>2. CASE held[p] = NoScene
      <4>1. shown'[p] = shown[p] /\ held'[p] = NoScene
        BY <1>1, <2>2, <3>1, <3>2 DEF Mount, Drained, SyncerInv, CollabShape, TabShape
      <4> QED BY <1>2, <3>2, <4>1 DEF Brings
    <3>3. CASE held[p] # NoScene
      <4>1. held[p] \in AllScenes BY <1>1, <3>3 DEF Kept
      <4>2. /\ shown'[p] \in AllScenes /\ Covers(shown'[p], shown[p]) /\ Covers(shown'[p], held[p])
        BY <1>1, <3>1, <3>3, <4>1, MergeIsScene, MergeCovers
      <4>3. Covers(held[p], shown[q]) => Covers(shown'[p], shown[q]) BY <1>1, <4>1, <4>2, CoversIsTransitive
      <4>4. Covers(shown[p], shown[q]) => Covers(shown'[p], shown[q]) BY <1>1, <4>2, CoversIsTransitive
      <4> QED BY <1>2, <4>3, <4>4 DEF Brings
    <3> QED BY <3>2, <3>3
  <2> QED BY <2>1, <2>2
<1>5. Owes(q, p)' BY <1>1, <1>2, <1>4, StillOwed DEF Tab
<1> QED BY <1>3, <1>5

\* A save is nothing to the other page.
LEMMA OwesOfSaves ==
    ASSUME SyncerInv, SenderInv, OwesInv, NEW p \in Pages, SyncToServer(p) \/ Answer(p), NEW q \in Pages \ {p}
    PROVE  Owes(p, q)' /\ Owes(q, p)'
<1>1. /\ UNCHANGED <<members, inRoom, sent, inbox, isSyncer, shown, held, lost, stage>>
      /\ \A x \in Pages : \A c \in {"socket", "heal"} : c \in due[x] => c \in due'[x]
  BY AtPage DEF SyncToServer, Answer, serviceVars, socketVars, SyncerInv, CollabShape, TabShape
<1>2. Owes(p, q) /\ Owes(q, p) BY DEF OwesInv
<1> QED BY <1>1, <1>2 DEF Owes, SendsAll, Gets

\* A page broadcasts: its whole scene, which the other then gets, or what has
\* changed, after which the healing is still to come.
LEMMA OwesOfSends ==
    ASSUME SyncerInv, SenderInv, OwesInv, NEW p \in Pages,
           SyncViaSocket(p) \/ Heal(p) \/ Hide(p) \/ Leave(p), NEW q \in Pages \ {p}
    PROVE  Owes(p, q)' /\ Owes(q, p)'
<1>1. /\ shown[p] \in AllScenes /\ Payload(p) \in AllScenes /\ inbox[q] \in Seq(Events) /\ inbox \in [Pages -> Seq(Events)]
      /\ due \in [Pages -> SUBSET Throttles] /\ sent \in [Pages -> Kept] /\ stage \in [Pages -> Stages]
      /\ Owes(q, p) /\ Owes(p, q) /\ SenderOk(p) /\ (p \in members => link[p] = "up")
  BY AtPage, PayloadIsScene
     DEF SyncerInv, SenderInv, OwesInv, RoomOk, CollabShape, TabShape, SocketShape, BoxesOk
<1>2. /\ UNCHANGED <<members, inRoom, isSyncer, shown, held, lost, link>> /\ stage[p] = "open"
  BY DEF SyncViaSocket, Heal, Hide, Leave, serviceVars, traceVars
<1>3. \/ inbox' = inbox
      \/ \E payload \in AllScenes : Broadcast(p, payload, inbox)
  BY <1>1 DEF SyncViaSocket, Heal, Hide, Leave, Flush, SendChanges
<1>4. inbox'[p] = inbox[p] /\ (inbox'[q] = inbox[q] \/ \E e \in Events : inbox'[q] = Append(inbox[q], e))
  <2>1. CASE inbox' = inbox BY <2>1
  <2>2. ASSUME NEW payload \in AllScenes, Broadcast(p, payload, inbox)
        PROVE  inbox'[p] = inbox[p] /\ (inbox'[q] = inbox[q] \/ \E e \in Events : inbox'[q] = Append(inbox[q], e))
    BY <1>1, <2>2, BroadcastAt
  <2> QED BY <1>3, <2>1, <2>2
<1>5. Gets(p, shown[q]) => lost'[p] \/ Brings(inbox'[p], held'[p], shown'[p], shown[q]) BY <1>2, <1>4 DEF Gets
<1>6. Owes(q, p)' BY <1>1, <1>2, <1>4, <1>5, StillOwed DEF Tab
<1>7. Owes(p, q)'
  <2> SUFFICES ASSUME p \in members, q \in members, inRoom[p], stage'[p] = "open"
               PROVE  SendsAll(p)' \/ Gets(q, shown[p])' \/ Answers(inbox[p], isSyncer[p], q)'
    BY <1>2 DEF Owes, SendsAll
  <2>1. Online(p) /\ ~Leave(p) BY <1>1 DEF Online, Leave
  <2>2. Broadcast(p, shown[p], inbox) => Gets(q, shown[p])'
    <3> SUFFICES ASSUME Broadcast(p, shown[p], inbox) PROVE Brings(inbox'[q], held[q], shown[q], shown[p])
      BY <1>2 DEF Gets
    <3> QED BY <1>1, WholeSceneComes
  <2>3. ASSUME UNCHANGED <<inbox, sent>>, SendsAll(p) => SendsAll(p)'
        PROVE  SendsAll(p)' \/ Gets(q, shown[p])' \/ Answers(inbox[p], isSyncer[p], q)'
    BY <1>1, <1>2, <2>3 DEF Owes, Gets
  <2>4. CASE Heal(p)
    <3>1. CASE sent[p] # NoScene BY <2>1, <2>2, <2>4, <3>1 DEF Heal
    <3>2. CASE sent[p] = NoScene
      <4>1. UNCHANGED <<inbox, sent>> /\ ("socket" \in due[p] => "socket" \in due'[p])
        BY <1>1, <2>4, <3>2 DEF Heal
      <4>2. SendsAll(p) => SendsAll(p)' BY <1>2, <3>2, <4>1 DEF SendsAll
      <4> QED BY <2>3, <4>1, <4>2
    <3> QED BY <3>1, <3>2
  <2>5. CASE SyncViaSocket(p) \/ Hide(p)
    <3>1. "heal" \in due[p] => "heal" \in due'[p] BY <1>1, <2>5 DEF SyncViaSocket, Hide
    <3>2. CASE UNCHANGED <<inbox, sent>> /\ "socket" \notin due[p]
      <4>1. SendsAll(p) => SendsAll(p)' BY <1>2, <3>1, <3>2 DEF SendsAll
      <4> QED BY <2>3, <3>2, <4>1
    <3>3. CASE UNCHANGED <<inbox, sent>> /\ sent[p] = shown[p]
      <4>1. sent[p] # NoScene BY <1>1, <3>3, NoSceneAssumption
      <4>2. SendsAll(p) => SendsAll(p)' BY <1>2, <3>1, <3>3, <4>1 DEF SendsAll
      <4> QED BY <2>3, <3>3, <4>2
    <3>4. CASE sent[p] # shown[p] /\ Broadcast(p, Payload(p), inbox) /\ sent' = [sent EXCEPT ![p] = shown[p]]
      <4>1. CASE sent[p] = NoScene BY <2>2, <3>4, <4>1 DEF Payload
      <4>2. CASE sent[p] # NoScene
        <5>1. "heal" \in due'[p] BY <1>1, <1>2, <3>1, <3>4, <4>2 DEF SenderOk
        <5>2. sent'[p] # NoScene BY <1>1, <3>4, NoSceneAssumption
        <5> QED BY <5>1, <5>2 DEF SendsAll
      <4> QED BY <4>1, <4>2
    <3>5. SendChanges(p) \/ (UNCHANGED <<inbox, sent>> /\ "socket" \notin due[p])
      BY <2>5 DEF SyncViaSocket, Hide, Flush
    <3> QED BY <2>1, <3>2, <3>3, <3>4, <3>5 DEF SendChanges
  <2> QED BY <2>1, <2>4, <2>5
<1> QED BY <1>6, <1>7

\* A page joins: what it has, it sends when it is told; what the other has,
\* the other will send as the syncer, since there are only these two.
LEMMA OwesOfJoin ==
    ASSUME SyncerInv, SenderInv, OwesInv, TwoPages, NEW p \in Pages, Join(p), NEW q \in Pages \ {p}
    PROVE  Owes(p, q)' /\ Owes(q, p)'
<1> DEFINE uj == Event("userJoined", p)
           jd == Event("joined", syncer' = user[p])
           first == Push(inbox, <<uj>>, members)
<1>1. /\ link[p] = "up" /\ p \notin members /\ members' = members \cup {p}
      /\ inbox' = Push(first, <<jd>>, {p}) /\ UNCHANGED <<tabVars, link, inRoom, isSyncer, sent, lost>>
  BY DEF Join, traceVars
<1>2. ~inRoom'[p] BY <1>1 DEF SenderInv, SenderOk
<1>3. Owes(p, q)' BY <1>2 DEF Owes, SendsAll
<1>4. CASE q \notin members
  <2>1. q \notin members' BY <1>1, <1>4
  <2> QED BY <1>3, <2>1, OwesNothing
<1>5. CASE q \in members
  <2>1. inbox \in [Pages -> Seq(Events)] /\ inbox[q] \in Seq(Events) /\ members \subseteq Pages
    BY AtPage DEF SyncerInv, CollabShape, ServiceShape, SocketShape, BoxesOk
  <2>2. uj \in Events BY DEF Event, Events
  <2>3. (syncer' = user[p]) \in BOOLEAN OBVIOUS
  <2>4. jd \in Events BY <2>3 DEF Event, Events
  <2> HIDE DEF uj, jd
  <2>5. first \in [Pages -> Seq(Events)] /\ first[q] = Append(inbox[q], uj) BY <1>5, <2>1, <2>2, PushAt
  <2> HIDE DEF first
  <2>6. inbox'[q] = first[q] BY <1>1, <2>4, <2>5, PushAt
  <2>7. PICK m \in members : syncer = user[m] BY <1>5 DEF SyncerInv, RoomOk
  <2>8. m = q BY <1>1, <2>1, <2>7 DEF TwoPages
  <2>9. Believes(inbox[q], isSyncer[q], syncer = user[q]) BY <1>5 DEF SyncerInv, Beliefs
  <2>10. (syncer = user[q]) = TRUE BY <2>7, <2>8
  <2>11. Believes(inbox[q], isSyncer[q], TRUE) BY <2>9, <2>10
  <2>12. Answers(Append(inbox[q], uj), isSyncer[q], p) BY <2>1, <2>2, <2>11, AnswersAnew DEF uj
  <2>13. Answers(inbox[q], isSyncer[q], p)' BY <1>1, <2>5, <2>6, <2>12
  <2> QED BY <1>3, <2>13 DEF Owes
<1> QED BY <1>4, <1>5

\* A page that opens, or whose socket comes up, goes down or is noticed to be
\* down, is out of the room.
LEMMA OwesOfAbsent ==
    ASSUME SyncerInv, SenderInv, NEW p \in Pages,
           Enter(p) \/ Vanish(p) \/ Connect(p) \/ Break(p) \/ Notice(p), NEW q \in Pages \ {p}
    PROVE  Owes(p, q)' /\ Owes(q, p)'
<1>1. p \notin members'
  <2>1. CASE Enter(p) BY <2>1 DEF Enter, serviceVars, SyncerInv, RoomOk, SenderInv, SenderOk
  <2>2. CASE Connect(p) \/ Notice(p) BY <2>2 DEF Connect, Notice, serviceVars, SyncerInv, RoomOk
  <2>3. CASE Vanish(p) \/ Break(p) BY <2>3 DEF Vanish, Break, LeaveRoom
  <2> QED BY <2>1, <2>2, <2>3
<1> QED BY <1>1, OwesNothing

\* What a page gets, it has or still gets when it has handled an event.
LEMMA StillGets ==
    ASSUME SyncerInv, SenderInv, NEW p \in Pages, Deliver(p), NEW s \in AllScenes, Gets(p, s),
           inbox'[p] = Tail(inbox[p])
    PROVE  lost'[p] \/ Brings(inbox'[p], held'[p], shown'[p], s)
<1> DEFINE box == inbox[p]
           e == Head(box)
<1>1. /\ box # <<>> /\ box \in Seq(Events) /\ lost' = lost
      /\ shown[p] \in AllScenes /\ shown \in [Pages -> AllScenes] /\ held \in [Pages -> Kept]
  BY AtPage DEF Deliver, OnUserJoined, OnJoined, OnDesignate, OnScene, NextIs,
                SyncerInv, CollabShape, TabShape
<1>2. e \in Events BY <1>1, HandledOk
<1> SUFFICES ASSUME Brings(box, held[p], shown[p], s)
             PROVE  Brings(Tail(box), held'[p], shown'[p], s)
  BY <1>1 DEF Gets
<1>3. CASE OnUserJoined(p) \/ OnJoined(p) \/ OnDesignate(p)
  <2>1. ~IsScene(e) /\ UNCHANGED <<shown, held>>
    BY <1>3 DEF OnUserJoined, OnJoined, OnDesignate, NextIs, IsScene, tabVars
  <2> QED BY <1>1, <2>1, BringsLess
<1>4. CASE OnScene(p)
  <2>1. IsScene(e) /\ stage[p] \in {"loading", "open"} BY <1>4 DEF OnScene, NextIs, IsScene
  <2>2. e.value \in AllScenes BY <1>2, <2>1 DEF Events, IsScene
  <2>3. ~ \A i \in DOMAIN box : ~IsScene(box[i])
    <3>1. 1 \in DOMAIN box /\ e = box[1] BY <1>1, EmptySeq, LenProperties
    <3> QED BY <2>1, <3>1
  <2>4. CASE stage[p] = "open"
    <3>1. shown'[p] = Merge(shown[p], e.value) BY <1>1, <1>4, <2>4 DEF OnScene
    <3>2. /\ shown'[p] \in AllScenes /\ Covers(shown'[p], shown[p]) /\ Covers(shown'[p], e.value)
      BY <1>1, <2>2, <3>1, MergeIsScene, MergeCovers
    <3>3. Covers(shown[p], s) => Covers(shown'[p], s) BY <1>1, <3>2, CoversIsTransitive
    <3>4. Covers(e.value, s) => Covers(shown'[p], s) BY <2>2, <3>2, CoversIsTransitive
    <3>5. LastScene(box, s) => LastScene(Tail(box), s) \/ Covers(e.value, s) BY <1>1, SceneTaken
    <3> HIDE DEF box, e
    <3> QED BY <2>3, <3>3, <3>4, <3>5 DEF Brings
  <2>5. CASE stage[p] = "loading"
    <3>1. shown'[p] = shown[p] /\ held'[p] = e.value BY <1>1, <1>4, <2>5 DEF OnScene
    <3>2. e.value # NoScene BY <2>2, NoSceneAssumption
    <3>3. LastScene(box, s) => \/ LastScene(Tail(box), s)
                               \/ Covers(e.value, s) /\ \A i \in DOMAIN Tail(box) : ~IsScene(Tail(box)[i])
      BY <1>1, SceneTaken
    <3> HIDE DEF box, e
    <3> QED BY <2>3, <3>1, <3>2, <3>3 DEF Brings
  <2> QED BY <2>1, <2>4, <2>5
<1> QED BY <1>3, <1>4 DEF Deliver

\* The handlers: a join is answered with the whole scene, and a scene that
\* brings something new is to be sent on.
LEMMA OwesOfDeliver ==
    ASSUME SyncerInv, SenderInv, OwesInv, NEW p \in Pages, Deliver(p), NEW q \in Pages \ {p}
    PROVE  Owes(p, q)' /\ Owes(q, p)'
<1> DEFINE box == inbox[p]
           e == Head(box)
<1>1. /\ box # <<>> /\ box \in Seq(Events) /\ inbox[q] \in Seq(Events) /\ UNCHANGED <<members, sent, stage, lost>>
      /\ shown[p] \in AllScenes /\ shown[q] \in AllScenes /\ isSyncer[p] \in BOOLEAN
      /\ Owes(p, q) /\ Owes(q, p) /\ SenderOk(p)
  BY AtPage DEF Deliver, OnUserJoined, OnJoined, OnDesignate, OnScene, NextIs,
                serviceVars, tabVars, SenderInv, OwesInv
<1>2. /\ shown \in [Pages -> AllScenes] /\ isSyncer \in [Pages -> BOOLEAN] /\ due \in [Pages -> SUBSET Throttles]
      /\ inRoom \in [Pages -> BOOLEAN] /\ inbox \in [Pages -> Seq(Events)]
  BY DEF SyncerInv, CollabShape, TabShape, SocketShape, BoxesOk
<1>3. /\ Handled(p) \in [Pages -> Seq(Events)] /\ Handled(p)[q] = inbox[q] /\ Handled(p)[p] = Tail(box)
  BY <1>1, <1>2, HandledOk DEF Handled, BoxesOk
<1>4. \/ inbox' = Handled(p)
      \/ Broadcast(p, shown[p], Handled(p)) /\ UNCHANGED shown
  BY DEF Deliver, OnUserJoined, OnJoined, OnDesignate, OnScene, Rebroadcast, tabVars
<1>5. /\ inbox'[p] = Tail(box)
      /\ inbox'[q] = inbox[q] \/ \E x \in Events : inbox'[q] = Append(inbox[q], x)
  <2>1. CASE inbox' = Handled(p) BY <1>3, <2>1
  <2>2. CASE Broadcast(p, shown[p], Handled(p)) BY <1>1, <1>3, <2>2, BroadcastAt
  <2> QED BY <1>4, <2>1, <2>2
<1>6. Owes(q, p)' BY <1>1, <1>5, StillGets, StillOwed DEF Socket
<1>7. Owes(p, q)'
  <2> SUFFICES ASSUME stage[p] = "open", p \in members, q \in members
               PROVE  SendsAll(p)' \/ Gets(q, shown[p])' \/ Answers(inbox[p], isSyncer[p], q)'
    BY <1>1 DEF Owes, SendsAll
  <2>1. /\ lost'[q] = lost[q] /\ held'[q] = held[q] /\ shown'[q] = shown[q]
    BY OthersAsTheyWere DEF Socket
  <2>2. ASSUME Broadcast(p, shown[p], Handled(p)), UNCHANGED shown PROVE Gets(q, shown[p])'
    <3>1. Brings(inbox'[q], held'[q], shown'[q], shown[p]) BY <1>3, <2>2, WholeSceneComes
    <3> QED BY <2>2, <3>1 DEF Gets
  <2>3. ASSUME inbox' = Handled(p), shown'[p] = shown[p], Gets(q, shown[p]) PROVE Gets(q, shown[p])'
    BY <1>3, <2>1, <2>3 DEF Gets
  <2>4. SendsAll(p) => SendsAll(p)'
    <3>1. CASE OnJoined(p)
      <4>1. inRoom'[p] /\ "socket" \in due'[p] /\ due[p] \subseteq due'[p] BY <1>2, <3>1 DEF OnJoined
      <4> QED BY <1>1, <4>1 DEF SendsAll, SenderOk
    <3>2. CASE ~OnJoined(p)
      <4>1. UNCHANGED inRoom /\ due[p] \subseteq due'[p]
        BY <1>2, <3>2 DEF Deliver, OnUserJoined, OnDesignate, OnScene, tabVars
      <4> QED BY <1>1, <4>1 DEF SendsAll
    <3> QED BY <3>1, <3>2
  <2>5. shown'[p] = shown[p] \/ SendsAll(p)'
    <3>1. CASE OnScene(p)
      <4>1. shown'[p] = Merge(shown[p], e.value) /\ due'[p] = due[p] \cup OnRemoteChange(shown[p], shown'[p])
        BY <1>2, <3>1 DEF OnScene
      <4> QED BY <4>1 DEF SendsAll, OnRemoteChange, OnChange
    <3>2. CASE ~OnScene(p) BY <3>2 DEF Deliver, OnUserJoined, OnJoined, OnDesignate, tabVars
    <3> QED BY <3>1, <3>2
  <2>6. ASSUME Answers(box, isSyncer[p], q), shown'[p] = shown[p]
        PROVE  Gets(q, shown[p])' \/ Answers(inbox[p], isSyncer[p], q)'
    <3>1. isSyncer'[p] = IF IsRole(e) THEN e.value ELSE isSyncer[p]
      BY <1>2 DEF Deliver, OnUserJoined, OnJoined, OnDesignate, OnScene, NextIs, IsRole, Role
    <3>2. CASE Answers(Tail(box), isSyncer'[p], q) BY <1>5, <3>2
    <3>3. CASE e = Event("userJoined", q) /\ isSyncer[p] = TRUE
      <4>1. e.kind = "userJoined" BY <3>3 DEF Event
      <4>2. OnUserJoined(p) BY <4>1 DEF Deliver, OnUserJoined, OnJoined, OnDesignate, OnScene, NextIs
      <4>3. Broadcast(p, shown[p], Handled(p)) /\ UNCHANGED shown
        BY <3>3, <4>2 DEF OnUserJoined, Rebroadcast, tabVars
      <4> QED BY <2>2, <4>3
    <3> QED BY <1>1, <2>6, <3>1, <3>2, <3>3, AnswersLess
  <2>7. CASE Gets(q, shown[p]) /\ shown'[p] = shown[p] BY <1>4, <2>2, <2>3, <2>7
  <2>8. SendsAll(p) \/ Answers(box, isSyncer[p], q) \/ Gets(q, shown[p]) BY <1>1 DEF Owes
  <2> QED BY <2>4, <2>5, <2>6, <2>7, <2>8
<1> QED BY <1>6, <1>7

\* Every step keeps what the pages owe each other.
LEMMA OwesStep ==
    ASSUME SyncerInv, SenderInv, OwesInv, TwoPages, [CollabNext]_collabVars
    PROVE  SenderInv' /\ OwesInv'
<1>1. CASE UNCHANGED collabVars
  BY <1>1 DEF collabVars, serviceVars, tabVars, socketVars, traceVars, SenderInv, SenderOk,
              OwesInv, Owes, SendsAll, Gets
<1>2. CASE AnswerLate
  BY <1>2 DEF AnswerLate, tabVars, socketVars, SenderInv, SenderOk, OwesInv, Owes, SendsAll, Gets
<1>3. ASSUME NEW p \in Pages, Tab(p) \/ Socket(p) PROVE SenderInv' /\ OwesInv'
  <2>1. SenderInv' BY <1>3, SenderStep
  <2>2. ASSUME NEW q \in Pages \ {p} PROVE Owes(p, q)' /\ Owes(q, p)'
    BY <1>3, <2>2, OwesOfChanges, OwesOfSaves, OwesOfSends, OwesOfJoin, OwesOfAbsent, OwesOfDeliver DEF Tab, Socket
  <2>3. OwesInv'
    <3> SUFFICES ASSUME NEW r \in Pages, NEW s \in Pages, r # s PROVE Owes(r, s)'
      BY DEF OwesInv
    <3>1. r = p \/ s = p BY DEF TwoPages
    <3> QED BY <2>2, <3>1
  <2> QED BY <2>1, <2>3
<1> QED BY <1>1, <1>2, <1>3 DEF CollabNext

\* Nobody owes anything at first.
LEMMA OwesAtFirst == CollabInit => SenderInv /\ OwesInv
BY DEF CollabInit, SenderInv, SenderOk, OwesInv, Owes

-----------------------------------------------------------------------------
(***************************************************************************)
(* What the board lacks of the scene of the page that put it: a PUT under  *)
(* way, or a save to come, has it.                                         *)
(***************************************************************************)
PutterOk(p) ==
    /\ putter = p \/ putting[p] # <<>> => stage[p] \in {"open", "leaving"}
    /\ stage[p] = "open" /\ p \notin unsent /\ "server" \notin due[p]
       => IF putting[p] # <<>> THEN Last(putting[p]) = shown[p]
          ELSE putter = p => board = shown[p]

PutterInv == \A p \in Pages : PutterOk(p)

\* When nothing is due and no PUT is under way, the board is what the page
\* shows that put it last, if its last call to save was neither skipped nor
\* failed.
PutterIsServed ==
    Settled({"server", "socket", "heal"}) /\ putter # None /\ putter \notin unsent /\ putting[putter] = <<>>
    => board = shown[putter]

\* Every step of a page keeps track of what is left to save.
LEMMA PutterStep ==
    ASSUME SyncerInv, SenderInv, PutterInv, NEW p \in Pages, Tab(p) \/ Socket(p)
    PROVE  PutterInv'
<1>1. /\ stage \in [Pages -> Stages] /\ shown \in [Pages -> AllScenes] /\ putting \in [Pages -> Seq(AllScenes)]
      /\ unsent \subseteq Pages /\ due \in [Pages -> SUBSET Throttles] /\ PutterOk(p)
  BY DEF PutterInv, SyncerInv, CollabShape, TabShape, ServiceShape
<1>2. ASSUME NEW q \in Pages \ {p} PROVE PutterOk(q)'
  <2>1. /\ stage'[q] = stage[q] /\ shown'[q] = shown[q] /\ due'[q] = due[q] /\ putting'[q] = putting[q]
        /\ PutterOk(q)
    BY OthersAsTheyWere DEF PutterInv
  <2>2. (putter' = q => putter = q /\ board' = board) /\ (q \in unsent <=> q \in unsent')
    BY CollabAssumption
       DEF Tab, Socket, Enter, Mount, Draw, SyncToServer, Answer, SyncViaSocket, Heal, Hide, Leave,
           Vanish, Connect, Join, Break, Notice, Deliver, serviceVars, traceVars
  <2> QED BY <2>1, <2>2 DEF PutterOk
<1>3. PutterOk(p)'
  <2>1. CASE Enter(p) BY <1>1, <2>1 DEF Enter, PutterOk, serviceVars
  <2>2. CASE Mount(p) \/ Draw(p)
    BY <1>1, <2>2 DEF Mount, Draw, OnChange, PutterOk, serviceVars, traceVars
  <2>3. CASE SyncToServer(p)
    <3>1. stage[p] = "open" /\ UNCHANGED <<stage, shown, board, putter>>
      BY <2>3 DEF SyncToServer, serviceVars
    <3>2. CASE Len(putting[p]) < MaxSaves /\ putting' = Posts(p) BY <3>1, <3>2, PostsOk DEF PutterOk
    <3>3. CASE p \in unsent' /\ UNCHANGED putting BY <3>1, <3>3 DEF PutterOk
    <3> QED BY <2>3, <3>2, <3>3 DEF SyncToServer
  <2>4. CASE Answer(p)
    <3>1. putting[p] # <<>> /\ putting'[p] = Tail(putting[p]) /\ UNCHANGED <<stage, shown, due>>
      BY <1>1, <2>4 DEF Answer
    <3>2. stage[p] \in {"open", "leaving"} BY <1>1, <3>1 DEF PutterOk
    <3>3. IF Tail(putting[p]) = <<>> THEN Head(putting[p]) = Last(putting[p])
          ELSE Last(Tail(putting[p])) = Last(putting[p])
      BY <3>1, AtPage, OneSaveLess
    <3>4. p \in unsent => p \in unsent' BY <2>4 DEF Answer
    <3>5. Tail(putting[p]) = <<>> => board' = Head(putting[p]) \/ p \in unsent' BY <2>4 DEF Answer
    <3> QED BY <1>1, <3>1, <3>2, <3>3, <3>4, <3>5 DEF PutterOk
  <2>5. CASE SyncViaSocket(p) \/ Heal(p)
    BY <1>1, <2>5 DEF SyncViaSocket, Heal, PutterOk, serviceVars, traceVars
  <2>6. CASE Hide(p)
    <3>1. stage[p] = "open" /\ UNCHANGED <<stage, shown, board, putter>> BY <2>6 DEF Hide, serviceVars
    <3>2. CASE Len(putting[p]) < MaxSaves /\ putting' = Posts(p) BY <3>1, <3>2, PostsOk DEF PutterOk
    <3>3. CASE UNCHANGED <<putting, unsent>> /\ due' = [due EXCEPT ![p] = @ \ {"socket"}]
      BY <1>1, <3>1, <3>3 DEF PutterOk
    <3> QED BY <2>6, <3>2, <3>3 DEF Hide
  <2>7. CASE Leave(p)
    BY <1>1, <2>7 DEF Leave, PutterOk
  <2>8. CASE Vanish(p)
    BY <1>1, <2>8, CollabAssumption DEF Vanish, PutterOk
  <2>9. CASE Connect(p) \/ Join(p) \/ Break(p) \/ Notice(p)
    BY <1>1, <2>9 DEF Connect, Join, Break, Notice, PutterOk, serviceVars, tabVars, traceVars
  <2>10. CASE Deliver(p)
    <3>1. /\ UNCHANGED <<stage, putting, board, putter, unsent>> /\ due[p] \subseteq due'[p]
          /\ shown'[p] = shown[p] \/ stage[p] # "open" \/ "server" \in due'[p]
      BY <1>1, <2>10
         DEF Deliver, OnUserJoined, OnJoined, OnDesignate, OnScene, OnRemoteChange, OnChange,
             serviceVars, tabVars
    <3> QED BY <1>1, <3>1 DEF PutterOk
  <2> QED BY <2>1, <2>2, <2>3, <2>4, <2>5, <2>6, <2>7, <2>8, <2>9, <2>10 DEF Tab, Socket
<1> QED BY <1>2, <1>3 DEF PutterInv

\* What is left to save is known throughout, for any number of pages.
LEMMA SavesAreInv == CollabSpec => [](SyncerInv /\ SenderInv /\ PutterInv)
<1>1. CollabInit => SyncerInv /\ SenderInv /\ PutterInv
  BY CollabAtFirst, OwesAtFirst, CollabAssumption DEF CollabInit, PutterInv, PutterOk
<1>2. SyncerInv /\ SenderInv /\ PutterInv /\ [CollabNext]_collabVars => (SyncerInv /\ SenderInv /\ PutterInv)'
  <2> SUFFICES ASSUME SyncerInv, SenderInv, PutterInv, [CollabNext]_collabVars
               PROVE  SyncerInv' /\ SenderInv' /\ PutterInv'
    OBVIOUS
  <2>1. CASE UNCHANGED collabVars
    BY <2>1, CollabStep DEF collabVars, serviceVars, tabVars, socketVars, traceVars, SenderInv, SenderOk,
                            PutterInv, PutterOk
  <2>2. CASE AnswerLate
    <3>1. SenderInv' BY <2>2 DEF AnswerLate, tabVars, socketVars, SenderInv, SenderOk
    <3>2. PutterInv' BY <2>2, CollabAssumption DEF AnswerLate, tabVars, PutterInv, PutterOk
    <3> QED BY <3>1, <3>2, CollabStep
  <2>3. ASSUME NEW p \in Pages, Tab(p) \/ Socket(p) PROVE SyncerInv' /\ SenderInv' /\ PutterInv'
    BY <2>3, CollabStep, SenderStep, PutterStep
  <2> QED BY <2>1, <2>2, <2>3 DEF CollabNext
<1> QED BY <1>1, <1>2, PTL DEF CollabSpec

\* With two pages, what they owe each other is known as well.
LEMMA DebtsAreInv ==
    ASSUME TwoPages
    PROVE  CollabSpec => [](SyncerInv /\ SenderInv /\ OwesInv)
<1>1. CollabInit => SyncerInv /\ SenderInv /\ OwesInv BY CollabAtFirst, OwesAtFirst
<1>2. SyncerInv /\ SenderInv /\ OwesInv /\ [CollabNext]_collabVars => (SyncerInv /\ SenderInv /\ OwesInv)'
  BY CollabStep, OwesStep
<1> QED BY <1>1, <1>2, PTL DEF CollabSpec

\* A page with nothing to send and nothing to hear has nothing another lacks.
LEMMA SettledHasIt ==
    ASSUME SyncerInv, SenderInv, OwesInv, NEW p \in Pages, NEW q \in Pages, p # q,
           Calm(p), Calm(q), due[p] \cap {"socket", "heal"} = {}, ~lost[q]
    PROVE  Covers(shown[q], shown[p])
<1>1. /\ stage[p] = "open" /\ stage[q] = "open" /\ inRoom[p] /\ p \in members /\ q \in members
      /\ inbox[p] = <<>> /\ inbox[q] = <<>>
  BY DEF Calm, InTheRoom
<1>2. ~SendsAll(p) BY <1>1 DEF SendsAll
<1>3. DOMAIN inbox[p] = {} /\ DOMAIN inbox[q] = {} BY <1>1
<1>4. ~Answers(inbox[p], isSyncer[p], q) BY <1>3 DEF Answers
<1>5. Gets(q, shown[p]) BY <1>1, <1>2, <1>4 DEF OwesInv, Owes
<1>6. held[q] = NoScene BY <1>1 DEF SyncerInv, CollabShape, TabShape
<1> QED BY <1>3, <1>5, <1>6 DEF Gets, Brings, LastScene

\* Two pages that share a board show one scene when nothing is due or on its
\* way: whatever a page missed while it loaded, joined or was cut off comes
\* with the answer to its join, the other's first broadcast after a join, or
\* the healing of a change.
THEOREM PagesConverge ==
    ASSUME TwoPages
    PROVE  CollabSpec => []SettledConverged
<1>1. ASSUME SyncerInv, SenderInv, OwesInv PROVE SettledConverged
  <2> SUFFICES ASSUME Settled({"socket", "heal"}), NEW p \in Pages, NEW q \in Pages, stage[p] = "open",
                      stage[q] = "open", ~lost[p], ~lost[q]
               PROVE  shown[p] = shown[q]
    BY DEF SettledConverged
  <2>1. CASE p = q BY <2>1
  <2>2. CASE p # q
    <3>1. /\ Calm(p) /\ due[p] \cap {"socket", "heal"} = {}
          /\ Calm(q) /\ due[q] \cap {"socket", "heal"} = {}
      BY DEF Settled
    <3>2. Covers(shown[q], shown[p]) /\ Covers(shown[p], shown[q]) BY <1>1, <2>2, <3>1, SettledHasIt
    <3> QED BY <1>1, <3>2, AtPage, CoversIsAntisymmetric
  <2> QED BY <2>1, <2>2
<1> QED BY <1>1, DebtsAreInv, PTL

\* For any number of pages, the service serves what the page shows that put
\* it last, once nothing of that page is due or under way.
THEOREM PutterIsServedAlways == CollabSpec => []PutterIsServed
<1>1. ASSUME SyncerInv, PutterInv PROVE PutterIsServed
  <2> SUFFICES ASSUME Settled({"server", "socket", "heal"}), putter # None, putter \notin unsent, putting[putter] = <<>>
               PROVE  board = shown[putter]
    BY DEF PutterIsServed
  <2>1. putter \in Pages BY <1>1 DEF SyncerInv, CollabShape, ServiceShape
  <2>2. stage[putter] \in {"open", "leaving"} BY <1>1, <2>1 DEF PutterInv, PutterOk
  <2>3. stage[putter] = "open" /\ "server" \notin due[putter]
    BY <2>1, <2>2 DEF Settled, Calm, InTheRoom
  <2> QED BY <1>1, <2>1, <2>3 DEF PutterInv, PutterOk
<1> QED BY <1>1, SavesAreInv, PTL

\* Of two pages nothing is left unsaved when nothing is due: the page whose
\* PUT is served has saved what it shows, and it shows all the other does.
THEOREM SettledIsSavedOfTwo ==
    ASSUME TwoPages
    PROVE  CollabSpec => []SettledIsSaved
<1>1. ASSUME SyncerInv, SenderInv, OwesInv, PutterIsServed, PutterInv PROVE SettledIsSaved
  <2> SUFFICES ASSUME Settled({"server", "socket", "heal"}), \A p \in Pages : putting[p] = <<>> /\ ~lost[p],
                      putter # None, putter \notin unsent, NEW p \in Pages, stage[p] = "open"
               PROVE  Covers(board, shown[p])
    BY DEF SettledIsSaved
  <2>1. putter \in Pages BY <1>1 DEF SyncerInv, CollabShape, ServiceShape
  <2>2. board = shown[putter] BY <1>1, <2>1 DEF PutterIsServed
  <2>3. CASE putter = p BY <1>1, <2>2, <2>3, AtPage, CoversItself
  <2>4. CASE putter # p
    <3>1. stage[putter] # "closed" BY <1>1, <2>1 DEF PutterInv, PutterOk
    <3>2. Calm(p) /\ Calm(putter) /\ due[p] \cap {"socket", "heal"} = {} BY <2>1, <3>1 DEF Settled
    <3>3. Covers(shown[putter], shown[p]) BY <1>1, <2>1, <2>4, <3>2, SettledHasIt
    <3> QED BY <2>2, <3>3
  <2> QED BY <2>3, <2>4
<1> QED BY <1>1, DebtsAreInv, SavesAreInv, PutterIsServedAlways, PTL

=============================================================================
