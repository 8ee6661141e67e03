---------------------------- MODULE ReplicaProofs ----------------------------
(***************************************************************************)
(* Theorems about Replicas, for any number of replicas, any scores and any *)
(* order of DNS answers, requests and saves.                               *)
(***************************************************************************)
EXTENDS Replicas, WellFoundedInduction, TLAPS

-----------------------------------------------------------------------------
(***************************************************************************)
(* The owner.                                                              *)
(***************************************************************************)
\* A set of numbers has a least one.
LEMMA LeastScore ==
    ASSUME NEW T \in SUBSET Nat, T # {}
    PROVE  \E i \in T : \A j \in T : i <= j
<1>1. PICK i \in T : \A j \in T : ~(<<j, i>> \in OpToRel(<, Nat))
  BY NatLessThanWellFounded, WFMin
<1>2. \A j \in T : ~(j < i) BY <1>1 DEF OpToRel
<1> QED BY <1>2

\* Scores are bounded, so a set of peers has one that no other exceeds.
LEMMA OwnerIsPeer ==
    ASSUME NEW S \in SUBSET Replicas, S # {}
    PROVE  Rendezvous(S) \in S
<1> DEFINE lacks == {MaxScore - Rank[p] : p \in S}
           Best(p) == \A q \in S : Rank[q] <= Rank[p]
<1>1. \A p \in Replicas : Rank[p] \in Nat /\ Rank[p] <= MaxScore BY ReplicaConstants
<1>2. lacks \in SUBSET Nat /\ lacks # {} BY <1>1, ReplicaConstants
<1>3. PICK i \in lacks : \A j \in lacks : i <= j
  <2> HIDE DEF lacks
  <2> QED BY <1>2, LeastScore
<1>4. PICK p \in S : i = MaxScore - Rank[p] OBVIOUS
<1>5. Best(p)
  <2> SUFFICES ASSUME NEW q \in S PROVE Rank[q] <= Rank[p] OBVIOUS
  <2>1. MaxScore - Rank[p] <= MaxScore - Rank[q] BY <1>3, <1>4
  <2> QED BY <2>1, <1>1, ReplicaConstants
<1>6. (CHOOSE p2 \in S : Best(p2)) \in S BY <1>5
<1> QED BY <1>6 DEF Rendezvous

RequestSteps == {"route", "forward", "authenticate", "store", "stored", "misdirected", "failed"}

\* The views are of replicas there are, and a request is at one.
ViewTypes ==
    /\ ready \in SUBSET Replicas
    /\ snapshot \in [Replicas -> SUBSET Replicas]
    /\ inbound \in [step : RequestSteps, at : Replicas, hopped : BOOLEAN]

\* Owner names a replica, itself if it has heard of none.
LEMMA OwnerIsReplica ==
    ASSUME ViewTypes, NEW r \in Replicas
    PROVE  Owner(r) \in Replicas
<1>1. snapshot[r] \in SUBSET Replicas BY DEF ViewTypes
<1>2. CASE snapshot[r] = {} BY <1>2 DEF Owner
<1>3. CASE snapshot[r] # {} BY <1>1, <1>3, OwnerIsPeer DEF Owner
<1> QED BY <1>2, <1>3

-----------------------------------------------------------------------------
(***************************************************************************)
(* Where a request is served.                                              *)
(***************************************************************************)
\* While the views agree, a replica that has decided to serve a request is its
\* owner, and so is the one a request has been forwarded to; a replica about
\* to forward one has not been forwarded it.
ServeInv ==
    /\ ViewTypes
    /\ steady =>
        /\ Agreed(snapshot)
        /\ inbound.step # "misdirected"
        /\ inbound.step \in {"authenticate", "store", "stored"} => IsSelf(inbound.at)
        /\ inbound.step = "forward" => ~inbound.hopped
        /\ inbound.step = "route" /\ inbound.hopped => IsSelf(inbound.at)

\* No request is under way at first.
LEMMA ServeInit == ReplicaInit => ServeInv
<1>1. (CHOOSE r \in Replicas : TRUE) \in Replicas BY ReplicaConstants
<1> QED BY <1>1, ReplicaConstants DEF ReplicaInit, ServeInv, ViewTypes, Inbound, RequestSteps

\* The steps of discovery: the views no longer agree, or nothing has changed.
LEMMA DiscoveryServes ==
    ASSUME ServeInv, NEW r \in Replicas, Move \/ ResolveOnce(r) \/ Restart(r)
    PROVE  ServeInv'
<1>1. CASE Move
  <2>1. UNCHANGED <<snapshot, inbound, steady>> /\ ready' \in SUBSET Replicas
    BY <1>1 DEF Move
  <2> QED BY <2>1 DEF ServeInv, ViewTypes, Agreed, IsSelf, Owner, RequestSteps
<1>2. CASE ResolveOnce(r)
  <2>1. /\ snapshot' = [snapshot EXCEPT ![r] = ready]
        /\ UNCHANGED <<inbound, ready>> /\ UnlessViewsChange
    BY <1>2 DEF ResolveOnce
  <2>2. ViewTypes' BY <2>1 DEF ServeInv, ViewTypes
  <2>3. steady' => steady /\ UNCHANGED snapshot BY <2>1 DEF UnlessViewsChange
  <2> QED BY <2>1, <2>2, <2>3 DEF ServeInv, Agreed, IsSelf, Owner, RequestSteps
<1>3. CASE Restart(r)
  <2>1. /\ snapshot' = [snapshot EXCEPT ![r] = {}]
        /\ inbound' = IF inbound.at = r THEN Inbound("failed", r, FALSE) ELSE inbound
        /\ UNCHANGED ready /\ UnlessViewsChange
    BY <1>3 DEF Restart
  <2>2. ViewTypes' BY <2>1 DEF ServeInv, ViewTypes, Inbound, RequestSteps
  <2>3. steady' => steady /\ UNCHANGED snapshot BY <2>1 DEF UnlessViewsChange
  <2>4. CASE inbound.at = r
    BY <2>1, <2>2, <2>3, <2>4 DEF ServeInv, Agreed, Inbound
  <2>5. CASE inbound.at # r
    BY <2>1, <2>2, <2>3, <2>5 DEF ServeInv, Agreed, IsSelf, Owner, RequestSteps
  <2> QED BY <2>4, <2>5
<1> QED BY <1>1, <1>2, <1>3

\* The steps of a request.
LEMMA RequestServes ==
    ASSUME ServeInv,
           Route \/ Forward \/ Authenticate \/ StoreScene
             \/ \E r \in Replicas : Send(r)
    PROVE  ServeInv'
<1>1. CASE \E r \in Replicas : Send(r)
  <2> PICK r \in Replicas : Send(r) BY <1>1
  <2> QED BY DEF Send, ServeInv, ViewTypes, Inbound, Agreed, RequestSteps
<1>2. CASE Route
  <2>1. /\ inbound.step = "route"
        /\ inbound' = [inbound EXCEPT !.step = IF IsSelf(inbound.at) THEN "authenticate" ELSE "forward"]
        /\ UNCHANGED <<ready, snapshot, steady>>
    BY <1>2 DEF Route, Steps
  <2> QED BY <2>1 DEF ServeInv, ViewTypes, Agreed, IsSelf, Owner, RequestSteps
<1>3. CASE Authenticate
  <2>1. /\ inbound.step = "authenticate"
        /\ inbound' = [inbound EXCEPT !.step = IF IsSelf(inbound.at) THEN "store" ELSE "misdirected"]
        /\ UNCHANGED <<ready, snapshot, steady>>
    BY <1>3 DEF Authenticate, Steps
  <2> QED BY <2>1 DEF ServeInv, ViewTypes, Agreed, IsSelf, Owner, RequestSteps
<1>4. CASE StoreScene
  <2>1. /\ inbound.step = "store" /\ inbound' = [inbound EXCEPT !.step = "stored"]
        /\ UNCHANGED <<ready, snapshot, steady>>
    BY <1>4 DEF StoreScene, Steps
  <2> QED BY <2>1 DEF ServeInv, ViewTypes, Agreed, IsSelf, Owner, RequestSteps
<1>5. CASE Forward
  <2>1. inbound.step = "forward" /\ UNCHANGED <<ready, snapshot, steady>>
    BY <1>5 DEF Forward
  <2>2. CASE ~inbound.hopped /\ inbound' = Inbound("route", Owner(inbound.at), TRUE)
    <3>1. inbound.at \in Replicas BY DEF ServeInv, ViewTypes
    <3>2. Owner(inbound.at) \in Replicas BY <3>1, OwnerIsReplica DEF ServeInv
    <3>3. ViewTypes' BY <2>1, <2>2, <3>2 DEF ServeInv, ViewTypes, Inbound, RequestSteps
    <3>4. steady => Owner(Owner(inbound.at)) = Owner(inbound.at)
      BY <3>1, <3>2 DEF ServeInv, Agreed, Owner
    <3> QED BY <2>1, <2>2, <3>3, <3>4 DEF ServeInv, Agreed, IsSelf, Owner, RequestSteps, Inbound
  <2>3. CASE inbound.hopped /\ inbound' = [inbound EXCEPT !.step = "misdirected"]
    BY <2>1, <2>3 DEF ServeInv, ViewTypes, RequestSteps
  <2>4. CASE inbound' = [inbound EXCEPT !.step = "failed"]
    BY <2>1, <2>4 DEF ServeInv, ViewTypes, Agreed, RequestSteps
  <2> QED BY <1>5, <2>2, <2>3, <2>4 DEF Forward
<1> QED BY <1>1, <1>2, <1>3, <1>4, <1>5

\* The steps of the rooms do not move requests.
LEMMA RoomsServe ==
    ASSUME ServeInv, NEW r \in Replicas,
           BeginSave(r) \/ PutFile(r) \/ CheckDrift(r) \/ DropRoom(r)
    PROVE  ServeInv'
<1>1. UNCHANGED <<ready, snapshot, inbound, steady>>
  BY DEF BeginSave, PutFile, CheckDrift, DropRoom, Changes
<1> QED BY <1>1 DEF ServeInv, ViewTypes, Agreed, IsSelf, Owner, RequestSteps

\* Whatever step is taken.
LEMMA ServeStep == ServeInv /\ [ReplicaNext]_replicaVars => ServeInv'
<1>1. ServeInv /\ UNCHANGED replicaVars => ServeInv'
  BY DEF replicaVars, ServeInv, ViewTypes, Agreed, IsSelf, Owner, RequestSteps
<1> QED BY <1>1, DiscoveryServes, RequestServes, RoomsServe, ReplicaConstants DEF ReplicaNext

\* While the replicas agree who there is, whichever of them a request comes in
\* at, the owner they name stores it and nobody answers that they disagree:
\* the second and the third look at the snapshots find what the first did.
THEOREM OwnerServes == ReplicaSpec => []AgreedViewsServe
<1>1. ServeInv => AgreedViewsServe
  BY DEF ServeInv, ViewTypes, AgreedViewsServe, Agreed, IsSelf, Owner, RequestSteps
<1> QED BY <1>1, ServeInit, ServeStep, PTL DEF ReplicaSpec

-----------------------------------------------------------------------------
(***************************************************************************)
(* The file.                                                               *)
(***************************************************************************)
RoomRecords == [scene : Nat, dirty : BOOLEAN, body : Nat, expected : Nat, conflict : BOOLEAN]

\* What a room may believe of the file: it expects no version the file has not
\* had, and if it expects the one there is and has nothing to save, the file has
\* its scene.
Believes(room, f) ==
    /\ room.expected <= f.version
    /\ room.scene # 0 /\ ~room.dirty /\ room.expected = f.version => f.scene = room.scene

BeliefInv ==
    /\ posts \in Nat
    /\ rooms \in [Replicas -> RoomRecords]
    /\ file \in [scene : Nat, version : Nat]
    /\ \A r \in Replicas : Believes(rooms[r], file)

\* The rooms are empty at first.
LEMMA BeliefInit == ReplicaInit => BeliefInv
BY DEF ReplicaInit, BeliefInv, Believes, NoRoom, RoomRecords

\* A step that leaves the file alone and changes one room, which still believes
\* what it may.
LEMMA OneRoomChanges ==
    ASSUME BeliefInv, NEW r \in Replicas, NEW room \in RoomRecords, Believes(room, file),
           rooms' = [rooms EXCEPT ![r] = room], UNCHANGED file, posts' \in Nat
    PROVE  BeliefInv'
<1>1. rooms' \in [Replicas -> RoomRecords] BY DEF BeliefInv
<1>2. \A p \in Replicas : Believes(rooms'[p], file) BY DEF BeliefInv
<1> QED BY <1>1, <1>2 DEF BeliefInv, Believes

\* A room that is forgotten believes nothing.
LEMMA NoRoomBelieves ==
    ASSUME BeliefInv
    PROVE  NoRoom \in RoomRecords /\ Believes(NoRoom, file)
BY DEF BeliefInv, NoRoom, RoomRecords, Believes

\* Discovery and routing leave rooms and file alone, but for a restart.
LEMMA RequestBelieves ==
    ASSUME BeliefInv, ViewTypes,
           \/ Move \/ Route \/ Forward \/ Authenticate \/ StoreScene
           \/ \E r \in Replicas : ResolveOnce(r) \/ Restart(r) \/ Send(r)
    PROVE  BeliefInv'
<1>1. CASE \/ Move \/ Route \/ Forward \/ Authenticate
           \/ \E r \in Replicas : ResolveOnce(r) \/ Send(r)
  <2>1. UNCHANGED <<rooms, file>>
    BY <1>1 DEF Move, Route, Forward, Authenticate, ResolveOnce, Send, Steps
  <2>2. posts' = posts \/ posts' = posts + 1
    BY <1>1 DEF Move, Route, Forward, Authenticate, ResolveOnce, Send, Steps
  <2> QED BY <2>1, <2>2 DEF BeliefInv, Believes
<1>2. CASE \E r \in Replicas : Restart(r)
  <2> PICK r \in Replicas : Restart(r) BY <1>2
  <2>1. rooms' = [rooms EXCEPT ![r] = NoRoom] /\ UNCHANGED <<file, posts>> BY DEF Restart
  <2> QED BY <2>1, NoRoomBelieves, OneRoomChanges DEF BeliefInv
<1>3. CASE StoreScene
  <2> DEFINE at == inbound.at
             room == [rooms[at] EXCEPT !.scene = posts, !.dirty = TRUE]
  <2>1. at \in Replicas BY DEF ViewTypes
  <2>2. rooms' = [rooms EXCEPT ![at] = room] /\ UNCHANGED <<file, posts>>
    BY <1>3, <2>1 DEF StoreScene, Steps, BeliefInv, RoomRecords
  <2>3. room \in RoomRecords /\ Believes(room, file)
    BY <2>1 DEF BeliefInv, RoomRecords, Believes
  <2> HIDE DEF at, room
  <2> QED BY <2>1, <2>2, <2>3, OneRoomChanges DEF BeliefInv
<1> QED BY <1>1, <1>2, <1>3

\* A save that reaches the file makes a version nobody has expected yet: every
\* other room's belief is about an earlier one.
LEMMA PutBelieves ==
    ASSUME BeliefInv, NEW r \in Replicas, PutFile(r)
    PROVE  BeliefInv'
<1> DEFINE written == [scene |-> rooms[r].body, version |-> file.version + 1]
           unsaved == [rooms[r] EXCEPT !.body = 0]
           saved == Recorded(rooms[r], written.version)
<1>0. rooms[r] \in RoomRecords /\ file \in [scene : Nat, version : Nat] /\ Believes(rooms[r], file)
  BY DEF BeliefInv
<1>1. unsaved \in RoomRecords /\ saved \in RoomRecords
  <2>1. unsaved \in RoomRecords BY <1>0 DEF RoomRecords
  <2> DEFINE record(d) == [rooms[r] EXCEPT !.body = 0, !.expected = written.version, !.dirty = d]
  <2>0. written.version \in Nat BY <1>0
  <2>2. \A d \in BOOLEAN : record(d) \in RoomRecords
    <3> HIDE DEF written
    <3> QED BY <1>0, <2>0 DEF RoomRecords
  <2>3. \E d \in BOOLEAN : saved = record(d)
    <3>1. (rooms[r].scene # rooms[r].body) \in BOOLEAN OBVIOUS
    <3> WITNESS (rooms[r].scene # rooms[r].body) \in BOOLEAN
    <3> QED BY DEF Recorded
  <2> QED BY <2>1, <2>2, <2>3
<1>2. Believes(unsaved, file) /\ Believes(unsaved, written) /\ Believes(saved, written)
  <2>1. Believes(unsaved, file) /\ Believes(unsaved, written)
    BY <1>0 DEF RoomRecords, Believes
  <2>2. /\ saved.expected = file.version + 1 /\ saved.scene = rooms[r].scene
        /\ saved.dirty = (rooms[r].scene # rooms[r].body)
    BY <1>0 DEF RoomRecords, Recorded
  <2>3. Believes(saved, written)
    <3>1. file.version + 1 <= file.version + 1 /\ written.version = file.version + 1
          /\ written.scene = rooms[r].body
      BY <1>0
    <3>2. ~saved.dirty => rooms[r].body = rooms[r].scene BY <2>2
    <3> HIDE DEF saved, written
    <3> QED BY <2>2, <3>1, <3>2 DEF Believes
  <2> QED BY <2>1, <2>3
<1>3. posts' = posts BY DEF PutFile, Changes
<1>4. CASE file' = file /\ rooms' = [rooms EXCEPT ![r] = unsaved]
  <2> HIDE DEF unsaved
  <2> QED BY <1>1, <1>2, <1>3, <1>4, OneRoomChanges DEF BeliefInv
<1>5. ASSUME NEW room \in {saved, unsaved}, file' = written, rooms' = [rooms EXCEPT ![r] = room]
      PROVE  BeliefInv'
  <2>1. room \in RoomRecords /\ Believes(room, written) BY <1>1, <1>2
  <2>2. rooms' \in [Replicas -> RoomRecords] BY <1>5, <2>1 DEF BeliefInv
  <2>3. file' \in [scene : Nat, version : Nat] BY <1>5 DEF BeliefInv, RoomRecords
  <2>4. ASSUME NEW p \in Replicas PROVE Believes(rooms'[p], file')
    <3>1. CASE p = r BY <1>5, <2>1, <3>1 DEF BeliefInv
    <3>2. CASE p # r
      <4>1. rooms'[p] = rooms[p] /\ rooms[p] \in RoomRecords BY <1>5, <3>2 DEF BeliefInv
      <4>2. rooms[p].expected <= file.version /\ file.version \in Nat
        BY DEF BeliefInv, Believes
      <4> QED BY <1>5, <4>1, <4>2 DEF Believes, RoomRecords
    <3> QED BY <3>1, <3>2
  <2> QED BY <1>3, <2>2, <2>3, <2>4 DEF BeliefInv, Believes
<1> QED BY <1>4, <1>5 DEF PutFile, Changes

\* The other steps of a room.
LEMMA RoomBelieves ==
    ASSUME BeliefInv, NEW r \in Replicas, BeginSave(r) \/ CheckDrift(r) \/ DropRoom(r)
    PROVE  BeliefInv'
<1> DEFINE begun == [rooms[r] EXCEPT !.body = rooms[r].scene]
           drifted == Drifted(rooms[r])
<1>1. UNCHANGED <<file, posts>> BY DEF BeginSave, CheckDrift, DropRoom, Changes
<1>2. ASSUME NEW room \in {begun, drifted, NoRoom}
      PROVE  room \in RoomRecords /\ Believes(room, file)
  BY NoRoomBelieves DEF BeliefInv, RoomRecords, Drifted, Believes
<1>3. PICK room \in {begun, drifted, NoRoom} : rooms' = [rooms EXCEPT ![r] = room]
  BY DEF BeginSave, CheckDrift, DropRoom, Changes
<1> QED BY <1>1, <1>2, <1>3, OneRoomChanges DEF BeliefInv

\* The owner of a moment may save and another replica save over it, under the
\* same lock value: whoever has lost is in conflict, has more to save, or has
\* another version than the one it expects and will see it at its next check.
THEOREM LosersFindOut == ReplicaSpec => []NoSilentLoser
<1>1. ServeInv /\ BeliefInv /\ [ReplicaNext]_replicaVars => ServeInv' /\ BeliefInv'
  <2>1. BeliefInv /\ UNCHANGED replicaVars => BeliefInv'
    BY DEF replicaVars, BeliefInv, Believes
  <2>2. ServeInv => ViewTypes BY DEF ServeInv
  <2>3. ServeInv /\ [ReplicaNext]_replicaVars => ServeInv' BY ServeStep
  <2> QED BY <2>1, <2>2, <2>3, RequestBelieves, PutBelieves, RoomBelieves DEF ReplicaNext
<1>2. BeliefInv => NoSilentLoser
  BY DEF BeliefInv, Believes, NoSilentLoser
<1> QED BY <1>1, <1>2, ServeInit, BeliefInit, PTL DEF ReplicaSpec

=============================================================================
