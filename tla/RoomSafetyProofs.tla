-------------------------- MODULE RoomSafetyProofs --------------------------
(***************************************************************************)
(* The safety invariants of Room: each follows from an inductive invariant *)
(* that says what a pass still relies on while one of its calls is on its  *)
(* way to the host.                                                        *)
(***************************************************************************)
EXTENDS RoomProofs

USE DEF sceneVars, tokenVars, lockVars, checkVars, conflictVars, saveVars, lifeVars,
        roomVars, callVars, worldVars, decisionVars, vars

-----------------------------------------------------------------------------
(***************************************************************************)
(* The inductive invariants.                                               *)
(***************************************************************************)
PutReplies == {"putReply", "unlockedPutReply"}
Putting == {"put", "unlockedPut"} \cup PutReplies
Attempting == {"ensure", "acquire", "relockReply", "lockReply"} \cup Putting

\* Only a save puts, and a save under way is not in a conflict.
PauseInv ==
    /\ pass.pc \in {"refresh", "refreshReply"} => pass.task = "refresh"
    /\ pass.pc \in Putting => Saving
    /\ (pass.pc \in Attempting /\ Saving) => ~conflict

\* A save under way sends the scene it was started with, and a put that was
\* acknowledged has put it there.
SavedInv ==
    /\ CleanMeansSaved
    /\ (pass.pc \in Attempting /\ Saving) =>
          /\ dirty
          /\ pass.seq <= sceneSeq
          /\ pass.seq = sceneSeq => scene = pass.body
    /\ (pass.pc \in PutReplies /\ Got("ok")) =>
          /\ pass.reply.version = Body(pass.body)
          /\ strangers = 0 => file.content = Body(pass.body)

\* As long as nobody else touches the file and no put is lost, the host has
\* the expected version, except while the answer to a put is on its way.
CauseInv ==
    /\ strangers = 0 => (file.lock \notin OtherLocks /\ pass.reply.lock \notin OtherLocks)
    /\ (strangers = 0 /\ ~lostPut) =>
          /\ \/ expected \in {NoVersion, file.content}
             \/ pass.pc \in PutReplies /\ Got("ok")
          /\ (pass.pc = "checkReply" /\ Got("ok")) => pass.reply.version = pass.want
    /\ ConflictHasCause

\* What a lock call on its way says of the file's lock.
HeldInv ==
    (strangers = 0 /\ faults = 0) =>
        \/ file.lock = OurLock
        \/ /\ haveLock => (pass.pc \in {"unlockReply", "gcReply"} /\ Got("ok"))
           /\ pass.pc \in {"relockReply", "lockReply", "refreshReply"} =>
                 ~(Got("ok") \/ GotLock({OurLock}))

\* A join the Manager missed is not counted.
LiveInv == LiveNeverOvercounts /\ (~fileKnown => live = 0)

-----------------------------------------------------------------------------
(***************************************************************************)
(* Facts about steps that several invariants use.                          *)
(***************************************************************************)

\* Only a pass and a crash move the pass.
LEMMA QuietPass ==
    ASSUME Handler \/ (World /\ ~Crash)
    PROVE  pass' = pass
  BY DEF Handler, World, Observe, PutScene, OnJoin, OnLeave, ResolveOverwrite, ResolveReload,
         SaveTimerElapses, CloseGraceElapses, FailedTokenRetried, TokenExpires, StrangerActs

\* What a call made from label l leaves of the pass.
LEMMA CallFrom ==
    ASSUME HostConstants, RoomConstants, TypeOK, NEW l \in Labels, NEW t, NEW r,
           \/ Call(t, r, At(l))
           \/ \E b \in BOOLEAN : Call(t, r, [At(l) EXCEPT !.retried = b])
           \/ \E v \in OtherLocks : Call(t, r, [At(l) EXCEPT !.taken = v])
           \/ \E e \in Contents \cup {NoVersion} : Call(t, r, [At(l) EXCEPT !.want = e])
    PROVE  /\ pass'.pc = l /\ pass'.task = pass.task /\ pass'.body = pass.body
           /\ pass'.seq = pass.seq
           /\ \E p \in Pass : Call(t, r, p)
  <1>1. At(l) \in Pass
    BY PassType DEF TypeOK
  <1>2. At(l).pc = l /\ At(l).task = pass.task /\ At(l).body = pass.body /\ At(l).seq = pass.seq
    BY PassShape DEF TypeOK
  <1>3. ASSUME NEW p \in Pass, Call(t, r, p),
               p.pc = l, p.task = pass.task, p.body = pass.body, p.seq = pass.seq
        PROVE  /\ pass'.pc = l /\ pass'.task = pass.task /\ pass'.body = pass.body
               /\ pass'.seq = pass.seq
               /\ \E q \in Pass : Call(t, r, q)
    BY <1>3, CallShape
  <1>4. CASE Call(t, r, At(l))
    BY <1>1, <1>2, <1>3, <1>4
  <1>5. ASSUME NEW b \in BOOLEAN, Call(t, r, [At(l) EXCEPT !.retried = b])
        PROVE  /\ pass'.pc = l /\ pass'.task = pass.task /\ pass'.body = pass.body
               /\ pass'.seq = pass.seq
               /\ \E q \in Pass : Call(t, r, q)
    <2> DEFINE p == [At(l) EXCEPT !.retried = b]
    <2>1. p \in Pass /\ p.pc = l /\ p.task = pass.task /\ p.body = pass.body /\ p.seq = pass.seq
      BY <1>1, <1>2 DEF Pass
    <2> QED
      BY <1>3, <1>5, <2>1
  <1>6. ASSUME NEW v \in OtherLocks, Call(t, r, [At(l) EXCEPT !.taken = v])
        PROVE  /\ pass'.pc = l /\ pass'.task = pass.task /\ pass'.body = pass.body
               /\ pass'.seq = pass.seq
               /\ \E q \in Pass : Call(t, r, q)
    <2> DEFINE p == [At(l) EXCEPT !.taken = v]
    <2>1. p \in Pass /\ p.pc = l /\ p.task = pass.task /\ p.body = pass.body /\ p.seq = pass.seq
      BY <1>1, <1>2 DEF Pass
    <2> QED
      BY <1>3, <1>6, <2>1
  <1>7. ASSUME NEW e \in Contents \cup {NoVersion}, Call(t, r, [At(l) EXCEPT !.want = e])
        PROVE  /\ pass'.pc = l /\ pass'.task = pass.task /\ pass'.body = pass.body
               /\ pass'.seq = pass.seq
               /\ \E q \in Pass : Call(t, r, q)
    <2> DEFINE p == [At(l) EXCEPT !.want = e]
    <2>1. p \in Pass /\ p.pc = l /\ p.task = pass.task /\ p.body = pass.body /\ p.seq = pass.seq
      BY <1>1, <1>2 DEF Pass
    <2> QED
      BY <1>3, <1>7, <2>1
  <1> QED
    BY <1>4, <1>5, <1>6, <1>7

\* Where each call of a pass leads, and what it does not touch.
LEMMA CallSteps ==
    ASSUME HostConstants, RoomConstants, TypeOK
    PROVE  /\ Ensure => /\ pass'.pc \in {"relockReply", "lockReply"}
                        /\ pass'.task = pass.task /\ pass'.body = pass.body
                        /\ pass'.seq = pass.seq
           /\ Acquire => /\ pass'.pc = "lockReply" /\ pass'.task = pass.task
                         /\ pass'.body = pass.body /\ pass'.seq = pass.seq
           /\ Refresh => pass'.pc = "refreshReply" /\ pass'.task = pass.task
           /\ Put => /\ pass'.pc = "putReply" /\ pass'.task = pass.task
                     /\ pass'.body = pass.body /\ pass'.seq = pass.seq
           /\ UnlockedPut => /\ pass'.pc = "unlockedPutReply" /\ pass'.task = pass.task
                             /\ pass'.body = pass.body /\ pass'.seq = pass.seq
           /\ CheckVersion => pass'.pc \in {"checkReply", "save", "lock"}
           /\ UnlockOnClose => pass'.pc \in {"unlockReply", "delete"}
           /\ CollectIdle => pass'.pc \in {"gcReply", "gcDelete"}
  <1>1. Replies \subseteq Labels /\ {"delete", "gcDelete"} \subseteq Labels
    BY DEF Labels
  <1>2. \A l : At(l).pc = l
    BY PassShape DEF TypeOK
  <1>3. Ensure => /\ pass'.pc \in {"relockReply", "lockReply"} /\ pass'.task = pass.task
                  /\ pass'.body = pass.body /\ pass'.seq = pass.seq
    <2>1. forceUnlock \in OtherLocks \cup {NoLock}
      BY DEF TypeOK, RoomTypes
    <2> QED
      BY <1>1, <2>1, CallFrom DEF Ensure, Replies
  <1>4. Acquire => /\ pass'.pc = "lockReply" /\ pass'.task = pass.task
                   /\ pass'.body = pass.body /\ pass'.seq = pass.seq
    <2>1. pass.retried \in BOOLEAN
      BY DEF TypeOK, Pass
    <2> QED
      BY <1>1, <2>1, CallFrom DEF Acquire, Replies
  <1>5. /\ Refresh => pass'.pc = "refreshReply" /\ pass'.task = pass.task
        /\ Put => /\ pass'.pc = "putReply" /\ pass'.task = pass.task
                  /\ pass'.body = pass.body /\ pass'.seq = pass.seq
        /\ UnlockedPut => /\ pass'.pc = "unlockedPutReply" /\ pass'.task = pass.task
                          /\ pass'.body = pass.body /\ pass'.seq = pass.seq
    BY <1>1, CallFrom DEF Refresh, Put, UnlockedPut, Replies
  <1>6. CheckVersion => pass'.pc \in {"checkReply", "save", "lock"}
    <2>1. expected \in Contents \cup {NoVersion}
      BY DEF TypeOK, RoomTypes
    <2>2. AfterCheck.pc \in {"save", "lock"}
      BY PassShape DEF TypeOK
    <2> QED
      BY <1>1, <2>1, <2>2, CallFrom DEF CheckVersion, Replies
  <1>7. /\ UnlockOnClose => pass'.pc \in {"unlockReply", "delete"}
        /\ CollectIdle => pass'.pc \in {"gcReply", "gcDelete"}
    BY <1>1, <1>2, CallFrom DEF UnlockOnClose, CollectIdle, Replies
  <1> QED
    BY <1>3, <1>4, <1>5, <1>6, <1>7

\* Where the walk down the ladder and a lock attempt lead.
LEMMA WalkSteps ==
    ASSUME HostConstants, RoomConstants, TypeOK
    PROVE  /\ SaveTriesNext =>
                \/ pass'.pc \in {"idle", "closeCheck"} /\ pass'.task = "none"
                \/ /\ pass'.pc = "ensure" /\ pass'.task = pass.task
                   /\ pass'.body = pass.body /\ pass'.seq = pass.seq
           /\ RefreshTriesNext =>
                \/ pass'.pc = "save" /\ pass'.task = "none"
                \/ pass'.pc = "refresh" /\ pass'.task = pass.task
           /\ LockHeld =>
                \/ pass'.pc = "save" /\ pass'.task = "none"
                \/ /\ Saving /\ pass'.pc = "put" /\ pass'.task = pass.task
                   /\ pass'.body = pass.body /\ pass'.seq = pass.seq
           /\ LockFailed =>
                \/ pass'.pc \in {"save", "idle", "closeCheck"} /\ pass'.task = "none"
                \/ pass.task = "refresh" /\ pass'.pc = "refresh" /\ pass'.task = "refresh"
                \/ /\ Saving /\ ~Got("lockConflict")
                   /\ pass'.pc \in {"ensure", "unlockedPut"} /\ pass'.task = pass.task
                   /\ pass'.body = pass.body /\ pass'.seq = pass.seq
  <1>1. SaveTriesNext =>
            \/ pass'.pc \in {"idle", "closeCheck"} /\ pass'.task = "none"
            \/ /\ pass'.pc = "ensure" /\ pass'.task = pass.task
               /\ pass'.body = pass.body /\ pass'.seq = pass.seq
    BY PassShape, NextCandidateShape DEF SaveTriesNext, TypeOK
  <1>2. RefreshTriesNext =>
            \/ pass'.pc = "save" /\ pass'.task = "none"
            \/ pass'.pc = "refresh" /\ pass'.task = pass.task
    BY PassShape, NextCandidateShape DEF RefreshTriesNext, TypeOK
  <1>3. LockHeld =>
            \/ pass'.pc = "save" /\ pass'.task = "none"
            \/ /\ Saving /\ pass'.pc = "put" /\ pass'.task = pass.task
               /\ pass'.body = pass.body /\ pass'.seq = pass.seq
    BY PassShape DEF LockHeld, TypeOK
  <1>4. ASSUME LockFailed
        PROVE  \/ pass'.pc \in {"save", "idle", "closeCheck"} /\ pass'.task = "none"
               \/ pass.task = "refresh" /\ pass'.pc = "refresh" /\ pass'.task = "refresh"
               \/ /\ Saving /\ ~Got("lockConflict")
                  /\ pass'.pc \in {"ensure", "unlockedPut"} /\ pass'.task = pass.task
                  /\ pass'.body = pass.body /\ pass'.seq = pass.seq
    <2>1. CASE pass' \in {SaveStage, SaveEnded}
      BY <2>1, PassShape DEF TypeOK
    <2>2. CASE pass.task = "refresh" /\ RefreshTriesNext
      BY <1>2, <2>2
    <2>3. CASE Saving /\ Got("failed") /\ pass' = At("unlockedPut")
      BY <2>3, PassShape DEF TypeOK, Got
    <2>4. CASE Saving /\ ~Got("lockConflict") /\ SaveTriesNext
      BY <1>1, <2>4
    <2> QED
      BY <1>4, <2>1, <2>2, <2>3, <2>4 DEF LockFailed
  <1> QED
    BY <1>1, <1>2, <1>3, <1>4

\* What a save is when it begins.
LEMMA BeginSaveSteps ==
    ASSUME NEW k, BeginSave(k)
    PROVE  \/ pass'.pc \in {"idle", "closeCheck"} /\ pass'.task = "none"
           \/ /\ pass'.pc = "ensure" /\ pass'.task = k
              /\ pass'.body = scene /\ pass'.seq = sceneSeq
  <1>1. CASE Ladder = {}
    BY <1>1 DEF BeginSave, IdlePass
  <1>2. CASE Ladder # {}
    <2>1. PICK t \in Heads(Ladder) :
            pass' = [IdlePass EXCEPT !.pc = "ensure", !.task = k, !.cand = t,
                                     !.ladder = Ladder, !.body = scene,
                                     !.seq = sceneSeq, !.first = ~firstSaveDone]
      BY <1>2 DEF BeginSave
    <2> QED
      BY <2>1 DEF IdlePass
  <1> QED
    BY <1>1, <1>2

\* The stages that make no call and start none.
LEMMA StageSteps ==
    ASSUME HostConstants, RoomConstants, TypeOK
    PROVE  /\ (\/ VersionChecked \/ CloseCheck \/ UnlockedOnClose \/ Delete \/ IdleUnlocked
               \/ DeleteIdle \/ Crash)
                => pass'.pc \in {"idle", "save", "lock", "unlock", "delete", "gcDelete"}
           /\ Evaluate => pass'.pc \in {"gc", "check", "close", "save", "lock"}
           /\ LockStage =>
                \/ pass'.pc = "save"
                \/ pass'.pc = "refresh" /\ pass'.task = "refresh"
                \/ pass'.pc = "ensure" /\ pass'.task = "eager"
           /\ Save => pass'.pc = "idle" \/ (SaveDue /\ BeginSave("save"))
           /\ Close => \/ pass'.pc \in {"idle", "closeCheck"}
                       \/ dirty /\ ~conflict /\ BeginSave("closeSave")
  <1>1. /\ IdlePass.pc = "idle" /\ AfterCheck.pc \in {"save", "lock"} /\ SaveStage.pc = "save"
        /\ \A l : At(l).pc = l
        /\ \A x, l : Planned(x, l).pc = l
    BY PassShape DEF TypeOK
  <1>2. (\/ VersionChecked \/ CloseCheck \/ UnlockedOnClose \/ Delete \/ IdleUnlocked
         \/ DeleteIdle \/ Crash)
          => pass'.pc \in {"idle", "save", "lock", "unlock", "delete", "gcDelete"}
    BY <1>1 DEF VersionChecked, CloseCheck, UnlockedOnClose, Delete, IdleUnlocked, DeleteIdle,
                Crash
  <1>3. ASSUME Evaluate PROVE pass'.pc \in {"gc", "check", "close", "save", "lock"}
    <2>1. PICK r \in BOOLEAN, i \in BOOLEAN : StartPass(r, i)
      BY <1>3 DEF Evaluate
    <2>2. PICK x, l : /\ pass' = Planned(x, l)
                      /\ l \in {"gc", "check", "close", "save", "lock"}
      BY <2>1 DEF StartPass
    <2> QED
      BY <1>1, <2>2
  <1>4. ASSUME LockStage
        PROVE  \/ pass'.pc = "save"
               \/ pass'.pc = "refresh" /\ pass'.task = "refresh"
               \/ pass'.pc = "ensure" /\ pass'.task = "eager"
    <2>1. CASE pass' = SaveStage
      BY <1>1, <2>1
    <2>2. CASE pass' # SaveStage
      <3>1. PICK t \in Heads(Ladder) :
                pass' = [IdlePass EXCEPT
                            !.cand = t,
                            !.ladder = IF pass.plan = "refresh" THEN Ladder ELSE {t},
                            !.pc = IF pass.plan = "refresh" THEN "refresh" ELSE "ensure",
                            !.task = IF pass.plan = "refresh" THEN "refresh" ELSE "eager"]
        BY <1>4, <2>2 DEF LockStage
      <3> QED
        BY <3>1 DEF IdlePass
    <2> QED
      BY <2>1, <2>2
  <1>5. /\ Save => pass'.pc = "idle" \/ (SaveDue /\ BeginSave("save"))
        /\ Close => \/ pass'.pc \in {"idle", "closeCheck"}
                    \/ dirty /\ ~conflict /\ BeginSave("closeSave")
    BY <1>1 DEF Save, Close
  <1> QED
    BY <1>2, <1>3, <1>4, <1>5

-----------------------------------------------------------------------------
(***************************************************************************)
(* Saves pause in a conflict.                                              *)
(***************************************************************************)
LEMMA PauseStep ==
    ASSUME HostConstants, RoomConstants, TypeOK, PauseInv, Next
    PROVE  PauseInv'
  <1> USE DEF PutReplies, Putting, Attempting, PauseInv, Saving
  <1>1. ASSUME pass'.pc \notin Attempting \cup {"refresh", "refreshReply"} PROVE PauseInv'
    BY <1>1
  <1>2. ASSUME pass'.pc \in {"save", "idle", "closeCheck"} PROVE PauseInv'
    BY <1>1, <1>2
  <1>3. ASSUME pass' = pass, conflict' => conflict PROVE PauseInv'
    BY <1>3
  <1>4. ASSUME BeginSave("save") \/ BeginSave("closeSave"), ~conflict' PROVE PauseInv'
    BY <1>4, BeginSaveSteps
  <1>5. CASE Handler \/ (World /\ ~Crash)
    <2>1. conflict' => conflict
      BY <1>5 DEF Handler, World, Observe, PutScene, OnJoin, OnLeave, ResolveOverwrite, Resolved,
                  ResolveReload, SaveTimerElapses, CloseGraceElapses, FailedTokenRetried,
                  TokenExpires, StrangerActs
    <2> QED
      BY <1>3, <1>5, <2>1, QuietPass
  <1>6. CASE \/ VersionChecked \/ CloseCheck \/ UnlockedOnClose \/ Delete \/ IdleUnlocked
             \/ DeleteIdle \/ Crash \/ Evaluate
    BY <1>1, <1>6, StageSteps
  <1>7. CASE CheckVersion \/ UnlockOnClose \/ CollectIdle
    BY <1>1, <1>7, CallSteps
  <1>8. CASE LockStage
    BY <1>8, StageSteps
  <1>9. CASE Save \/ Close
    <2>1. conflict' = conflict
      BY <1>9 DEF Save, Close
    <2> QED
      BY <1>2, <1>4, <1>9, <2>1, StageSteps DEF SaveDue
  <1>10. CASE Ensure \/ Acquire \/ Refresh \/ Put \/ UnlockedPut
    <2>1. conflict' = conflict /\ pass'.task = pass.task
      BY <1>10, CallSteps DEF Ensure, Acquire, Refresh, Put, UnlockedPut
    <2>2. CASE Ensure \/ Acquire
      BY <2>1, <2>2, CallSteps DEF Ensure, Acquire
    <2>3. CASE Refresh
      BY <2>1, <2>3, CallSteps DEF Refresh
    <2>4. CASE Put \/ UnlockedPut
      BY <2>1, <2>4, CallSteps DEF Put, UnlockedPut
    <2> QED
      BY <1>10, <2>2, <2>3, <2>4
  <1>11. CASE Relocked \/ Locked
    <2>1. pass.pc \in {"relockReply", "lockReply"}
      BY <1>11 DEF Relocked, Locked
    <2>2. CASE LockHeld
      BY <2>1, <2>2, WalkSteps DEF LockHeld
    <2>3. CASE LockFailed /\ UNCHANGED conflict
      BY <2>1, <2>3, WalkSteps
    <2>4. CASE Got("lockConflict") /\ LockFailed
      BY <2>1, <2>4, WalkSteps
    <2>5. CASE /\ pass'.pc = "acquire" /\ pass'.task = pass.task
               /\ UNCHANGED conflict
      BY <2>1, <2>5
    <2>6. \A b : LET q == [At("acquire") EXCEPT !.retried = b]
                 IN  q.pc = "acquire" /\ q.task = pass.task
      <3>1. At("acquire") \in Pass /\ At("acquire").pc = "acquire"
            /\ At("acquire").task = pass.task
        BY PassType, PassShape DEF TypeOK, Labels, Calls
      <3> QED
        BY <3>1 DEF Pass
    <2>7. At("acquire").pc = "acquire" /\ At("acquire").task = pass.task
      BY PassShape DEF TypeOK
    <2>8. CASE Relocked
      BY <2>2, <2>3, <2>4, <2>5, <2>7, <2>8 DEF Relocked, LockLostTo, GotLock
    <2>9. CASE Locked
      BY <2>2, <2>3, <2>4, <2>5, <2>6, <2>9 DEF Locked, LockLostTo, GotLock
    <2> QED
      BY <1>11, <2>8, <2>9
  <1>12. CASE Refreshed
    <2>1. pass.task = "refresh"
      BY <1>12 DEF Refreshed
    <2>2. pass'.pc = "save" \/ (pass'.pc \in {"ensure", "refresh"} /\ pass'.task = "refresh")
      <3>1. CASE pass' \in {SaveStage, At("ensure")}
        BY <2>1, <3>1, PassShape DEF TypeOK
      <3>2. CASE RefreshTriesNext
        BY <2>1, <3>2, WalkSteps
      <3> QED
        BY <1>12, <3>1, <3>2 DEF Refreshed
    <2> QED
      BY <2>2
  <1>13. CASE PutAnswered \/ UnlockedPutAnswered
    <2>1. pass.pc \in PutReplies
      BY <1>13 DEF PutAnswered, UnlockedPutAnswered
    <2>2. \/ pass'.pc \in {"idle", "closeCheck"}
          \/ pass'.pc = "ensure" /\ pass'.task = pass.task /\ conflict' = conflict
      BY <1>13, PassShape, WalkSteps
         DEF PutAnswered, UnlockedPutAnswered, SaveSucceeded, TypeOK
    <2> QED
      BY <2>1, <2>2
  <1> QED
    BY <1>5, <1>6, <1>7, <1>8, <1>9, <1>10, <1>11, <1>12, <1>13 DEF Next, PassStep, World

\* No scene is put on the host while the room is in a conflict.
THEOREM SavesPause == Spec => []SavePausedInConflict
  <1>1. Init => PauseInv
    BY DEF Init, IdlePass, PauseInv, PutReplies, Putting, Attempting, Saving
  <1>2. TypeOK /\ PauseInv /\ [Next]_vars => PauseInv'
    <2>1. UNCHANGED vars /\ PauseInv => PauseInv'
      BY DEF PauseInv, Saving
    <2> QED
      BY <2>1, HostConstants, RoomConstants, PauseStep
  <1>3. PauseInv => SavePausedInConflict
    BY DEF PauseInv, SavePausedInConflict, PutReplies, Putting, Attempting
  <1> QED
    BY <1>1, <1>2, <1>3, TypeCorrect, PTL DEF Spec

-----------------------------------------------------------------------------
(***************************************************************************)
(* The host and its answers.                                               *)
(***************************************************************************)

\* Whatever becomes of a call, the host has served it or has not, and an
\* answer that is a success or names a lock is the host's own.
LEMMA CallEffect ==
    ASSUME HostConstants, RoomConstants, TypeOK, NEW t, NEW r, NEW p \in Pass,
           Call(t, r, p)
    PROVE  /\ file' \in {file, r.file}
           /\ (pass'.reply.code = "ok" \/ pass'.reply.lock # NoLock)
                => file' = r.file /\ pass'.reply = r.reply
           /\ faults' = faults =>
                \/ file' = r.file /\ pass'.reply = r.reply
                \/ file' = file /\ pass'.reply = Answer("tokenRejected")
           /\ (lostPut' = FALSE /\ file'.content # file.content)
                => file' = r.file /\ pass'.reply = r.reply
           /\ lostPut => lostPut'
  <1>1. \A a : [p EXCEPT !.reply = a].reply = a
    BY DEF Pass
  <1>2. \A c : Answer(c).code = c /\ Answer(c).lock = NoLock
    BY DEF Answer
  <1>3. CASE Served(t, r, p)
    BY <1>1, <1>3 DEF Served
  <1>4. CASE Refused(t, p)
    BY <1>1, <1>2, <1>4 DEF Refused
  <1>5. CASE Faulty(r, p)
    <2>1. PICK f \in Faults :
            /\ pass' = [p EXCEPT !.reply = FaultReply(f)]
            /\ file' = IF f = "lostReply" THEN r.file ELSE file
            /\ lostPut' = (lostPut \/ file'.content # file.content)
      BY <1>5 DEF Faulty
    <2>2. FaultReply(f).code # "ok" /\ FaultReply(f).lock = NoLock
      <3>1. f # "ok"
        BY DEF RoomConstants
      <3> QED
        BY <1>2, <3>1 DEF FaultReply
    <2>3. faults' # faults
      BY <1>5 DEF Faulty, TypeOK, CallTypes
    <2> QED
      BY <1>1, <2>1, <2>2, <2>3
  <1> QED
    BY <1>3, <1>4, <1>5 DEF Call

\* What the operations do to the content and the lock of the file.
LEMMA Operations ==
    ASSUME HostConstants, NEW f \in File
    PROVE  /\ \A v : LET a == Lock(f, v)
                     IN  /\ a.file.content = f.content /\ a.file.lock \in {f.lock, v}
                         /\ a.reply.code = "ok" => a.file.lock = v
                         /\ a.reply.code # "ok" => a.file = f /\ a.reply.lock = f.lock
                         /\ a.reply.lock \in {f.lock, NoLock}
           /\ \A v, w : LET a == UnlockAndRelock(f, v, w)
                        IN  /\ a.file.content = f.content /\ a.file.lock \in {f.lock, v}
                            /\ a.reply.code = "ok" => a.file.lock = v
                            /\ a.reply.code # "ok" => a.file = f /\ a.reply.lock = f.lock
                            /\ a.reply.lock \in {f.lock, NoLock}
           /\ \A v : LET a == RefreshLock(f, v)
                     IN  /\ a.file = f
                         /\ a.reply.code = "ok" => f.lock = v
                         /\ a.reply.code # "ok" => a.reply.lock = f.lock
                         /\ a.reply.lock \in {f.lock, NoLock}
           /\ \A v : LET a == Unlock(f, v)
                     IN  /\ a.file.content = f.content /\ a.file.lock \in {f.lock, NoLock}
                         /\ a.reply.code # "ok" => a.file = f /\ f.lock # v
                         /\ a.reply.lock \in {f.lock, NoLock}
           /\ \A v, c : LET a == PutFile(f, v, c)
                        IN  /\ a.file.lock = f.lock
                            /\ a.reply.code = "ok" => a.reply.version = c /\ a.file.content = c
                            /\ a.reply.code # "ok" => a.file = f
                            /\ a.reply.lock \in {f.lock, NoLock}
           /\ LET a == CheckFileInfo(f)
              IN  /\ a.file = f /\ a.reply.lock = NoLock
                  /\ a.reply.code = "ok" /\ a.reply.version = f.content
  <1>1. /\ \A l : [f EXCEPT !.lock = l].lock = l /\ [f EXCEPT !.lock = l].content = f.content
        /\ \A c : [f EXCEPT !.content = c].content = c /\ [f EXCEPT !.content = c].lock = f.lock
    BY DEF File
  <1> USE <1>1 DEF Ok, WithVersion, LockConflict, Answer
  <1>2. \A v : LET a == Lock(f, v)
               IN  /\ a.file.content = f.content /\ a.file.lock \in {f.lock, v}
                   /\ a.reply.code = "ok" => a.file.lock = v
                   /\ a.reply.code # "ok" => a.file = f /\ a.reply.lock = f.lock
                   /\ a.reply.lock \in {f.lock, NoLock}
    BY DEF Lock
  <1>3. \A v, w : LET a == UnlockAndRelock(f, v, w)
                  IN  /\ a.file.content = f.content /\ a.file.lock \in {f.lock, v}
                      /\ a.reply.code = "ok" => a.file.lock = v
                      /\ a.reply.code # "ok" => a.file = f /\ a.reply.lock = f.lock
                      /\ a.reply.lock \in {f.lock, NoLock}
    BY DEF UnlockAndRelock
  <1>4. \A v : LET a == RefreshLock(f, v)
               IN  /\ a.file = f
                   /\ a.reply.code = "ok" => f.lock = v
                   /\ a.reply.code # "ok" => a.reply.lock = f.lock
                   /\ a.reply.lock \in {f.lock, NoLock}
    BY DEF RefreshLock
  <1>5. \A v : LET a == Unlock(f, v)
               IN  /\ a.file.content = f.content /\ a.file.lock \in {f.lock, NoLock}
                   /\ a.reply.code # "ok" => a.file = f /\ f.lock # v
                   /\ a.reply.lock \in {f.lock, NoLock}
    BY DEF Unlock
  <1>6. \A v, c : LET a == PutFile(f, v, c)
                  IN  /\ a.file.lock = f.lock
                      /\ a.reply.code = "ok" => a.reply.version = c /\ a.file.content = c
                      /\ a.reply.code # "ok" => a.file = f
                      /\ a.reply.lock \in {f.lock, NoLock}
    BY DEF PutFile
  <1>7. LET a == CheckFileInfo(f)
        IN  /\ a.file = f /\ a.reply.lock = NoLock
            /\ a.reply.code = "ok" /\ a.reply.version = f.content
    BY DEF CheckFileInfo
  <1> QED
    BY <1>2, <1>3, <1>4, <1>5, <1>6, <1>7

\* The call each action makes.
LEMMA CallForms ==
    ASSUME HostConstants, RoomConstants, TypeOK
    PROVE  /\ Ensure => \E t : \E p \in Pass :
                \/ Call(t, Lock(file, OurLock), p)
                \/ Call(t, UnlockAndRelock(file, OurLock, forceUnlock), p)
           /\ Acquire => \E t : \E p \in Pass : Call(t, Lock(file, OurLock), p)
           /\ Refresh => \E t : \E p \in Pass : Call(t, RefreshLock(file, OurLock), p)
           /\ Put => \E t : \E p \in Pass : Call(t, PutFile(file, OurLock, Body(pass.body)), p)
           /\ UnlockedPut =>
                \E t : \E p \in Pass : Call(t, PutFile(file, NoLock, Body(pass.body)), p)
           /\ CheckVersion =>
                \/ UNCHANGED callVars /\ pass' = AfterCheck
                \/ expected # NoVersion
                   /\ \E t : \E p \in Pass : p.want = expected /\ Call(t, CheckFileInfo(file), p)
           /\ (UnlockOnClose \/ CollectIdle) =>
                \/ UNCHANGED callVars /\ \E l : pass' = At(l)
                \/ \E t : \E p \in Pass : Call(t, Unlock(file, OurLock), p)
  <1>1. Replies \subseteq Labels /\ \A l \in Labels : At(l) \in Pass
    BY PassType DEF TypeOK, Labels
  <1>2. \A l \in Labels : /\ \A b \in BOOLEAN : [At(l) EXCEPT !.retried = b] \in Pass
                          /\ \A v \in OtherLocks : [At(l) EXCEPT !.taken = v] \in Pass
                          /\ \A e \in Contents \cup {NoVersion} :
                                [At(l) EXCEPT !.want = e] \in Pass
                                /\ [At(l) EXCEPT !.want = e].want = e
    BY <1>1 DEF Pass
  <1>3. Ensure => \E t : \E p \in Pass :
            \/ Call(t, Lock(file, OurLock), p)
            \/ Call(t, UnlockAndRelock(file, OurLock, forceUnlock), p)
    <2>1. forceUnlock \in OtherLocks \cup {NoLock}
      BY DEF TypeOK, RoomTypes
    <2> QED
      BY <1>1, <1>2, <2>1 DEF Ensure, Replies
  <1>4. Acquire => \E t : \E p \in Pass : Call(t, Lock(file, OurLock), p)
    <2>1. pass.retried \in BOOLEAN
      BY DEF TypeOK, Pass
    <2> QED
      BY <1>1, <1>2, <2>1 DEF Acquire, Replies
  <1>5. /\ Refresh => \E t : \E p \in Pass : Call(t, RefreshLock(file, OurLock), p)
        /\ Put => \E t : \E p \in Pass : Call(t, PutFile(file, OurLock, Body(pass.body)), p)
        /\ UnlockedPut =>
             \E t : \E p \in Pass : Call(t, PutFile(file, NoLock, Body(pass.body)), p)
    BY <1>1 DEF Refresh, Put, UnlockedPut, Replies
  <1>6. CheckVersion =>
            \/ UNCHANGED callVars /\ pass' = AfterCheck
            \/ expected # NoVersion
               /\ \E t : \E p \in Pass : p.want = expected /\ Call(t, CheckFileInfo(file), p)
    <2>1. expected \in Contents \cup {NoVersion}
      BY DEF TypeOK, RoomTypes
    <2> QED
      BY <1>1, <1>2, <2>1 DEF CheckVersion, Replies
  <1>7. (UnlockOnClose \/ CollectIdle) =>
            \/ UNCHANGED callVars /\ \E l : pass' = At(l)
            \/ \E t : \E p \in Pass : Call(t, Unlock(file, OurLock), p)
    BY <1>1 DEF UnlockOnClose, CollectIdle, Replies
  <1> QED
    BY <1>3, <1>4, <1>5, <1>6, <1>7

\* A put that is acknowledged has put what it carried; no other call changes
\* the content.
LEMMA ContentSteps ==
    ASSUME HostConstants, RoomConstants, TypeOK
    PROVE  /\ (\/ Ensure \/ Acquire \/ Refresh \/ CheckVersion \/ UnlockOnClose
               \/ CollectIdle) => file'.content = file.content
           /\ ((Put \/ UnlockedPut) /\ pass'.reply.code = "ok") =>
                /\ pass'.reply.version = Body(pass.body)
                /\ file'.content = Body(pass.body)
  <1>1. file \in File
    BY DEF TypeOK, CallTypes
  <1>2. ASSUME NEW t, NEW r, NEW p \in Pass, Call(t, r, p), r.file.content = file.content
        PROVE  file'.content = file.content
    BY <1>2, CallEffect
  <1>3. Ensure => file'.content = file.content
    <2>1. /\ Lock(file, OurLock).file.content = file.content
          /\ UnlockAndRelock(file, OurLock, forceUnlock).file.content = file.content
      BY <1>1, Operations
    <2> QED
      BY <1>2, <2>1, CallForms
  <1>4. Acquire \/ Refresh => file'.content = file.content
    <2>1. /\ Lock(file, OurLock).file.content = file.content
          /\ RefreshLock(file, OurLock).file.content = file.content
      BY <1>1, Operations
    <2> QED
      BY <1>2, <2>1, CallForms
  <1>5. CheckVersion => file'.content = file.content
    BY <1>1, <1>2, CallForms, Operations
  <1>6. UnlockOnClose \/ CollectIdle => file'.content = file.content
    <2>1. Unlock(file, OurLock).file.content = file.content
      BY <1>1, Operations
    <2> QED
      BY <1>2, <2>1, CallForms
  <1>7. ((Put \/ UnlockedPut) /\ pass'.reply.code = "ok") =>
            /\ pass'.reply.version = Body(pass.body)
            /\ file'.content = Body(pass.body)
    <2>1. ASSUME NEW t, NEW p \in Pass, NEW v, Call(t, PutFile(file, v, Body(pass.body)), p),
                 pass'.reply.code = "ok"
          PROVE  pass'.reply.version = Body(pass.body) /\ file'.content = Body(pass.body)
      <3> DEFINE r == PutFile(file, v, Body(pass.body))
      <3>1. file' = r.file /\ pass'.reply = r.reply
        BY <2>1, CallEffect
      <3>2. r.reply.code = "ok" => /\ r.reply.version = Body(pass.body)
                                   /\ r.file.content = Body(pass.body)
        BY <1>1, Operations
      <3> QED
        BY <2>1, <3>1, <3>2
    <2> QED
      BY <2>1, CallForms
  <1> QED
    BY <1>3, <1>4, <1>5, <1>6, <1>7

-----------------------------------------------------------------------------
(***************************************************************************)
(* A clean room is saved.                                                  *)
(***************************************************************************)
LEMMA SavedStep ==
    ASSUME HostConstants, RoomConstants, TypeOK, PauseInv, SavedInv, Next
    PROVE  SavedInv'
  <1> USE DEF PutReplies, Putting, Attempting
  <1>1. ASSUME CleanMeansSaved', pass'.pc \notin Attempting PROVE SavedInv'
    BY <1>1 DEF SavedInv
  <1>2. ASSUME UNCHANGED <<sceneVars, expected, strangers>>, file'.content = file.content
        PROVE  CleanMeansSaved'
    BY <1>2 DEF SavedInv, CleanMeansSaved
  <1>3. ASSUME CleanMeansSaved', UNCHANGED sceneVars, pass'.pc \in Attempting \ PutReplies,
               \/ ~Saving'
               \/ /\ pass.pc \in Attempting /\ Saving
                  /\ pass'.body = pass.body /\ pass'.seq = pass.seq
        PROVE  SavedInv'
    BY <1>3 DEF SavedInv
  <1>4. ASSUME BeginSave("save") \/ BeginSave("closeSave"), dirty, CleanMeansSaved',
               UNCHANGED sceneVars
        PROVE  SavedInv'
    <2>1. sceneSeq \in Nat
      BY DEF TypeOK, RoomTypes
    <2>2. \/ pass'.pc \in {"idle", "closeCheck"}
          \/ pass'.pc = "ensure" /\ pass'.body = scene /\ pass'.seq = sceneSeq
      BY <1>4, BeginSaveSteps
    <2> QED
      BY <1>4, <2>1, <2>2 DEF SavedInv
  <1>5. (Saving' <=> pass'.task \in {"save", "closeSave"}) /\ (pass' = pass => (Saving' <=> Saving))
    BY DEF Saving
  <1>6. ASSUME pass' = pass, UNCHANGED <<sceneVars, expected, strangers, file>>
        PROVE  SavedInv'
    BY <1>6 DEF SavedInv, CleanMeansSaved, Saving, Got
  <1>7. CASE Handler
    <2>1. pass' = pass /\ UNCHANGED <<file, strangers>>
      BY <1>7 DEF Handler, Observe, PutScene, OnJoin, OnLeave, ResolveOverwrite, ResolveReload
    <2>2. ASSUME NEW u \in Users, NEW s \in Scenes, PutScene(u, s) PROVE SavedInv'
      <3>1. CleanMeansSaved'
        BY <2>2 DEF PutScene, CleanMeansSaved
      <3>2. (pass.pc \in Attempting /\ Saving) =>
                dirty' /\ pass.seq <= sceneSeq' /\ pass.seq # sceneSeq'
        <4>1. sceneSeq \in Nat /\ pass.seq \in Nat
          BY DEF TypeOK, RoomTypes, Pass
        <4> QED
          BY <2>2, <4>1 DEF PutScene, SavedInv
      <3>3. (pass.pc \in PutReplies /\ Got("ok")) =>
                /\ pass.reply.version = Body(pass.body)
                /\ strangers = 0 => file.content = Body(pass.body)
        BY DEF SavedInv
      <3>4. /\ pass'.pc = pass.pc /\ pass'.seq = pass.seq /\ (Saving' <=> Saving)
            /\ (Got("ok")' <=> Got("ok")) /\ pass'.body = pass.body /\ pass'.reply = pass.reply
            /\ Body(pass.body)' = Body(pass.body)
        BY <2>1 DEF Saving, Got, Body
      <3> QED
        BY <2>1, <3>1, <3>2, <3>3, <3>4 DEF SavedInv
    <2>3. ASSUME NEW u \in Users, ResolveOverwrite(u) \/ ResolveReload(u) PROVE SavedInv'
      <3>1. CleanMeansSaved'
        BY <2>3 DEF ResolveOverwrite, ResolveReload, CleanMeansSaved
      <3>2. conflict
        BY <2>3 DEF ResolveOverwrite, ResolveReload, Resolved
      <3>3. ~(pass.pc \in Attempting /\ Saving) /\ (pass.pc \in PutReplies => Saving)
        BY <3>2 DEF PauseInv
      <3> QED
        BY <1>5, <2>1, <3>1, <3>3 DEF SavedInv
    <2>4. CASE (\E t \in Tokens : Observe(t)) \/ OnJoin \/ OnLeave
      BY <1>6, <2>1, <2>4 DEF Observe, OnJoin, OnLeave
    <2> QED
      BY <1>7, <2>2, <2>3, <2>4 DEF Handler
  <1>8. CASE World /\ ~Crash
    <2>1. pass' = pass
      BY <1>8, QuietPass
    <2>2. CASE StrangerActs
      <3>1. strangers' # 0 /\ UNCHANGED <<sceneVars, expected>>
        BY <2>2 DEF StrangerActs, TypeOK, WorldTypes
      <3> QED
        BY <2>1, <3>1 DEF SavedInv, CleanMeansSaved, Saving, Got, Body
    <2>3. CASE ~StrangerActs
      BY <1>6, <1>8, <2>1, <2>3
         DEF World, SaveTimerElapses, CloseGraceElapses, FailedTokenRetried, TokenExpires
    <2> QED
      BY <2>2, <2>3
  <1>9. CASE Crash \/ Delete \/ DeleteIdle
    <2>1. pass'.pc = "idle"
      BY <1>9, PassShape DEF Crash, Delete, DeleteIdle, TypeOK
    <2>2. CASE Forget
      BY <1>1, <2>1, <2>2 DEF Forget, CleanMeansSaved
    <2>3. CASE ~Forget
      BY <1>1, <1>2, <1>9, <2>1, <2>3 DEF Crash, Delete, DeleteIdle
    <2> QED
      BY <2>2, <2>3
  <1>10. CASE VersionChecked \/ CloseCheck \/ UnlockedOnClose \/ IdleUnlocked \/ Evaluate
    <2>1. pass'.pc \notin Attempting
      BY <1>10, StageSteps
    <2>2. UNCHANGED <<sceneVars, expected, strangers, file>>
      BY <1>10 DEF VersionChecked, CloseCheck, UnlockedOnClose, IdleUnlocked, Evaluate, StartPass
    <2> QED
      BY <1>1, <1>2, <2>1, <2>2
  <1>11. CASE CheckVersion \/ UnlockOnClose \/ CollectIdle
    <2>1. pass'.pc \notin Attempting
      BY <1>11, CallSteps
    <2>2. UNCHANGED <<sceneVars, expected, strangers>>
      BY <1>11 DEF CheckVersion, UnlockOnClose, CollectIdle
    <2> QED
      BY <1>1, <1>2, <1>11, <2>1, <2>2, ContentSteps
  <1>12. CASE LockStage
    <2>1. UNCHANGED <<sceneVars, expected, strangers, file>>
      BY <1>12 DEF LockStage
    <2>2. CleanMeansSaved'
      BY <1>2, <2>1
    <2>3. pass'.pc \in {"save", "refresh"} \/ (pass'.pc = "ensure" /\ ~Saving')
      BY <1>12, StageSteps DEF Saving
    <2> QED
      BY <1>1, <1>3, <2>1, <2>2, <2>3
  <1>13. CASE Save \/ Close
    <2>1. UNCHANGED <<sceneVars, expected, strangers, file>>
      BY <1>13 DEF Save, Close
    <2>2. CleanMeansSaved'
      BY <1>2, <2>1
    <2>3. \/ pass'.pc \in {"idle", "closeCheck"}
          \/ dirty /\ (BeginSave("save") \/ BeginSave("closeSave"))
      BY <1>13, StageSteps DEF SaveDue
    <2> QED
      BY <1>1, <1>4, <2>1, <2>2, <2>3
  <1>14. CASE Ensure \/ Acquire
    <2>1. UNCHANGED <<sceneVars, expected, strangers>>
      BY <1>14 DEF Ensure, Acquire
    <2>2. CleanMeansSaved'
      BY <1>2, <1>14, <2>1, ContentSteps
    <2>3. /\ pass'.pc \in {"relockReply", "lockReply"} /\ pass'.task = pass.task
          /\ pass'.body = pass.body /\ pass'.seq = pass.seq
      BY <1>14, CallSteps
    <2>4. pass.pc \in Attempting /\ (Saving' <=> Saving)
      BY <1>14, <2>3 DEF Ensure, Acquire, Saving
    <2> QED
      BY <1>3, <2>1, <2>2, <2>3, <2>4
  <1>15. CASE Refresh
    <2>1. UNCHANGED <<sceneVars, expected, strangers>>
      BY <1>15 DEF Refresh
    <2> QED
      BY <1>1, <1>2, <1>15, <2>1, ContentSteps, CallSteps
  <1>16. CASE Put \/ UnlockedPut
    <2>1. UNCHANGED <<sceneVars, expected, strangers>> /\ pass.pc \in Putting
      BY <1>16 DEF Put, UnlockedPut
    <2>2. Saving /\ dirty /\ pass.seq <= sceneSeq /\ (pass.seq = sceneSeq => scene = pass.body)
      BY <2>1 DEF PauseInv, SavedInv
    <2>3. /\ pass'.pc \in PutReplies /\ pass'.task = pass.task
          /\ pass'.body = pass.body /\ pass'.seq = pass.seq
      BY <1>16, CallSteps
    <2>4. pass'.reply.code = "ok" =>
            pass'.reply.version = Body(pass.body) /\ file'.content = Body(pass.body)
      BY <1>16, ContentSteps
    <2>5. Body(pass.body)' = Body(pass.body) /\ (Got("ok")' <=> pass'.reply.code = "ok")
      BY <2>3 DEF Body, Got
    <2>6. CleanMeansSaved'
      BY <2>1, <2>2 DEF CleanMeansSaved
    <2> QED
      BY <2>1, <2>2, <2>3, <2>4, <2>5, <2>6 DEF SavedInv
  <1>17. CASE Relocked \/ Locked
    <2>1. UNCHANGED <<sceneVars, expected, strangers, file>>
      BY <1>17 DEF Relocked, Locked
    <2>2. CleanMeansSaved' /\ pass.pc \in Attempting
      BY <1>2, <1>17, <2>1 DEF Relocked, Locked
    <2>3. CASE pass'.pc \in {"save", "idle", "closeCheck", "refresh"}
      BY <1>1, <2>2, <2>3
    <2>4. CASE /\ pass'.pc \in {"ensure", "acquire", "put", "unlockedPut"}
               /\ pass'.task = pass.task /\ pass'.body = pass.body /\ pass'.seq = pass.seq
      <3>1. Saving' <=> Saving
        BY <2>4 DEF Saving
      <3> QED
        BY <1>3, <2>1, <2>2, <2>4, <3>1
    <2>5. LockHeld \/ LockFailed => SavedInv'
      BY <2>3, <2>4, WalkSteps
    <2>6. \A b : LET q == [At("acquire") EXCEPT !.retried = b]
                 IN  /\ q.pc = "acquire" /\ q.task = pass.task /\ q.body = pass.body
                     /\ q.seq = pass.seq
      <3>1. /\ At("acquire") \in Pass /\ At("acquire").pc = "acquire"
            /\ At("acquire").task = pass.task /\ At("acquire").body = pass.body
            /\ At("acquire").seq = pass.seq
        BY PassType, PassShape DEF TypeOK, Labels, Calls
      <3> QED
        BY <3>1 DEF Pass
    <2>7. /\ At("acquire").pc = "acquire" /\ At("acquire").task = pass.task
          /\ At("acquire").body = pass.body /\ At("acquire").seq = pass.seq
      BY PassShape DEF TypeOK
    <2>8. CASE pass' = At("acquire")
      BY <2>4, <2>7, <2>8
    <2>9. CASE pass' = [At("acquire") EXCEPT !.retried = TRUE]
      BY <2>4, <2>6, <2>9
    <2> QED
      BY <1>17, <2>5, <2>8, <2>9 DEF Relocked, Locked, LockLostTo
  <1>18. CASE Refreshed
    <2>1. UNCHANGED <<sceneVars, expected, strangers, file>> /\ pass.task = "refresh"
      BY <1>18 DEF Refreshed, PauseInv
    <2>2. CleanMeansSaved'
      BY <1>2, <2>1
    <2>3. pass'.pc \in {"save", "refresh"} \/ (pass'.pc = "ensure" /\ pass'.task = "refresh")
      <3>1. CASE pass' \in {SaveStage, At("ensure")}
        BY <2>1, <3>1, PassShape DEF TypeOK
      <3>2. CASE RefreshTriesNext
        BY <2>1, <3>2, WalkSteps
      <3> QED
        BY <1>18, <3>1, <3>2 DEF Refreshed
    <2> QED
      BY <1>1, <1>3, <1>5, <2>1, <2>2, <2>3
  <1>19. CASE PutAnswered \/ UnlockedPutAnswered
    <2>1. /\ pass.pc \in PutReplies /\ Saving /\ dirty
          /\ UNCHANGED <<scene, sceneSeq, lastWriter, strangers, file>>
      BY <1>19 DEF PutAnswered, UnlockedPutAnswered, PauseInv, SavedInv
    <2>2. CASE Got("ok") /\ SaveSucceeded
      <3>1. dirty' = (sceneSeq # pass.seq) /\ expected' = pass.reply.version
        BY <2>1, <2>2 DEF SaveSucceeded, StillDirty, SavedVersion
      <3>2. pass'.pc \in {"idle", "closeCheck"}
        BY <2>2, PassShape DEF SaveSucceeded, TypeOK
      <3>3. /\ pass.reply.version = Body(pass.body)
            /\ strangers = 0 => file.content = Body(pass.body)
            /\ pass.seq = sceneSeq => scene = pass.body
        BY <2>1, <2>2 DEF SavedInv
      <3>4. CleanMeansSaved'
        BY <2>1, <3>1, <3>3 DEF CleanMeansSaved, Body
      <3> QED
        BY <1>1, <3>2, <3>4
    <2>3. CASE ~(Got("ok") /\ SaveSucceeded)
      <3>1. UNCHANGED <<dirty, expected>> /\ (SaveTriesNext \/ pass' = SaveEnded)
        BY <1>19, <2>3 DEF PutAnswered, UnlockedPutAnswered
      <3>2. CleanMeansSaved'
        BY <1>2, <2>1, <3>1
      <3>3. CASE pass'.pc \in {"idle", "closeCheck"}
        BY <1>1, <3>2, <3>3
      <3>4. CASE /\ pass'.pc = "ensure" /\ pass'.task = pass.task
                 /\ pass'.body = pass.body /\ pass'.seq = pass.seq
        BY <1>3, <2>1, <3>1, <3>2, <3>4 DEF Saving
      <3> QED
        BY <3>1, <3>3, <3>4, WalkSteps, PassShape DEF TypeOK
    <2> QED
      BY <2>2, <2>3
  <1> QED
    BY <1>7, <1>8, <1>9, <1>10, <1>11, <1>12, <1>13, <1>14, <1>15, <1>16, <1>17, <1>18, <1>19
       DEF Next, PassStep, World

\* A room that is not dirty has its retained scene on the host.
THEOREM CleanIsSaved == Spec => []CleanMeansSaved
  <1>1. Init => PauseInv /\ SavedInv
    BY DEF Init, IdlePass, PauseInv, SavedInv, CleanMeansSaved, PutReplies, Putting, Attempting,
           Saving
  <1>2. TypeOK /\ PauseInv /\ SavedInv /\ [Next]_vars => (PauseInv /\ SavedInv)'
    <2>1. UNCHANGED vars /\ PauseInv /\ SavedInv => (PauseInv /\ SavedInv)'
      BY DEF PauseInv, SavedInv, CleanMeansSaved, Saving, Got, Body
    <2> QED
      BY <2>1, HostConstants, RoomConstants, PauseStep, SavedStep
  <1>3. SavedInv => CleanMeansSaved
    BY DEF SavedInv
  <1> QED
    BY <1>1, <1>2, <1>3, TypeCorrect, PTL DEF Spec

-----------------------------------------------------------------------------
(***************************************************************************)
(* Conflicts have a cause.                                                 *)
(***************************************************************************)
CallStep ==
    \/ Ensure \/ Acquire \/ Refresh \/ CheckVersion \/ UnlockOnClose \/ CollectIdle
    \/ Put \/ UnlockedPut

LocalStep ==
    \/ VersionChecked \/ LockStage \/ Relocked \/ Locked \/ Refreshed
    \/ Save \/ PutAnswered \/ UnlockedPutAnswered
    \/ Close \/ CloseCheck \/ UnlockedOnClose \/ Delete \/ IdleUnlocked \/ DeleteIdle

\* A step that makes no call drops the answer of the last one.
LEMMA LocalSteps ==
    ASSUME HostConstants, RoomConstants, TypeOK, LocalStep \/ Evaluate \/ Crash
    PROVE  /\ pass'.reply = NoReply
           /\ pass'.pc \notin {"checkReply", "refreshReply", "relockReply", "lockReply",
                               "unlockReply", "gcReply"} \cup PutReplies
           /\ UNCHANGED <<file, faults, lostPut, strangers>>
  <1>1. pass \in Pass /\ IdlePass \in Pass
    BY PassType DEF TypeOK
  <1>2. \A l : At(l).reply = NoReply /\ At(l).pc = l
    BY <1>1 DEF At, Pass
  <1>3. IdlePass.reply = NoReply /\ IdlePass.pc = "idle"
    BY DEF IdlePass
  <1>4. \A x, l : Planned(x, l).reply = NoReply /\ Planned(x, l).pc = l
    BY <1>1, <1>3 DEF Planned, Pass
  <1>5. /\ SaveStage.reply = NoReply /\ SaveStage.pc = "save"
        /\ SaveEnded.reply = NoReply /\ SaveEnded.pc \in {"idle", "closeCheck"}
    BY <1>1, <1>3 DEF SaveStage, SaveEnded, Pass
  <1>6. [At("acquire") EXCEPT !.retried = TRUE].reply = NoReply
        /\ [At("acquire") EXCEPT !.retried = TRUE].pc = "acquire"
    <2>1. At("acquire") \in Pass
      BY PassType DEF TypeOK, Labels, Calls
    <2> QED
      BY <1>2, <2>1 DEF Pass
  <1>7. \A l \in {"ensure", "refresh"} : NextCandidate(l) => pass'.reply = NoReply /\ pass'.pc = l
    <2> SUFFICES ASSUME NEW l \in {"ensure", "refresh"}, NextCandidate(l)
                 PROVE  pass'.reply = NoReply /\ pass'.pc = l
      OBVIOUS
    <2>1. PICK t \in pass.ladder \ {pass.cand} :
            pass' = [At(l) EXCEPT !.cand = t, !.ladder = @ \ {pass.cand}]
      BY DEF NextCandidate
    <2> QED
      BY <1>1, <2>1 DEF At, Pass
  <1>8. \A k : BeginSave(k) => pass'.reply = NoReply
                               /\ pass'.pc \in {"idle", "closeCheck", "ensure"}
    <2> SUFFICES ASSUME NEW k, BeginSave(k)
                 PROVE  pass'.reply = NoReply /\ pass'.pc \in {"idle", "closeCheck", "ensure"}
      OBVIOUS
    <2>1. CASE Ladder = {}
      BY <2>1 DEF BeginSave, IdlePass
    <2>2. CASE Ladder # {}
      <3>1. PICK t \in Heads(Ladder) :
              pass' = [IdlePass EXCEPT !.pc = "ensure", !.task = k, !.cand = t,
                                       !.ladder = Ladder, !.body = scene,
                                       !.seq = sceneSeq, !.first = ~firstSaveDone]
        BY <2>2 DEF BeginSave
      <3> QED
        BY <3>1 DEF IdlePass
    <2> QED
      BY <2>1, <2>2
  <1> DEFINE Plain == /\ pass'.reply = NoReply
                      /\ pass'.pc \notin {"checkReply", "refreshReply", "relockReply", "lockReply",
                                          "unlockReply", "gcReply"} \cup PutReplies
  <1>9. (SaveTriesNext \/ RefreshTriesNext) => Plain
    BY <1>5, <1>7 DEF SaveTriesNext, RefreshTriesNext, PutReplies
  <1>10. (LockHeld \/ LockFailed) => Plain
    BY <1>2, <1>5, <1>9 DEF LockHeld, LockFailed, PutReplies
  <1>11. (Relocked \/ Locked \/ Refreshed) => Plain
    <2>1. pass' \in {At("acquire"), [At("acquire") EXCEPT !.retried = TRUE], SaveStage,
                     At("ensure")} => Plain
      <3>1. CASE pass' = At("acquire") \/ pass' = At("ensure")
        <4>1. pass'.reply = NoReply /\ pass'.pc \in {"acquire", "ensure"}
          BY <1>2, <3>1
        <4> QED
          BY <4>1 DEF PutReplies
      <3>2. CASE pass' = [At("acquire") EXCEPT !.retried = TRUE]
        <4>1. pass'.reply = NoReply /\ pass'.pc = "acquire"
          BY <1>6, <3>2
        <4> QED
          BY <4>1 DEF PutReplies
      <3>3. CASE pass' = SaveStage
        <4>1. pass'.reply = NoReply /\ pass'.pc = "save"
          BY <1>5, <3>3
        <4> QED
          BY <4>1 DEF PutReplies
      <3> QED
        BY <3>1, <3>2, <3>3
    <2> HIDE DEF Plain
    <2>2. Relocked => Plain
      BY <1>10, <2>1 DEF Relocked, LockLostTo
    <2>3. Locked => Plain
      BY <1>10, <2>1 DEF Locked, LockLostTo
    <2>4. Refreshed => Plain
      BY <1>9, <2>1 DEF Refreshed
    <2> QED
      BY <2>2, <2>3, <2>4
  <1>12. (PutAnswered \/ UnlockedPutAnswered) => Plain
    BY <1>5, <1>9 DEF PutAnswered, UnlockedPutAnswered, SaveSucceeded, PutReplies
  <1>13. (Save \/ Close) => Plain
    BY <1>2, <1>3, <1>8 DEF Save, Close, PutReplies
  <1>14. (\/ VersionChecked \/ CloseCheck \/ UnlockedOnClose \/ Delete \/ IdleUnlocked
          \/ DeleteIdle \/ Crash) => Plain
    <2>1. pass' \in {IdlePass, At("unlock"), At("delete"), At("gcDelete")} => Plain
      BY <1>2, <1>3 DEF PutReplies
    <2>2. pass' = AfterCheck => Plain
      BY <1>4 DEF AfterCheck, PutReplies
    <2> HIDE DEF Plain
    <2> QED
      BY <2>1, <2>2 DEF VersionChecked, CloseCheck, UnlockedOnClose, Delete, IdleUnlocked,
                        DeleteIdle, Crash
  <1>15. Evaluate => Plain
    <2> SUFFICES ASSUME Evaluate PROVE Plain
      OBVIOUS
    <2>1. PICK r \in BOOLEAN, i \in BOOLEAN : StartPass(r, i)
      BY DEF Evaluate
    <2>2. PICK x, l : /\ pass' = Planned(x, l)
                      /\ l \in {"gc", "check", "close", "save", "lock"}
      BY <2>1 DEF StartPass
    <2> QED
      BY <1>4, <2>2 DEF PutReplies
  <1>16. LockStage => Plain
    <2> SUFFICES ASSUME LockStage PROVE Plain
      OBVIOUS
    <2>1. CASE pass' = SaveStage
      BY <1>5, <2>1 DEF PutReplies
    <2>2. CASE pass' # SaveStage
      <3>1. PICK t \in Heads(Ladder) :
                pass' = [IdlePass EXCEPT
                            !.cand = t,
                            !.ladder = IF pass.plan = "refresh" THEN Ladder ELSE {t},
                            !.pc = IF pass.plan = "refresh" THEN "refresh" ELSE "ensure",
                            !.task = IF pass.plan = "refresh" THEN "refresh" ELSE "eager"]
        BY <2>2 DEF LockStage
      <3>2. pass'.reply = NoReply /\ pass'.pc \in {"refresh", "ensure"}
        BY <3>1 DEF IdlePass
      <3> QED
        BY <3>2 DEF PutReplies
    <2> QED
      BY <2>1, <2>2
  <1>17. UNCHANGED <<file, faults, lostPut, strangers>>
    BY DEF LocalStep, Evaluate, StartPass, Crash, VersionChecked, LockStage, Relocked, Locked,
           Refreshed, Save, PutAnswered, UnlockedPutAnswered, Close, CloseCheck,
           UnlockedOnClose, Delete, IdleUnlocked, DeleteIdle
  <1> QED
    BY <1>11, <1>12, <1>13, <1>14, <1>15, <1>16, <1>17 DEF LocalStep

\* A call neither finds nor leaves a stranger's lock where there was none.
LEMMA CallLocks ==
    ASSUME HostConstants, RoomConstants, TypeOK, CallStep,
           file.lock \notin OtherLocks, pass.reply.lock \notin OtherLocks
    PROVE  file'.lock \notin OtherLocks /\ pass'.reply.lock \notin OtherLocks
  <1>1. file \in File /\ OurLock \notin OtherLocks /\ NoLock \notin OtherLocks
    BY DEF TypeOK, CallTypes, HostConstants
  <1>2. ASSUME NEW t, NEW r, NEW p \in Pass, Call(t, r, p), r.file.lock \notin OtherLocks,
               r.reply.lock \notin OtherLocks
        PROVE  file'.lock \notin OtherLocks /\ pass'.reply.lock \notin OtherLocks
    BY <1>1, <1>2, CallEffect
  <1>3. CASE Ensure \/ Acquire
    <2>1. \A r \in {Lock(file, OurLock), UnlockAndRelock(file, OurLock, forceUnlock)} :
            r.file.lock \notin OtherLocks /\ r.reply.lock \notin OtherLocks
      BY <1>1, Operations
    <2> QED
      BY <1>2, <1>3, <2>1, CallForms
  <1>4. CASE Refresh
    <2>1. RefreshLock(file, OurLock).file.lock \notin OtherLocks
          /\ RefreshLock(file, OurLock).reply.lock \notin OtherLocks
      BY <1>1, Operations
    <2> QED
      BY <1>2, <1>4, <2>1, CallForms
  <1>5. CASE Put \/ UnlockedPut
    <2>1. \A v : PutFile(file, v, Body(pass.body)).file.lock \notin OtherLocks
                 /\ PutFile(file, v, Body(pass.body)).reply.lock \notin OtherLocks
      BY <1>1, Operations
    <2> QED
      BY <1>2, <1>5, <2>1, CallForms
  <1>6. CASE CheckVersion
    <2>1. CheckFileInfo(file).file.lock \notin OtherLocks
          /\ CheckFileInfo(file).reply.lock \notin OtherLocks
      BY <1>1, Operations
    <2>2. AfterCheck.reply.lock = NoLock
      BY DEF AfterCheck, Planned, IdlePass, NoReply, Answer
    <2> QED
      BY <1>1, <1>2, <1>6, <2>1, <2>2, CallForms
  <1>7. CASE UnlockOnClose \/ CollectIdle
    <2>1. Unlock(file, OurLock).file.lock \notin OtherLocks
          /\ Unlock(file, OurLock).reply.lock \notin OtherLocks
      BY <1>1, Operations
    <2>2. \A l : At(l).reply.lock = NoLock
      BY DEF TypeOK, At, Pass, NoReply, Answer
    <2> QED
      BY <1>1, <1>2, <1>7, <2>1, <2>2, CallForms
  <1> QED
    BY <1>3, <1>4, <1>5, <1>6, <1>7 DEF CallStep

LEMMA CauseStep ==
    ASSUME HostConstants, RoomConstants, TypeOK, TypeOK', SavedInv, CauseInv, Next
    PROVE  CauseInv'
  <1> USE DEF PutReplies
  <1>1. CASE (Handler \/ World) /\ ~Crash
    <2>1. pass' = pass
      BY <1>1, QuietPass
    <2>2. CASE StrangerActs
      <3>1. strangers' # 0 /\ strangers' > 0
        BY <2>2 DEF StrangerActs, TypeOK, WorldTypes
      <3> QED
        BY <3>1 DEF CauseInv, ConflictHasCause
    <2>3. CASE ~StrangerActs
      <3>1. UNCHANGED <<file, strangers, lostPut>> /\ expected' \in {expected, NoVersion}
        BY <1>1, <2>3 DEF Handler, World, Observe, PutScene, OnJoin, OnLeave, ResolveOverwrite,
             ResolveReload, SaveTimerElapses, CloseGraceElapses, FailedTokenRetried, TokenExpires
      <3>2. conflict' => conflict
        BY <1>1, <2>3 DEF Handler, World, Observe, PutScene, OnJoin, OnLeave, ResolveOverwrite,
             ResolveReload, Resolved, SaveTimerElapses, CloseGraceElapses, FailedTokenRetried,
             TokenExpires
      <3>3. Got("ok")' <=> Got("ok")
        BY <2>1 DEF Got
      <3> QED
        BY <2>1, <3>1, <3>2, <3>3 DEF CauseInv, ConflictHasCause
    <2> QED
      BY <2>2, <2>3
  <1>2. CASE LocalStep \/ Evaluate \/ Crash
    <2>1. /\ pass'.reply = NoReply
          /\ pass'.pc # "checkReply"
          /\ UNCHANGED <<file, lostPut, strangers>>
      BY <1>2, LocalSteps
    <2>2. NoReply.lock \notin OtherLocks
      BY DEF HostConstants, NoReply, Answer
    <2>3. (strangers = 0 /\ ~lostPut) => expected' \in {NoVersion, file.content}
      <3>1. CASE PutAnswered \/ UnlockedPutAnswered
        <4>1. pass.pc \in PutReplies
          BY <3>1 DEF PutAnswered, UnlockedPutAnswered
        <4>2. \/ Got("ok") /\ expected' = pass.reply.version
              \/ ~Got("ok") /\ expected' = expected
          BY <3>1 DEF PutAnswered, UnlockedPutAnswered, SaveSucceeded, SavedVersion, GotLock, Got
        <4>3. CASE Got("ok") /\ expected' = pass.reply.version
          BY <4>1, <4>3 DEF SavedInv
        <4>4. CASE ~Got("ok") /\ expected' = expected
          BY <4>4 DEF CauseInv
        <4> QED
          BY <4>2, <4>3, <4>4
      <3>2. CASE Delete \/ DeleteIdle \/ Crash
        <4>1. CASE expected' = NoVersion
          BY <4>1
        <4>2. CASE expected' = expected /\ pass.pc \notin PutReplies
          BY <4>2 DEF CauseInv
        <4> QED
          BY <3>2, <4>1, <4>2 DEF Delete, DeleteIdle, Crash, Forget
      <3>3. CASE \/ VersionChecked \/ LockStage \/ Relocked \/ Locked \/ Refreshed \/ Save
                 \/ Close \/ CloseCheck \/ UnlockedOnClose \/ IdleUnlocked \/ Evaluate
        <4>1. expected' = expected /\ pass.pc \notin PutReplies
          BY <3>3 DEF Evaluate, StartPass, VersionChecked, LockStage, Relocked, Locked, Refreshed,
                      Save, Close, CloseCheck, UnlockedOnClose, IdleUnlocked
        <4> QED
          BY <4>1 DEF CauseInv
      <3> QED
        BY <1>2, <3>1, <3>2, <3>3 DEF LocalStep
    <2>4. ASSUME GotLock(OtherLocks) PROVE strangers > 0
      <3>1. strangers # 0
        BY <2>4 DEF CauseInv, GotLock
      <3> QED
        BY <3>1 DEF TypeOK, WorldTypes
    <2>5. conflict' => (strangers > 0 \/ lostPut)
      <3>1. CASE conflict' => conflict
        BY <3>1 DEF CauseInv, ConflictHasCause
      <3>2. CASE GotLock(OtherLocks)
        BY <2>4, <3>2
      <3>3. CASE VersionChecked
        <4>1. CASE Got("ok") /\ pass.reply.version # pass.want
          <5>1. strangers # 0 \/ lostPut
            BY <3>3, <4>1 DEF VersionChecked, CauseInv
          <5> QED
            BY <5>1 DEF TypeOK, WorldTypes
        <4>2. CASE ~(Got("ok") /\ pass.reply.version # pass.want)
          BY <3>1, <3>3, <4>2 DEF VersionChecked
        <4> QED
          BY <4>1, <4>2
      <3>4. CASE Relocked \/ Locked \/ Refreshed \/ PutAnswered
        BY <3>1, <3>2, <3>4 DEF Relocked, Locked, Refreshed, PutAnswered, LockHeld
      <3>5. CASE \/ LockStage \/ Save \/ UnlockedPutAnswered \/ Close \/ CloseCheck
                 \/ UnlockedOnClose \/ Delete \/ IdleUnlocked \/ DeleteIdle \/ Evaluate \/ Crash
        BY <3>1, <3>5 DEF LockStage, Save, UnlockedPutAnswered, Close, CloseCheck,
             UnlockedOnClose, Delete, IdleUnlocked, DeleteIdle, Evaluate, StartPass, Crash, Forget
      <3> QED
        BY <1>2, <3>3, <3>4, <3>5 DEF LocalStep
    <2> QED
      BY <2>1, <2>2, <2>3, <2>5 DEF CauseInv, ConflictHasCause
  <1>3. CASE CallStep
    <2>1. UNCHANGED <<expected, conflict, strangers>>
      BY <1>3 DEF CallStep, Ensure, Acquire, Refresh, CheckVersion, UnlockOnClose, CollectIdle,
                  Put, UnlockedPut
    <2>2. strangers = 0 => file'.lock \notin OtherLocks /\ pass'.reply.lock \notin OtherLocks
      BY <1>3, CallLocks DEF CauseInv
    <2>3. pass.pc \notin PutReplies
      BY <1>3 DEF CallStep, Ensure, Acquire, Refresh, CheckVersion, UnlockOnClose, CollectIdle,
                  Put, UnlockedPut
    <2>4. /\ lostPut => lostPut'
          /\ (~lostPut' /\ file'.content # file.content) =>
                pass'.pc \in PutReplies /\ pass'.reply.code = "ok"
      <3>1. lostPut \in BOOLEAN /\ lostPut' \in BOOLEAN /\ file \in File
        BY DEF TypeOK, CallTypes
      <3>2. CASE Put \/ UnlockedPut
        <4>1. pass'.pc \in PutReplies
          BY <3>2, CallSteps
        <4>2. PICK t, v : \E p \in Pass : Call(t, PutFile(file, v, Body(pass.body)), p)
          BY <3>2, CallForms
        <4>3. PICK p \in Pass : Call(t, PutFile(file, v, Body(pass.body)), p)
          BY <4>2
        <4> DEFINE r == PutFile(file, v, Body(pass.body))
        <4>4. /\ lostPut => lostPut'
              /\ (lostPut' = FALSE /\ file'.content # file.content)
                   => file' = r.file /\ pass'.reply = r.reply
          BY <4>3, CallEffect
        <4>5. r.reply.code # "ok" => r.file = file
          BY <3>1, Operations
        <4> QED
          BY <3>1, <4>1, <4>4, <4>5
      <3>3. CASE \/ Ensure \/ Acquire \/ Refresh \/ CheckVersion \/ UnlockOnClose \/ CollectIdle
        <4>1. file'.content = file.content
          BY <3>3, ContentSteps
        <4>2. lostPut => lostPut'
          <5>1. CASE UNCHANGED callVars
            BY <5>1
          <5>2. ASSUME NEW t, NEW r, NEW p \in Pass, Call(t, r, p) PROVE lostPut => lostPut'
            BY <5>2, CallEffect
          <5> QED
            BY <3>3, <5>1, <5>2, CallForms
        <4> QED
          BY <4>1, <4>2
      <3> QED
        BY <1>3, <3>2, <3>3 DEF CallStep
    <2>5. (strangers = 0 /\ ~lostPut' /\ pass'.pc = "checkReply" /\ pass'.reply.code = "ok")
            => pass'.reply.version = pass'.want
      <3>1. ASSUME CheckVersion, strangers = 0, ~lostPut, pass'.pc = "checkReply",
                   pass'.reply.code = "ok"
            PROVE  pass'.reply.version = pass'.want
        <4>1. expected # NoVersion
              /\ \E t : \E p \in Pass : p.want = expected /\ Call(t, CheckFileInfo(file), p)
          BY <3>1, CallForms, PassShape DEF TypeOK
        <4>2. PICK t, p : p \in Pass /\ p.want = expected /\ Call(t, CheckFileInfo(file), p)
          BY <4>1
        <4>3. pass'.reply = CheckFileInfo(file).reply /\ pass'.want = expected
          BY <3>1, <4>2, CallEffect, CallShape
        <4>4. CheckFileInfo(file).reply.version = file.content
          BY Operations DEF TypeOK, CallTypes
        <4>5. expected = file.content
          BY <2>3, <3>1, <4>1 DEF CauseInv
        <4> QED
          BY <4>3, <4>4, <4>5
      <3>2. pass'.pc = "checkReply" => CheckVersion
        BY <1>3, CallSteps DEF CallStep, PutReplies
      <3> QED
        BY <2>4, <3>1, <3>2 DEF TypeOK, CallTypes
    <2>6. (strangers = 0 /\ ~lostPut') =>
            \/ expected \in {NoVersion, file'.content}
            \/ pass'.pc \in PutReplies /\ pass'.reply.code = "ok"
      BY <2>3, <2>4 DEF CauseInv
    <2> QED
      BY <2>1, <2>2, <2>4, <2>5, <2>6 DEF CauseInv, ConflictHasCause, Got
  <1> QED
    BY <1>1, <1>2, <1>3 DEF Next, PassStep, CallStep, LocalStep, World

\* A room is never in a conflict with its own writes: somebody else has
\* touched the file, or the answer to a put was lost.
THEOREM ConflictCaused == Spec => []ConflictHasCause
  <1>1. Init => PauseInv /\ SavedInv /\ CauseInv
    <2>1. Init => PauseInv /\ SavedInv
      BY DEF Init, IdlePass, PauseInv, SavedInv, CleanMeansSaved, PutReplies, Putting,
             Attempting, Saving
    <2>2. Init => CauseInv
      BY HostConstants
         DEF Init, IdlePass, NoReply, Answer, CauseInv, ConflictHasCause, HostConstants
    <2> QED
      BY <2>1, <2>2
  <1>2. TypeOK /\ TypeOK' /\ PauseInv /\ SavedInv /\ CauseInv /\ [Next]_vars
          => (PauseInv /\ SavedInv /\ CauseInv)'
    <2>1. UNCHANGED vars /\ PauseInv /\ SavedInv => (PauseInv /\ SavedInv)'
      BY DEF PauseInv, SavedInv, CleanMeansSaved, Saving, Got, Body
    <2>2. UNCHANGED vars /\ CauseInv => CauseInv'
      BY DEF CauseInv, ConflictHasCause, Got
    <2> QED
      BY <2>1, <2>2, HostConstants, RoomConstants, PauseStep, SavedStep, CauseStep
  <1>3. CauseInv => ConflictHasCause
    BY DEF CauseInv
  <1> QED
    BY <1>1, <1>2, <1>3, TypeCorrect, PTL DEF Spec

-----------------------------------------------------------------------------
(***************************************************************************)
(* A lock that is held is held.                                            *)
(***************************************************************************)

\* While no call fails, a lock call takes the lock or is told it is another's.
LEMMA LockCalls ==
    ASSUME HostConstants, RoomConstants, TypeOK, faults' = faults,
           Ensure \/ Acquire \/ Refresh
    PROVE  \/ file'.lock = OurLock
           \/ file' = file /\ pass'.reply.code # "ok" /\ pass'.reply.lock # OurLock
  <1>1. file \in File /\ NoLock # OurLock
    BY DEF TypeOK, CallTypes, HostConstants
  <1>2. Answer("tokenRejected").code # "ok" /\ Answer("tokenRejected").lock = NoLock
    BY DEF Answer
  <1>3. ASSUME NEW t, NEW r, NEW p \in Pass, Call(t, r, p),
               r.reply.code = "ok" => r.file.lock = OurLock,
               r.reply.code # "ok" => r.file = file /\ r.reply.lock = file.lock
        PROVE  \/ file'.lock = OurLock
               \/ file' = file /\ pass'.reply.code # "ok" /\ pass'.reply.lock # OurLock
    <2>1. CASE file' = r.file /\ pass'.reply = r.reply
      BY <1>3, <2>1
    <2>2. CASE file' = file /\ pass'.reply = Answer("tokenRejected")
      BY <1>1, <1>2, <2>2
    <2> QED
      BY <1>3, <2>1, <2>2, CallEffect
  <1>4. CASE Ensure \/ Acquire
    <2>1. \A r \in {Lock(file, OurLock), UnlockAndRelock(file, OurLock, forceUnlock)} :
            /\ r.reply.code = "ok" => r.file.lock = OurLock
            /\ r.reply.code # "ok" => r.file = file /\ r.reply.lock = file.lock
      BY <1>1, Operations
    <2> QED
      BY <1>3, <1>4, <2>1, CallForms
  <1>5. CASE Refresh
    <2> DEFINE r == RefreshLock(file, OurLock)
    <2>1. /\ r.reply.code = "ok" => r.file.lock = OurLock
          /\ r.reply.code # "ok" => r.file = file /\ r.reply.lock = file.lock
      BY <1>1, Operations
    <2>2. PICK t : \E p \in Pass : Call(t, r, p)
      BY <1>5, CallForms
    <2> HIDE DEF r
    <2> QED
      BY <1>3, <2>1, <2>2
  <1> QED
    BY <1>4, <1>5

\* While no call fails, a lock that is given back is gone once the host says
\* so, and no other call touches it.
LEMMA OtherCalls ==
    ASSUME HostConstants, RoomConstants, TypeOK, faults' = faults
    PROVE  /\ (UnlockOnClose \/ CollectIdle) =>
                \/ file' = file
                \/ pass'.reply.code = "ok" /\ pass'.pc \in {"unlockReply", "gcReply"}
           /\ (Put \/ UnlockedPut \/ CheckVersion) => file'.lock = file.lock
  <1>1. file \in File
    BY DEF TypeOK, CallTypes
  <1>2. (UnlockOnClose \/ CollectIdle) =>
            \/ file' = file
            \/ pass'.reply.code = "ok" /\ pass'.pc \in {"unlockReply", "gcReply"}
    <2> SUFFICES ASSUME UnlockOnClose \/ CollectIdle
                 PROVE  \/ file' = file
                        \/ pass'.reply.code = "ok" /\ pass'.pc \in {"unlockReply", "gcReply"}
      OBVIOUS
    <2>1. Unlock(file, OurLock).reply.code # "ok" => Unlock(file, OurLock).file = file
      BY <1>1, Operations
    <2>2. ASSUME NEW t, NEW l \in {"unlockReply", "gcReply"},
                 Call(t, Unlock(file, OurLock), At(l))
          PROVE  \/ file' = file
                 \/ pass'.reply.code = "ok" /\ pass'.pc \in {"unlockReply", "gcReply"}
      <3>1. l \in Labels
        BY DEF Labels, Replies
      <3>2. /\ pass'.pc = l
            /\ \E p \in Pass : Call(t, Unlock(file, OurLock), p)
        BY <2>2, <3>1, CallFrom
      <3> QED
        BY <2>1, <3>2, CallEffect
    <2>3. CASE UNCHANGED callVars
      BY <2>3
    <2>4. CASE ~UNCHANGED callVars
      <3>1. PICK l \in {"unlockReply", "gcReply"} :
              \E t : Call(t, Unlock(file, OurLock), At(l))
        BY <2>4 DEF UnlockOnClose, CollectIdle
      <3> QED
        BY <2>2, <3>1
    <2> QED
      BY <2>3, <2>4
  <1>3. Put \/ UnlockedPut => file'.lock = file.lock
    <2>1. \A v : PutFile(file, v, Body(pass.body)).file.lock = file.lock
      BY <1>1, Operations
    <2>2. ASSUME NEW t, NEW p \in Pass, NEW v, Call(t, PutFile(file, v, Body(pass.body)), p)
          PROVE  file'.lock = file.lock
      BY <2>1, <2>2, CallEffect
    <2> QED
      BY <2>2, CallForms
  <1>4. CheckVersion => file'.lock = file.lock
    <2>1. CheckFileInfo(file).file = file
      BY <1>1, Operations
    <2>2. ASSUME NEW t, NEW p \in Pass, Call(t, CheckFileInfo(file), p)
          PROVE  file'.lock = file.lock
      BY <2>1, <2>2, CallEffect
    <2> QED
      BY <2>2, CallForms
  <1> QED
    BY <1>2, <1>3, <1>4

LEMMA HeldStep ==
    ASSUME HostConstants, RoomConstants, TypeOK, TypeOK', HeldInv, Next
    PROVE  HeldInv'
  <1> DEFINE Asking == {"relockReply", "lockReply", "refreshReply"}
             Unlocking == {"unlockReply", "gcReply"}
             Told == \/ file'.lock = OurLock
                     \/ /\ haveLock' => (pass'.pc \in Unlocking /\ pass'.reply.code = "ok")
                        /\ pass'.pc \in Asking =>
                              pass'.reply.code # "ok" /\ pass'.reply.lock # OurLock
  <1>1. Told => HeldInv'
    BY DEF HeldInv, Got, GotLock
  <1>2. \/ strangers # 0 \/ faults # 0
        \/ file.lock = OurLock
        \/ /\ haveLock => (pass.pc \in Unlocking /\ Got("ok"))
           /\ pass.pc \in Asking => ~Got("ok") /\ ~GotLock({OurLock})
    BY DEF HeldInv
  <1>3. CASE (Handler \/ World) /\ ~Crash
    <2>1. pass' = pass
      BY <1>3, QuietPass
    <2>2. CASE StrangerActs
      <3>1. strangers' # 0
        BY <2>2 DEF StrangerActs, TypeOK, WorldTypes
      <3> QED
        BY <3>1 DEF HeldInv
    <2>3. CASE ~StrangerActs
      <3>1. UNCHANGED <<file, strangers, faults, haveLock>>
        BY <1>3, <2>3 DEF Handler, World, Observe, PutScene, OnJoin, OnLeave, ResolveOverwrite,
             ResolveReload, Resolved, SaveTimerElapses, CloseGraceElapses, FailedTokenRetried,
             TokenExpires
      <3> QED
        BY <2>1, <3>1 DEF HeldInv, Got, GotLock
    <2> QED
      BY <2>2, <2>3
  <1>4. CASE LocalStep \/ Evaluate \/ Crash
    <2>1. /\ pass'.pc \notin Asking
          /\ UNCHANGED <<file, faults, strangers>>
      BY <1>4, LocalSteps
    <2>2. CASE strangers # 0 \/ faults # 0 \/ file.lock = OurLock
      BY <2>1, <2>2 DEF HeldInv
    <2>3. CASE /\ haveLock => (pass.pc \in Unlocking /\ Got("ok"))
               /\ pass.pc \in Asking => ~Got("ok") /\ ~GotLock({OurLock})
      <3> SUFFICES ~haveLock'
        BY <1>1, <2>1
      <3>1. CASE Relocked \/ Locked \/ Refreshed
        <4>1. pass.pc \in Asking
          BY <3>1 DEF Relocked, Locked, Refreshed
        <4>2. ~haveLock /\ ~Got("ok") /\ ~GotLock({OurLock})
          BY <2>3, <4>1
        <4>4. \A l : EnterConflict(l, TRUE) => ~haveLock'
          BY DEF EnterConflict
        <4>5. Relocked => ~haveLock'
          BY <4>2, <4>4 DEF Relocked, LockLostTo
        <4>6. Locked => ~haveLock'
          BY <4>2, <4>4 DEF Locked, LockLostTo
        <4>7. Refreshed => ~haveLock'
          BY <4>2, <4>4 DEF Refreshed
        <4> QED
          BY <3>1, <4>5, <4>6, <4>7
      <3>2. CASE UnlockedOnClose \/ IdleUnlocked
        BY <2>3, <3>2 DEF UnlockedOnClose, IdleUnlocked, StillHeld
      <3>3. CASE Delete \/ Crash
        BY <3>3 DEF Delete, Crash, Forget
      <3>4. CASE DeleteIdle
        BY <2>3, <3>4 DEF DeleteIdle, Forget
      <3>5. CASE VersionChecked \/ PutAnswered
        <4>1. ~haveLock
          BY <2>3, <3>5 DEF VersionChecked, PutAnswered
        <4> QED
          BY <3>5, <4>1 DEF VersionChecked, PutAnswered, EnterConflict
      <3>6. CASE \/ LockStage \/ Save \/ UnlockedPutAnswered \/ Close \/ CloseCheck \/ Evaluate
        <4>1. LockStage \/ Evaluate => haveLock' = haveLock /\ pass.pc \notin Unlocking
          BY DEF LockStage, Evaluate, StartPass
        <4>2. Save \/ UnlockedPutAnswered \/ Close \/ CloseCheck
                => haveLock' = haveLock /\ pass.pc \notin Unlocking
          BY DEF Save, UnlockedPutAnswered, Close, CloseCheck
        <4> QED
          BY <2>3, <3>6, <4>1, <4>2
      <3> QED
        BY <1>4, <3>1, <3>2, <3>3, <3>4, <3>5, <3>6 DEF LocalStep
    <2> QED
      BY <1>2, <2>2, <2>3
  <1>5. CASE CallStep
    <2>1. haveLock' = haveLock /\ strangers' = strangers /\ pass.pc \notin Unlocking
      BY <1>5 DEF CallStep, Ensure, Acquire, Refresh, CheckVersion, UnlockOnClose, CollectIdle,
                  Put, UnlockedPut
    <2>2. faults' = faults \/ (faults' # 0 /\ faults' = faults + 1)
      <3>1. ASSUME NEW t, NEW r, NEW p, Call(t, r, p)
            PROVE  faults' \in {faults, faults + 1}
        BY <3>1 DEF Call, Served, Refused, Faulty
      <3>2. faults' \in {faults, faults + 1}
        <4>1. CASE UNCHANGED callVars
          BY <4>1
        <4>2. CASE \E t, r, p : Call(t, r, p)
          BY <3>1, <4>2
        <4>3. UNCHANGED callVars \/ \E t, r, p : Call(t, r, p)
          BY <1>5, CallForms DEF CallStep
        <4> QED
          BY <4>1, <4>2, <4>3
      <3> QED
        BY <3>2 DEF TypeOK, CallTypes
    <2>3. CASE strangers # 0 \/ faults' # faults \/ faults # 0
      BY <2>1, <2>2, <2>3 DEF HeldInv, TypeOK, CallTypes
    <2>4. CASE strangers = 0 /\ faults = 0 /\ faults' = faults
      <3>1. file.lock = OurLock \/ ~haveLock
        BY <1>2, <2>1, <2>4
      <3>2. CASE Ensure \/ Acquire \/ Refresh
        <4>1. ~haveLock' \/ file.lock = OurLock
          BY <2>1, <3>1
        <4> QED
          BY <1>1, <2>4, <3>2, <4>1, LockCalls
      <3>3. CASE UnlockOnClose \/ CollectIdle
        <4>1. pass'.pc \notin Asking
          BY <3>3, CallSteps
        <4> QED
          BY <1>1, <2>1, <2>4, <3>1, <3>3, <4>1, OtherCalls
      <3>4. CASE Put \/ UnlockedPut \/ CheckVersion
        <4>1. pass'.pc \notin Asking
          BY <3>4, CallSteps
        <4> QED
          BY <1>1, <2>1, <2>4, <3>1, <3>4, <4>1, OtherCalls
      <3> QED
        BY <1>5, <3>2, <3>3, <3>4 DEF CallStep
    <2> QED
      BY <2>3, <2>4
  <1> QED
    BY <1>3, <1>4, <1>5 DEF Next, PassStep, CallStep, LocalStep, World

\* A room that believes it holds the lock holds it, for every room of every
\* size: only a stranger or a failed call can make it believe wrongly.
THEOREM HeldIsHeld == Spec => []HaveLockMeansLocked
  <1>1. Init => HeldInv
    BY DEF Init, IdlePass, HeldInv
  <1>2. TypeOK /\ TypeOK' /\ HeldInv /\ [Next]_vars => HeldInv'
    <2>1. UNCHANGED vars /\ HeldInv => HeldInv'
      BY DEF HeldInv, Got, GotLock
    <2> QED
      BY <2>1, HostConstants, RoomConstants, HeldStep
  <1>3. HeldInv => HaveLockMeansLocked
    BY DEF HeldInv, HaveLockMeansLocked
  <1> QED
    BY <1>1, <1>2, <1>3, TypeCorrect, PTL DEF Spec

-----------------------------------------------------------------------------
(***************************************************************************)
(* The room's count of its live users.                                     *)
(***************************************************************************)
LEMMA LiveStep ==
    ASSUME HostConstants, RoomConstants, TypeOK, LiveInv, Next
    PROVE  LiveInv'
  <1> USE DEF LiveInv, LiveNeverOvercounts
  <1>1. live \in Nat /\ members \in Nat
    BY DEF TypeOK, RoomTypes, WorldTypes
  <1>2. CASE OnJoin
    BY <1>1, <1>2 DEF OnJoin
  <1>3. CASE OnLeave
    <2>1. members' = members - 1 /\ members > 0 /\ fileKnown' = fileKnown
      BY <1>3 DEF OnLeave
    <2>2. live' = IF fileKnown /\ live > 0 THEN live - 1 ELSE live
      BY <1>3 DEF OnLeave, Left
    <2> QED
      BY <1>1, <2>1, <2>2
  <1>4. CASE Delete \/ DeleteIdle \/ Crash
    BY <1>1, <1>4 DEF Delete, DeleteIdle, Crash, Forget
  <1>5. CASE \E t \in Tokens : Observe(t)
    BY <1>5 DEF Observe
  <1>6. CASE \/ \E u \in Users, s \in Scenes : PutScene(u, s)
             \/ \E u \in Users : ResolveOverwrite(u) \/ ResolveReload(u)
             \/ World /\ ~Crash
    BY <1>6 DEF PutScene, ResolveOverwrite, ResolveReload, Resolved, World, SaveTimerElapses,
                CloseGraceElapses, FailedTokenRetried, TokenExpires, StrangerActs
  <1>7. CASE PassStep /\ ~Delete /\ ~DeleteIdle
    <2>1. CallStep => UNCHANGED <<live, members, fileKnown>>
      BY DEF CallStep, CheckVersion, Ensure, Acquire, Refresh, Put, UnlockedPut, UnlockOnClose,
             CollectIdle
    <2>2. VersionChecked \/ LockStage \/ Relocked \/ Locked \/ Refreshed
            => UNCHANGED <<live, members, fileKnown>>
      BY DEF VersionChecked, LockStage, Relocked, Locked, Refreshed
    <2>3. Save \/ PutAnswered \/ UnlockedPutAnswered => UNCHANGED <<live, members, fileKnown>>
      BY DEF Save, PutAnswered, UnlockedPutAnswered
    <2>4. Close \/ CloseCheck \/ UnlockedOnClose \/ IdleUnlocked
            => UNCHANGED <<live, members, fileKnown>>
      BY DEF Close, CloseCheck, UnlockedOnClose, IdleUnlocked
    <2> QED
      BY <1>7, <2>1, <2>2, <2>3, <2>4 DEF PassStep, CallStep
  <1>8. CASE Evaluate
    BY <1>8 DEF Evaluate, StartPass
  <1> QED
    BY <1>2, <1>3, <1>4, <1>5, <1>6, <1>7, <1>8 DEF Next, Handler

\* A room never counts more users than are joined, whatever joins and leaves
\* it missed while the Manager did not know the file.
THEOREM LiveCounted == Spec => []LiveNeverOvercounts
  <1>1. Init => LiveInv
    BY DEF Init, LiveInv, LiveNeverOvercounts
  <1>2. TypeOK /\ LiveInv /\ [Next]_vars => LiveInv'
    <2>1. UNCHANGED vars /\ LiveInv => LiveInv'
      BY DEF LiveInv, LiveNeverOvercounts
    <2> QED
      BY <2>1, HostConstants, RoomConstants, LiveStep
  <1>3. LiveInv => LiveNeverOvercounts
    BY DEF LiveInv
  <1> QED
    BY <1>1, <1>2, <1>3, TypeCorrect, PTL DEF Spec

-----------------------------------------------------------------------------
(***************************************************************************)
(* A room that goes leaves no lock behind.                                 *)
(***************************************************************************)

\* Nothing has gone wrong so far.
Undisturbed == faults = 0 /\ crashes = 0 /\ expired = {} /\ WriteTokens = Tokens

\* Every tracked token is on the ladder.
Tracked == failed = {} /\ TokensOf(tokens) \subseteq canWrite

\* The answers on their way are the host's own, and those that name another
\* lock than the room's say so of the file.
Answered ==
    pass.pc \in Replies =>
        /\ pass.reply.code \in {"ok", "lockConflict"}
        /\ (Got("lockConflict") /\ file.lock = OurLock) =>
              pass.pc \in {"relockReply", "unlockedPutReply"} /\ pass.reply.lock = OurLock

\* While the file carries the room's lock there is a room that knows it, or
\* is about to learn it, and has a token to give it back with.
Attended ==
    file.lock = OurLock =>
        /\ exists
        /\ TokensOf(tokens) # {}
        /\ haveLock \/ (pass.pc \in {"relockReply", "lockReply"} /\ Got("ok"))
        /\ pass.pc \notin {"unlockReply", "gcReply", "delete"}

ReleaseInv ==
    Undisturbed =>
        /\ pass.pc # "idle" => exists
        /\ pass.pc \in Walking => TokensOf(tokens) # {}
        /\ Tracked /\ Answered /\ Attended

\* The lock stage only chooses a candidate.
LEMMA LockStageFrame ==
    LockStage => /\ pass.pc = "lock"
                 /\ UNCHANGED <<roomVars, callVars, worldVars, decisionVars>>
  <1>1. LockStage => pass.pc = "lock"
    BY Zenon DEF LockStage
  <1>2. LockStage => UNCHANGED <<roomVars, callVars, worldVars, decisionVars>>
    BY Zenon DEF LockStage
  <1> QED
    BY <1>1, <1>2

\* What went wrong stays on record.
LEMMA UndisturbedBefore ==
    ASSUME HostConstants, RoomConstants, TypeOK, Next, Undisturbed'
    PROVE  Undisturbed /\ ~Crash /\ faults' = faults
  <1>1. faults \in Nat /\ crashes \in Nat
    BY DEF TypeOK, CallTypes, WorldTypes
  <1>2. faults' \in {faults, faults + 1}
    <2>1. ASSUME NEW t, NEW r, NEW p, Call(t, r, p) PROVE faults' \in {faults, faults + 1}
      BY <2>1 DEF Call, Served, Refused, Faulty
    <2>2. CASE CallStep
      <3>1. UNCHANGED callVars \/ \E t, r, p : Call(t, r, p)
        BY <2>2, CallForms DEF CallStep
      <3> QED
        BY <2>1, <3>1
    <2>3. CASE LocalStep \/ Evaluate \/ Crash
      BY <2>3, LocalSteps
    <2>4. CASE (Handler \/ World) /\ ~Crash
      BY <2>4 DEF Handler, World, Observe, PutScene, OnJoin, OnLeave, ResolveOverwrite,
         ResolveReload, SaveTimerElapses, CloseGraceElapses, FailedTokenRetried, TokenExpires,
         StrangerActs
    <2> QED
      BY <2>2, <2>3, <2>4 DEF Next, PassStep, CallStep, LocalStep, World
  <1>3. CASE Crash
    <2>1. crashes' = crashes + 1
      BY <1>3 DEF Crash
    <2> QED
      BY <1>1, <2>1 DEF Undisturbed
  <1>4. CASE ~Crash
    <2>1. CallStep \/ LocalStep \/ Evaluate => UNCHANGED <<crashes, expired>>
      <3>1. CallStep => UNCHANGED worldVars
        BY DEF CallStep, Ensure, Acquire, Refresh, CheckVersion, UnlockOnClose, CollectIdle,
               Put, UnlockedPut
      <3>2. /\ VersionChecked \/ LockStage => UNCHANGED worldVars
            /\ Relocked \/ Locked \/ Refreshed => UNCHANGED worldVars
        <4>1. VersionChecked => UNCHANGED worldVars
          BY DEF VersionChecked
        <4>2. LockStage => UNCHANGED worldVars
          BY LockStageFrame
        <4>3. Relocked \/ Locked => UNCHANGED worldVars
          BY DEF Relocked, Locked
        <4>4. Refreshed => UNCHANGED worldVars
          BY DEF Refreshed
        <4> QED
          BY <4>1, <4>2, <4>3, <4>4
      <3>3. Save \/ PutAnswered \/ UnlockedPutAnswered => UNCHANGED worldVars
        BY DEF Save, PutAnswered, UnlockedPutAnswered
      <3>4. Close \/ CloseCheck \/ UnlockedOnClose \/ Delete \/ IdleUnlocked \/ DeleteIdle
              => UNCHANGED worldVars
        BY DEF Close, CloseCheck, UnlockedOnClose, Delete, IdleUnlocked, DeleteIdle
      <3>5. Evaluate => UNCHANGED worldVars
        BY DEF Evaluate, StartPass
      <3> QED
        BY <3>1, <3>2, <3>3, <3>4, <3>5 DEF LocalStep
    <2>2. (Handler \/ World) => crashes' = crashes /\ expired \subseteq expired'
      BY <1>4 DEF Handler, World, Observe, PutScene, OnJoin, OnLeave, ResolveOverwrite,
         ResolveReload, SaveTimerElapses, CloseGraceElapses, FailedTokenRetried, TokenExpires,
         StrangerActs
    <2>3. crashes' = crashes /\ expired \subseteq expired'
      BY <2>1, <2>2 DEF Next, PassStep, CallStep, LocalStep
    <2> QED
      BY <1>1, <1>2, <1>4, <2>3 DEF Undisturbed
  <1> QED
    BY <1>3, <1>4

\* A tracked token is replaced only by another, and keeps its place on the
\* ladder; only the end of a room takes it away.
LEMMA TrackedStep ==
    ASSUME HostConstants, RoomConstants, TypeOK, Undisturbed, Tracked, Answered, Next
    PROVE  /\ Tracked'
           /\ TokensOf(tokens) # {} => (TokensOf(tokens') # {} \/ Forget)
  <1> USE DEF Tracked
  <1>1. tokens \in [Users -> Tokens \cup {NoToken}] /\ expired = {} /\ WriteTokens = Tokens
    BY DEF TypeOK, RoomTypes, Undisturbed
  <1>2. ASSUME UNCHANGED tokenVars
        PROVE  Tracked' /\ (TokensOf(tokens) # {} => TokensOf(tokens') # {})
    BY <1>2 DEF TokensOf
  <1>3. CASE Forget
    <2>1. TokensOf(tokens') = {} /\ failed' = {}
      BY <1>3 DEF Forget, TokensOf
    <2> QED
      BY <1>3, <2>1 DEF TokensOf
  <1>4. ASSUME NEW t \in Tokens, Observe(t)
        PROVE  Tracked' /\ TokensOf(tokens') # {}
    <2> DEFINE u == Owner[t]
    <2>1. u \in Users /\ t # NoToken
      BY DEF RoomConstants
    <2>2. tokens' = [tokens EXCEPT ![u] = t]
      <3>1. \A f \in [Users -> Tokens \cup {NoToken}] : Pruned(f) = f
        BY <1>1 DEF Pruned
      <3>2. [tokens EXCEPT ![u] = t] \in [Users -> Tokens \cup {NoToken}]
        BY <1>1, <2>1
      <3> QED
        BY <1>4, <3>1, <3>2 DEF Observe
    <2>3. t \in TokensOf(tokens')
      BY <1>1, <2>1, <2>2 DEF TokensOf
    <2>4. TokensOf(tokens') \subseteq TokensOf(tokens) \cup {t}
      BY <1>1, <2>1, <2>2 DEF TokensOf
    <2>5. /\ canWrite' = ((canWrite \cap TokensOf(tokens')) \ {t}) \cup ({t} \cap WriteTokens)
          /\ failed' = failed \cap TokensOf(tokens')
      BY <1>4 DEF Observe
    <2>6. failed' = {} /\ TokensOf(tokens') \subseteq canWrite'
      BY <1>1, <2>4, <2>5
    <2> QED
      BY <2>3, <2>6 DEF TokensOf
  <1>5. CASE Evaluate
    <2>1. PICK r \in BOOLEAN, i \in BOOLEAN : StartPass(r, i)
      BY <1>5 DEF Evaluate
    <2>2. Pruned(tokens) = tokens
      BY <1>1 DEF Pruned
    <2>3. tokens' = tokens /\ canWrite' = canWrite \cap TokensOf(tokens) /\ failed' = {}
      BY <2>1, <2>2 DEF StartPass
    <2> QED
      BY <2>3 DEF TokensOf
  <1>6. CASE CallStep
    BY <1>2, <1>6 DEF CallStep, Ensure, Acquire, Refresh, CheckVersion, UnlockOnClose,
                      CollectIdle, Put, UnlockedPut
  <1>7. CASE LocalStep
    <2>1. (pass.pc \in Replies /\ Classify) => UNCHANGED tokenVars
      BY DEF Classify, Answered, Got
    <2>2. (pass.pc \in Replies /\ LockFailed) => UNCHANGED tokenVars
      BY <2>1 DEF LockFailed
    <2>3. CASE Relocked \/ Locked
      <3>1. pass.pc \in Replies
        BY <2>3 DEF Relocked, Locked, Replies
      <3>2. UNCHANGED tokenVars
        BY <2>2, <2>3, <3>1 DEF Relocked, Locked, LockHeld, LockLostTo
      <3> QED
        BY <1>2, <3>2
    <2>4. CASE Refreshed \/ PutAnswered \/ UnlockedPutAnswered
      <3>1. pass.pc \in Replies
        BY <2>4 DEF Refreshed, PutAnswered, UnlockedPutAnswered, Replies
      <3>2. UNCHANGED tokenVars
        BY <2>1, <2>4, <3>1 DEF Refreshed, PutAnswered, UnlockedPutAnswered
      <3> QED
        BY <1>2, <3>2
    <2>5. CASE \/ VersionChecked \/ LockStage \/ Save \/ Close \/ CloseCheck \/ UnlockedOnClose
               \/ IdleUnlocked
      <3>1. VersionChecked \/ LockStage \/ Save => UNCHANGED tokenVars
        <4>1. VersionChecked => UNCHANGED tokenVars
          BY DEF VersionChecked
        <4>2. LockStage => UNCHANGED tokenVars
          BY LockStageFrame
        <4>3. Save => UNCHANGED tokenVars
          BY DEF Save
        <4> QED
          BY <4>1, <4>2, <4>3
      <3>2. Close \/ CloseCheck \/ UnlockedOnClose \/ IdleUnlocked => UNCHANGED tokenVars
        BY DEF Close, CloseCheck, UnlockedOnClose, IdleUnlocked
      <3> QED
        BY <1>2, <2>5, <3>1, <3>2
    <2>6. CASE Delete \/ DeleteIdle
      BY <1>2, <1>3, <2>6 DEF Delete, DeleteIdle
    <2> QED
      BY <1>7, <2>3, <2>4, <2>5, <2>6 DEF LocalStep
  <1>8. CASE Crash
    BY <1>3, <1>8 DEF Crash
  <1>9. CASE (Handler \/ World) /\ ~Crash /\ ~(\E t \in Tokens : Observe(t))
    BY <1>2, <1>9 DEF Handler, World, PutScene, OnJoin, OnLeave, ResolveOverwrite, ResolveReload,
       SaveTimerElapses, CloseGraceElapses, FailedTokenRetried, TokenExpires, StrangerActs
  <1> QED
    BY <1>3, <1>4, <1>5, <1>6, <1>7, <1>8, <1>9 DEF Next, PassStep, CallStep, LocalStep, Handler

\* What the host's answers say of the lock.
LEMMA HostAnswers ==
    ASSUME HostConstants, NEW f \in File
    PROVE  /\ LET a == Lock(f, OurLock)
              IN  /\ a.reply.code \in {"ok", "lockConflict"}
                  /\ a.reply.code # "ok" => a.file.lock # OurLock
           /\ \A w : LET a == UnlockAndRelock(f, OurLock, w)
                     IN  /\ a.reply.code \in {"ok", "lockConflict"}
                         /\ a.reply.code # "ok" => a.file = f /\ a.reply.lock = f.lock
           /\ LET a == RefreshLock(f, OurLock)
              IN  /\ a.reply.code \in {"ok", "lockConflict"} /\ a.file = f
                  /\ a.reply.code # "ok" => f.lock # OurLock
           /\ LET a == Unlock(f, OurLock)
              IN  a.reply.code \in {"ok", "lockConflict"} /\ a.file.lock # OurLock
           /\ \A c : LET a == PutFile(f, OurLock, c)
                     IN  /\ a.reply.code \in {"ok", "lockConflict"} /\ a.file.lock = f.lock
                         /\ a.reply.code # "ok" => f.lock # OurLock
           /\ \A c : LET a == PutFile(f, NoLock, c)
                     IN  /\ a.reply.code \in {"ok", "lockConflict"} /\ a.file.lock = f.lock
                         /\ a.reply.code # "ok" => a.reply.lock = f.lock
  <1>1. /\ \A l : [f EXCEPT !.lock = l].lock = l
        /\ \A c : [f EXCEPT !.content = c].lock = f.lock
        /\ OurLock # NoLock
    BY DEF File, HostConstants
  <1> QED
    BY <1>1 DEF Lock, UnlockAndRelock, RefreshLock, Unlock, PutFile, Ok, WithVersion,
                LockConflict, Answer

\* While nothing goes wrong the host serves every call.
LEMMA ServedCall ==
    ASSUME TypeOK, Undisturbed, faults' = faults, NEW t, NEW r, NEW p \in Pass, Call(t, r, p)
    PROVE  file' = r.file /\ pass'.reply = r.reply
  <1>1. faults \in Nat
    BY DEF TypeOK, CallTypes
  <1>2. Served(t, r, p)
    BY <1>1 DEF Call, Refused, Faulty, Undisturbed
  <1>3. [p EXCEPT !.reply = r.reply].reply = r.reply
    BY DEF Pass
  <1> QED
    BY <1>2, <1>3 DEF Served

\* What each call finds and leaves of the lock while nothing goes wrong.
LEMMA LockAnswers ==
    ASSUME HostConstants, RoomConstants, TypeOK, Undisturbed, faults' = faults
    PROVE  /\ Ensure \/ Acquire \/ Refresh =>
                /\ pass'.pc \in {"relockReply", "lockReply", "refreshReply"}
                /\ pass'.reply.code \in {"ok", "lockConflict"}
                /\ (pass'.reply.code # "ok" /\ file'.lock = OurLock) =>
                      /\ file.lock = OurLock
                      /\ pass'.pc = "relockReply" /\ pass'.reply.lock = OurLock
                /\ pass'.reply.code = "ok" =>
                      file'.lock = file.lock \/ pass'.pc \in {"relockReply", "lockReply"}
           /\ UnlockOnClose \/ CollectIdle =>
                \/ UNCHANGED callVars
                \/ file'.lock # OurLock /\ pass'.reply.code \in {"ok", "lockConflict"}
           /\ Put \/ UnlockedPut =>
                /\ file'.lock = file.lock
                /\ pass'.pc \in {"putReply", "unlockedPutReply"}
                /\ pass'.reply.code \in {"ok", "lockConflict"}
                /\ (pass'.reply.code # "ok" /\ file.lock = OurLock) =>
                      pass'.pc = "unlockedPutReply" /\ pass'.reply.lock = OurLock
           /\ CheckVersion =>
                /\ file'.lock = file.lock
                /\ pass'.pc = "checkReply" => pass'.reply.code = "ok"
  <1>1. file \in File /\ Replies \subseteq Labels /\ pass.retried \in BOOLEAN
        /\ forceUnlock \in OtherLocks \cup {NoLock}
    BY DEF TypeOK, CallTypes, RoomTypes, Pass, Labels
  <1>2. \A l \in Replies : /\ At(l) \in Pass /\ At(l).pc = l
                           /\ \A b \in BOOLEAN : [At(l) EXCEPT !.retried = b] \in Pass
                                                /\ [At(l) EXCEPT !.retried = b].pc = l
                           /\ \A v \in OtherLocks : [At(l) EXCEPT !.taken = v] \in Pass
                                                   /\ [At(l) EXCEPT !.taken = v].pc = l
                           /\ \A e \in Contents \cup {NoVersion} :
                                 [At(l) EXCEPT !.want = e] \in Pass
                                 /\ [At(l) EXCEPT !.want = e].pc = l
    <2> SUFFICES ASSUME NEW l \in Replies
                 PROVE  /\ At(l) \in Pass /\ At(l).pc = l
                        /\ \A b \in BOOLEAN : [At(l) EXCEPT !.retried = b] \in Pass
                                             /\ [At(l) EXCEPT !.retried = b].pc = l
                        /\ \A v \in OtherLocks : [At(l) EXCEPT !.taken = v] \in Pass
                                                /\ [At(l) EXCEPT !.taken = v].pc = l
                        /\ \A e \in Contents \cup {NoVersion} :
                              [At(l) EXCEPT !.want = e] \in Pass
                              /\ [At(l) EXCEPT !.want = e].pc = l
      OBVIOUS
    <2>1. At(l) \in Pass /\ At(l).pc = l
      BY <1>1, PassType, PassShape DEF TypeOK
    <2> QED
      BY <2>1 DEF Pass
  <1>3. ASSUME NEW t, NEW r, NEW p \in Pass, Call(t, r, p)
        PROVE  file' = r.file /\ pass'.reply = r.reply /\ pass'.pc = p.pc
    BY <1>3, ServedCall, CallShape
  <1>4. ASSUME NEW t, NEW l \in {"lockReply", "relockReply"}, NEW p \in Pass, p.pc = l,
               Call(t, Lock(file, OurLock), p)
        PROVE  /\ pass'.pc = l /\ pass'.reply.code \in {"ok", "lockConflict"}
               /\ pass'.reply.code # "ok" => file'.lock # OurLock
    BY <1>1, <1>3, <1>4, HostAnswers
  <1>5. ASSUME Ensure, forceUnlock # NoLock
        PROVE  /\ pass'.pc = "relockReply" /\ pass'.reply.code \in {"ok", "lockConflict"}
               /\ pass'.reply.code # "ok" => file' = file /\ pass'.reply.lock = file.lock
    <2> DEFINE p == [At("relockReply") EXCEPT !.taken = forceUnlock]
               r == UnlockAndRelock(file, OurLock, forceUnlock)
    <2>1. p \in Pass /\ p.pc = "relockReply"
      BY <1>1, <1>2, <1>5 DEF Replies
    <2>2. Call(pass.cand, r, p)
      BY <1>5 DEF Ensure
    <2>3. /\ r.reply.code \in {"ok", "lockConflict"}
          /\ r.reply.code # "ok" => r.file = file /\ r.reply.lock = file.lock
      BY <1>1, HostAnswers
    <2> HIDE DEF p, r
    <2> QED
      BY <1>3, <2>1, <2>2, <2>3
  <1>6. ASSUME (Ensure /\ forceUnlock = NoLock) \/ Acquire
        PROVE  /\ pass'.pc = "lockReply" /\ pass'.reply.code \in {"ok", "lockConflict"}
               /\ pass'.reply.code # "ok" => file'.lock # OurLock
    <2>1. PICK p \in Pass : p.pc = "lockReply" /\ Call(pass.cand, Lock(file, OurLock), p)
      BY <1>1, <1>2, <1>6 DEF Ensure, Acquire, Replies
    <2> QED
      BY <1>4, <2>1
  <1>7. ASSUME Refresh
        PROVE  /\ pass'.pc = "refreshReply" /\ pass'.reply.code \in {"ok", "lockConflict"}
               /\ file' = file /\ (pass'.reply.code # "ok" => file'.lock # OurLock)
    <2> DEFINE r == RefreshLock(file, OurLock)
    <2>1. /\ At("refreshReply") \in Pass /\ At("refreshReply").pc = "refreshReply"
          /\ Call(pass.cand, r, At("refreshReply"))
      BY <1>2, <1>7 DEF Refresh, Replies
    <2>2. /\ r.reply.code \in {"ok", "lockConflict"} /\ r.file = file
          /\ r.reply.code # "ok" => file.lock # OurLock
      BY <1>1, HostAnswers
    <2> HIDE DEF r
    <2> QED
      BY <1>3, <2>1, <2>2
  <1>8. UnlockOnClose \/ CollectIdle =>
            \/ UNCHANGED callVars
            \/ file'.lock # OurLock /\ pass'.reply.code \in {"ok", "lockConflict"}
    <2> DEFINE r == Unlock(file, OurLock)
    <2>1. r.reply.code \in {"ok", "lockConflict"} /\ r.file.lock # OurLock
      BY <1>1, HostAnswers
    <2>2. UnlockOnClose \/ CollectIdle =>
            UNCHANGED callVars \/ \E t : \E p \in Pass : Call(t, r, p)
      BY CallForms
    <2> HIDE DEF r
    <2> QED
      BY <1>3, <2>1, <2>2
  <1>9. ASSUME Put
        PROVE  /\ file'.lock = file.lock /\ pass'.pc = "putReply"
               /\ pass'.reply.code \in {"ok", "lockConflict"}
               /\ pass'.reply.code # "ok" => file.lock # OurLock
    <2> DEFINE r == PutFile(file, OurLock, Body(pass.body))
    <2>1. /\ At("putReply") \in Pass /\ At("putReply").pc = "putReply"
          /\ Call(pass.cand, r, At("putReply"))
      BY <1>2, <1>9 DEF Put, Replies
    <2>2. /\ r.reply.code \in {"ok", "lockConflict"} /\ r.file.lock = file.lock
          /\ r.reply.code # "ok" => file.lock # OurLock
      BY <1>1, HostAnswers
    <2> HIDE DEF r
    <2> QED
      BY <1>3, <2>1, <2>2
  <1>10. ASSUME UnlockedPut
         PROVE  /\ file'.lock = file.lock /\ pass'.pc = "unlockedPutReply"
                /\ pass'.reply.code \in {"ok", "lockConflict"}
                /\ pass'.reply.code # "ok" => pass'.reply.lock = file.lock
    <2> DEFINE r == PutFile(file, NoLock, Body(pass.body))
    <2>1. /\ At("unlockedPutReply") \in Pass /\ At("unlockedPutReply").pc = "unlockedPutReply"
          /\ Call(pass.cand, r, At("unlockedPutReply"))
      BY <1>2, <1>10 DEF UnlockedPut, Replies
    <2>2. /\ r.reply.code \in {"ok", "lockConflict"} /\ r.file.lock = file.lock
          /\ r.reply.code # "ok" => r.reply.lock = file.lock
      BY <1>1, HostAnswers
    <2> HIDE DEF r
    <2> QED
      BY <1>3, <2>1, <2>2
  <1>11. CheckVersion =>
            /\ file'.lock = file.lock
            /\ pass'.pc = "checkReply" => pass'.reply.code = "ok"
    <2> DEFINE r == CheckFileInfo(file)
    <2>1. r.file = file /\ r.reply.code = "ok"
      BY <1>1, Operations
    <2>2. CheckVersion => \/ UNCHANGED callVars /\ pass' = AfterCheck
                          \/ \E t : \E p \in Pass : Call(t, r, p)
      BY CallForms
    <2>3. AfterCheck.pc # "checkReply"
      BY PassShape DEF TypeOK
    <2> HIDE DEF r
    <2> QED
      BY <1>3, <2>1, <2>2, <2>3
  <1>12. Ensure \/ Acquire \/ Refresh =>
                /\ pass'.pc \in {"relockReply", "lockReply", "refreshReply"}
                /\ pass'.reply.code \in {"ok", "lockConflict"}
                /\ (pass'.reply.code # "ok" /\ file'.lock = OurLock) =>
                      /\ file.lock = OurLock
                      /\ pass'.pc = "relockReply" /\ pass'.reply.lock = OurLock
                /\ pass'.reply.code = "ok" =>
                      file'.lock = file.lock \/ pass'.pc \in {"relockReply", "lockReply"}
    BY <1>5, <1>6, <1>7
  <1> QED
    BY <1>8, <1>9, <1>10, <1>11, <1>12

\* Who walks the ladder has found somebody on it.
LEMMA WalkStarts ==
    ASSUME HostConstants, RoomConstants, TypeOK, Next, pass'.pc \in Walking
    PROVE  pass.pc \in Walking \/ Ladder # {}
  <1> USE DEF Walking
  <1>1. CASE Handler \/ (World /\ ~Crash)
    BY <1>1, QuietPass
  <1>2. CASE \/ VersionChecked \/ CloseCheck \/ UnlockedOnClose \/ Delete \/ IdleUnlocked
             \/ DeleteIdle \/ Crash \/ Evaluate
    BY <1>2, StageSteps
  <1>3. CASE CheckVersion \/ UnlockOnClose \/ CollectIdle
    BY <1>3, CallSteps
  <1>4. CASE Ensure \/ Acquire \/ Refresh \/ Put \/ UnlockedPut
    BY <1>4 DEF Ensure, Acquire, Refresh, Put, UnlockedPut
  <1>5. CASE Relocked \/ Locked \/ Refreshed \/ PutAnswered \/ UnlockedPutAnswered
    BY <1>5 DEF Relocked, Locked, Refreshed, PutAnswered, UnlockedPutAnswered
  <1>6. CASE LockStage
    <2>1. Ladder = {} => pass' = SaveStage
      BY <1>6 DEF LockStage
    <2>2. SaveStage.pc = "save"
      BY PassShape DEF TypeOK
    <2> QED
      BY <2>1, <2>2
  <1>7. CASE Save \/ Close
    <2>1. ASSUME NEW k, BeginSave(k) PROVE Ladder # {}
      <3>1. Ladder = {} => pass' \in {IdlePass, [IdlePass EXCEPT !.pc = "closeCheck"]}
        BY <2>1 DEF BeginSave
      <3>2. IdlePass.pc = "idle" /\ [IdlePass EXCEPT !.pc = "closeCheck"].pc = "closeCheck"
        BY DEF IdlePass
      <3> QED
        BY <3>1, <3>2
    <2> QED
      BY <1>7, <2>1, StageSteps
  <1> QED
    BY <1>1, <1>2, <1>3, <1>4, <1>5, <1>6, <1>7 DEF Next, PassStep, World

\* The room of a pass exists until the pass ends.
LEMMA ExistsStep ==
    ASSUME HostConstants, RoomConstants, TypeOK, Next, pass.pc # "idle" => exists, ~Crash
    PROVE  /\ pass'.pc # "idle" => exists'
           /\ exists => (exists' \/ Delete \/ (DeleteIdle /\ Forget))
  <1>1. CASE Handler \/ (World /\ ~Crash)
    <2>1. exists' \in {exists, TRUE}
      BY <1>1 DEF Handler, World, Observe, PutScene, OnJoin, OnLeave, ResolveOverwrite,
         ResolveReload, SaveTimerElapses, CloseGraceElapses, FailedTokenRetried, TokenExpires,
         StrangerActs
    <2> QED
      BY <1>1, <2>1, QuietPass
  <1>2. CASE Evaluate
    BY <1>2 DEF Evaluate, StartPass
  <1>3. CASE CallStep
    BY <1>3 DEF CallStep, Ensure, Acquire, Refresh, CheckVersion, UnlockOnClose, CollectIdle,
                Put, UnlockedPut
  <1>4. CASE VersionChecked
    BY <1>4 DEF VersionChecked
  <1>5. CASE LockStage
    BY <1>5, LockStageFrame
  <1>6. CASE Relocked \/ Locked
    BY <1>6 DEF Relocked, Locked
  <1>7. CASE Refreshed
    BY <1>7 DEF Refreshed
  <1>8. CASE PutAnswered \/ UnlockedPutAnswered
    BY <1>8 DEF PutAnswered, UnlockedPutAnswered
  <1>9. CASE Save
    BY <1>9 DEF Save
  <1>10. CASE Close \/ CloseCheck \/ UnlockedOnClose \/ IdleUnlocked
    BY <1>10 DEF Close, CloseCheck, UnlockedOnClose, IdleUnlocked
  <1>11. CASE Delete \/ DeleteIdle
    <2>1. pass' = IdlePass
      BY <1>11 DEF Delete, DeleteIdle
    <2>2. DeleteIdle => Forget \/ exists' = exists
      BY DEF DeleteIdle
    <2> QED
      BY <1>11, <2>1, <2>2 DEF IdlePass
  <1> QED
    BY <1>1, <1>2, <1>3, <1>4, <1>5, <1>6, <1>7, <1>8, <1>9, <1>10, <1>11
       DEF Next, PassStep, CallStep, World

\* While its lock is on the file the room keeps believing so.
LEMMA BeliefStep ==
    ASSUME HostConstants, RoomConstants, TypeOK, Answered, Attended, LocalStep \/ Evaluate,
           file.lock = OurLock, exists'
    PROVE  haveLock' /\ pass'.pc # "delete"
  <1>1. OurLock \notin OtherLocks /\ NoLock # OurLock
    BY DEF HostConstants
  <1>2. /\ haveLock \/ (pass.pc \in {"relockReply", "lockReply"} /\ Got("ok"))
        /\ pass.pc \notin {"unlockReply", "gcReply", "delete"}
    BY DEF Attended
  <1>3. /\ Got("ok") => ~Got("lockConflict")
        /\ (pass.pc \in Replies /\ Got("lockConflict")) =>
              pass.pc \in {"relockReply", "unlockedPutReply"} /\ ~GotLock(OtherLocks)
    BY <1>1 DEF Answered, Got, GotLock
  <1>4. CASE Relocked
    <2>1. haveLock'
      <3>1. pass.pc \in Replies /\ pass.pc = "relockReply" /\ pass.reply.code \in {"ok", "lockConflict"}
        BY <1>4 DEF Relocked, Replies, Answered
      <3>2. ~GotLock(OtherLocks)
        BY <1>3, <3>1 DEF GotLock
      <3>3. LockHeld => haveLock'
        BY DEF LockHeld
      <3>4. GotLock({NoLock, OurLock}) => haveLock
        BY <1>2, <1>3 DEF GotLock
      <3>5. Got("ok") \/ Got("lockConflict")
        BY <3>1 DEF Got
      <3> QED
        BY <1>4, <3>2, <3>3, <3>4, <3>5 DEF Relocked
    <2>2. pass'.pc # "delete"
      <3>1. At("acquire").pc = "acquire"
        BY PassShape DEF TypeOK
      <3> QED
        BY <1>4, <3>1, WalkSteps DEF Relocked, LockLostTo
    <2> QED
      BY <2>1, <2>2
  <1>5. CASE Locked
    <2>1. pass.pc = "lockReply" /\ Got("ok")
      <3>1. pass.pc = "lockReply" /\ pass.pc \in Replies
        BY <1>5 DEF Locked, Replies
      <3> QED
        BY <1>3, <3>1 DEF Answered, Got
    <2>2. LockHeld
      BY <1>3, <1>5, <2>1 DEF Locked, GotLock
    <2> QED
      BY <2>2, WalkSteps DEF LockHeld
  <1>6. CASE Refreshed
    <2>1. pass.pc = "refreshReply" /\ Got("ok")
      <3>1. pass.pc = "refreshReply" /\ pass.pc \in Replies
        BY <1>6 DEF Refreshed, Replies
      <3> QED
        BY <1>3, <3>1 DEF Answered, Got
    <2>2. pass' = SaveStage /\ haveLock'
      BY <1>3, <1>6, <2>1 DEF Refreshed, GotLock
    <2> QED
      BY <2>2, PassShape DEF TypeOK
  <1>7. CASE PutAnswered
    <2>1. pass.pc = "putReply" /\ Got("ok")
      <3>1. pass.pc = "putReply" /\ pass.pc \in Replies
        BY <1>7 DEF PutAnswered, Replies
      <3> QED
        BY <1>3, <3>1 DEF Answered, Got
    <2>2. haveLock' = haveLock /\ pass' = SaveEnded
      BY <1>3, <1>7, <2>1 DEF PutAnswered, GotLock, SaveSucceeded
    <2> QED
      BY <1>2, <2>1, <2>2, PassShape DEF TypeOK
  <1>8. CASE VersionChecked
    <2>1. pass.pc = "checkReply"
      BY <1>8 DEF VersionChecked
    <2>2. haveLock' /\ pass' = AfterCheck
      BY <1>2, <1>8, <2>1 DEF VersionChecked, EnterConflict
    <2> QED
      BY <2>2, PassShape DEF TypeOK
  <1>9. CASE CloseCheck
    <2>1. pass.pc = "closeCheck" /\ haveLock' = haveLock
      BY <1>9 DEF CloseCheck
    <2>2. pass' \in {IdlePass, At("unlock")}
      BY <1>2, <1>9, <2>1 DEF CloseCheck
    <2> QED
      BY <1>2, <2>1, <2>2, PassShape DEF TypeOK
  <1>10. CASE UnlockedPutAnswered
    <2>1. pass.pc = "unlockedPutReply" /\ haveLock' = haveLock
      BY <1>10 DEF UnlockedPutAnswered
    <2>2. pass' = SaveEnded \/ SaveTriesNext
      BY <1>10 DEF UnlockedPutAnswered, SaveSucceeded
    <2> QED
      BY <1>2, <2>1, <2>2, WalkSteps, PassShape DEF TypeOK
  <1>11. CASE LockStage
    <2>1. pass.pc = "lock" /\ haveLock' = haveLock
      BY <1>11, LockStageFrame
    <2> QED
      BY <1>2, <1>11, <2>1, StageSteps
  <1>12. CASE Save \/ Close
    <2>1. pass.pc \in {"save", "close"} /\ haveLock' = haveLock
      BY <1>12 DEF Save, Close
    <2> QED
      BY <1>2, <1>12, <2>1, StageSteps, BeginSaveSteps
  <1>13. CASE Evaluate
    <2>1. pass.pc = "idle" /\ haveLock' = haveLock
      BY <1>13 DEF Evaluate, StartPass
    <2> QED
      BY <1>2, <1>13, <2>1, StageSteps
  <1>14. CASE DeleteIdle
    <2>1. pass.pc = "gcDelete" /\ haveLock' = haveLock /\ pass' = IdlePass
      BY <1>14 DEF DeleteIdle, Forget
    <2> QED
      BY <1>2, <2>1 DEF IdlePass
  <1>15. ~Delete /\ ~UnlockedOnClose /\ ~IdleUnlocked
    BY <1>2 DEF Delete, UnlockedOnClose, IdleUnlocked
  <1> QED
    BY <1>4, <1>5, <1>6, <1>7, <1>8, <1>9, <1>10, <1>11, <1>12, <1>13, <1>14, <1>15
       DEF LocalStep

LEMMA ReleaseStep ==
    ASSUME HostConstants, RoomConstants, TypeOK, ReleaseInv, Next
    PROVE  ReleaseInv'
  <1> SUFFICES ASSUME Undisturbed'
               PROVE  /\ pass'.pc # "idle" => exists'
                      /\ pass'.pc \in Walking => TokensOf(tokens') # {}
                      /\ Tracked' /\ Answered' /\ Attended'
    BY DEF ReleaseInv, TokensOf
  <1>1. Undisturbed /\ ~Crash /\ faults' = faults
    BY UndisturbedBefore
  <1>2. /\ pass.pc # "idle" => exists
        /\ pass.pc \in Walking => TokensOf(tokens) # {}
        /\ Tracked /\ Answered /\ Attended
    BY <1>1 DEF ReleaseInv
  <1>3. Tracked' /\ (TokensOf(tokens) # {} => (TokensOf(tokens') # {} \/ Forget))
    BY <1>1, <1>2, TrackedStep
  <1>4. /\ pass'.pc # "idle" => exists'
        /\ exists => (exists' \/ Delete \/ (DeleteIdle /\ Forget))
    BY <1>1, <1>2, ExistsStep
  <1>5. pass'.pc \in Walking => TokensOf(tokens') # {}
    <2>1. Ladder \subseteq TokensOf(tokens)
      BY DEF Ladder, LadderOf
    <2>2. Forget => ~exists'
      BY DEF Forget
    <2> QED
      BY <1>2, <1>3, <1>4, <2>1, <2>2, WalkStarts DEF Walking
  <1>6. ASSUME file.lock = OurLock, exists' PROVE TokensOf(tokens') # {}
    BY <1>2, <1>3, <1>6 DEF Attended, Forget
  <1>7. CASE (Handler \/ World) /\ ~Crash
    <2>1. pass' = pass /\ (Got("ok")' <=> Got("ok")) /\ (Got("lockConflict")' <=> Got("lockConflict"))
      BY <1>7, QuietPass DEF Got
    <2>2. file'.lock = OurLock => file.lock = OurLock
      <3>1. CASE StrangerActs
        <4>1. \/ \E l \in OtherLocks \cup {NoLock} : file' = [file EXCEPT !.lock = l]
              \/ \E c \in Contents : file' = [file EXCEPT !.content = c]
          BY <3>1 DEF StrangerActs
        <4>2. file \in File /\ OurLock \notin OtherLocks \cup {NoLock}
          BY DEF TypeOK, CallTypes, HostConstants
        <4> QED
          BY <4>1, <4>2 DEF File
      <3>2. CASE ~StrangerActs
        BY <1>7, <3>2 DEF Handler, World, Observe, PutScene, OnJoin, OnLeave, ResolveOverwrite,
           ResolveReload, SaveTimerElapses, CloseGraceElapses, FailedTokenRetried, TokenExpires
      <3> QED
        BY <3>1, <3>2
    <2>3. haveLock' = haveLock
      BY <1>7 DEF Handler, World, Observe, PutScene, OnJoin, OnLeave, ResolveOverwrite,
         ResolveReload, Resolved, SaveTimerElapses, CloseGraceElapses, FailedTokenRetried,
         TokenExpires, StrangerActs
    <2>4. exists => exists'
      BY <1>7 DEF Handler, World, Observe, PutScene, OnJoin, OnLeave, ResolveOverwrite,
         ResolveReload, SaveTimerElapses, CloseGraceElapses, FailedTokenRetried, TokenExpires,
         StrangerActs
    <2>5. Answered'
      BY <1>2, <2>1, <2>2 DEF Answered
    <2>6. Attended'
      BY <1>2, <1>6, <2>1, <2>2, <2>3, <2>4 DEF Attended, TokensOf
    <2> QED
      BY <1>3, <1>4, <1>5, <2>5, <2>6
  <1>8. CASE LocalStep \/ Evaluate
    <2>1. file' = file /\ pass'.pc \notin Replies
      BY <1>8, LocalSteps DEF Replies, PutReplies
    <2>2. Answered'
      BY <2>1 DEF Answered
    <2>3. ASSUME file.lock = OurLock PROVE exists'
      <3>1. exists /\ TokensOf(tokens) # {} /\ pass.pc # "delete"
        BY <1>2, <2>3 DEF Attended
      <3>2. ~Delete
        BY <3>1 DEF Delete
      <3>3. ~(DeleteIdle /\ Forget)
        <4>1. Unexpired = TokensOf(tokens)
          BY <1>1 DEF Unexpired, Undisturbed
        <4>2. (DeleteIdle /\ Unexpired # {}) => exists' = exists
          BY DEF DeleteIdle
        <4> QED
          BY <3>1, <4>1, <4>2 DEF Forget
      <3> QED
        BY <1>4, <3>1, <3>2, <3>3
    <2>4. Attended'
      <3> SUFFICES ASSUME file.lock = OurLock
                   PROVE  /\ exists' /\ TokensOf(tokens') # {} /\ haveLock'
                          /\ pass'.pc \notin {"unlockReply", "gcReply", "delete"}
        BY <2>1 DEF Attended, TokensOf
      <3>1. exists'
        BY <2>3
      <3>2. haveLock' /\ pass'.pc # "delete"
        BY <1>2, <1>8, <3>1, BeliefStep
      <3> QED
        BY <1>6, <2>1, <3>1, <3>2 DEF Replies
    <2> QED
      BY <1>3, <1>4, <1>5, <2>2, <2>4
  <1>9. CASE CallStep
    <2>1. haveLock' = haveLock /\ exists' = exists /\ tokens' = tokens
      BY <1>9 DEF CallStep, Ensure, Acquire, Refresh, CheckVersion, UnlockOnClose, CollectIdle,
                  Put, UnlockedPut
    <2>2. CASE Ensure \/ Acquire \/ Refresh
      <3>1. /\ pass'.pc \in {"relockReply", "lockReply", "refreshReply"}
            /\ pass'.reply.code \in {"ok", "lockConflict"}
            /\ (pass'.reply.code # "ok" /\ file'.lock = OurLock) =>
                  /\ file.lock = OurLock
                  /\ pass'.pc = "relockReply" /\ pass'.reply.lock = OurLock
            /\ pass'.reply.code = "ok" =>
                  file'.lock = file.lock \/ pass'.pc \in {"relockReply", "lockReply"}
        BY <1>1, <2>2, LockAnswers
      <3>2. /\ pass.pc \in {"ensure", "acquire", "refresh"}
            /\ pass.pc \in Walking /\ exists /\ TokensOf(tokens) # {}
        <4>1. pass.pc \in {"ensure", "acquire", "refresh"}
          BY <2>2 DEF Ensure, Acquire, Refresh
        <4> QED
          BY <1>2, <4>1 DEF Walking
      <3>3. file.lock = OurLock => haveLock
        BY <1>2, <3>2 DEF Attended
      <3>4. Answered'
        BY <3>1 DEF Answered, Got
      <3>5. Attended'
        BY <2>1, <3>1, <3>2, <3>3 DEF Attended, Got, TokensOf
      <3> QED
        BY <1>3, <1>4, <1>5, <3>4, <3>5
    <2>3. CASE Put \/ UnlockedPut
      <3>1. /\ file'.lock = file.lock
            /\ pass'.pc \in {"putReply", "unlockedPutReply"}
            /\ pass'.reply.code \in {"ok", "lockConflict"}
            /\ (pass'.reply.code # "ok" /\ file.lock = OurLock) =>
                  pass'.pc = "unlockedPutReply" /\ pass'.reply.lock = OurLock
        BY <1>1, <2>3, LockAnswers
      <3>2. pass.pc \notin {"relockReply", "lockReply"}
        BY <2>3 DEF Put, UnlockedPut
      <3>3. Answered'
        BY <3>1 DEF Answered, Got
      <3>4. Attended'
        BY <1>2, <2>1, <3>1, <3>2 DEF Attended, Got, TokensOf
      <3> QED
        BY <1>3, <1>4, <1>5, <3>3, <3>4
    <2>4. CASE CheckVersion
      <3>1. /\ file'.lock = file.lock
            /\ pass'.pc = "checkReply" => pass'.reply.code = "ok"
        BY <1>1, <2>4, LockAnswers
      <3>2. pass'.pc \in {"checkReply", "save", "lock"} /\ pass.pc = "check"
        BY <2>4, CallSteps DEF CheckVersion
      <3>3. Answered'
        BY <3>1, <3>2 DEF Answered, Got, Replies
      <3>4. Attended'
        BY <1>2, <2>1, <3>1, <3>2 DEF Attended, Got, TokensOf
      <3> QED
        BY <1>3, <1>4, <1>5, <3>3, <3>4
    <2>5. CASE UnlockOnClose \/ CollectIdle
      <3>1. \/ UNCHANGED callVars
            \/ file'.lock # OurLock /\ pass'.reply.code \in {"ok", "lockConflict"}
        BY <1>1, <2>5, LockAnswers
      <3>2. pass'.pc \in {"unlockReply", "delete", "gcReply", "gcDelete"}
            /\ pass.pc \in {"unlock", "gc"}
        BY <2>5, CallSteps DEF UnlockOnClose, CollectIdle
      <3>3. CASE file'.lock # OurLock /\ pass'.reply.code \in {"ok", "lockConflict"}
        <4>1. Answered' /\ Attended'
          BY <3>3 DEF Answered, Attended
        <4> QED
          BY <1>3, <1>4, <1>5, <4>1
      <3>4. CASE UNCHANGED callVars /\ file.lock # OurLock /\ pass'.pc \in {"delete", "gcDelete"}
        <4>1. Answered' /\ Attended'
          BY <3>4 DEF Answered, Attended, Replies
        <4> QED
          BY <1>3, <1>4, <1>5, <4>1
      <3>5. CASE UNCHANGED callVars /\ file.lock = OurLock /\ pass'.pc \in {"delete", "gcDelete"}
        <4>1. haveLock /\ exists /\ TokensOf(tokens) # {}
          BY <1>2, <3>2, <3>5 DEF Attended
        <4>2. Ladder # {}
          BY <1>2, <4>1 DEF Ladder, LadderOf, Tracked
        <4>3. At("unlockReply").pc = "unlockReply"
          BY PassShape DEF TypeOK
        <4>4. pass'.pc = "gcDelete"
          <5>1. UnlockOnClose => pass'.pc = "unlockReply"
            <6> SUFFICES ASSUME UnlockOnClose PROVE pass'.pc = "unlockReply"
              OBVIOUS
            <6>1. PICK t : Call(t, Unlock(file, OurLock), At("unlockReply"))
              BY <4>2 DEF UnlockOnClose
            <6> QED
              BY <6>1, CallFrom DEF Labels, Replies
          <5>2. CollectIdle => pass'.pc \in {"gcReply", "gcDelete"}
            BY CallSteps
          <5> QED
            BY <2>5, <3>5, <5>1, <5>2
        <4>5. Answered' /\ Attended'
          BY <2>1, <4>1, <4>4 DEF Answered, Attended, Replies, TokensOf
        <4> QED
          BY <1>3, <1>4, <1>5, <4>5
      <3>6. UNCHANGED callVars => pass'.pc \in {"delete", "gcDelete"}
                                   \/ (file'.lock # OurLock /\ pass'.reply.code \in {"ok", "lockConflict"})
        <4>1. ASSUME NEW t, NEW l \in {"unlockReply", "gcReply"},
                     Call(t, Unlock(file, OurLock), At(l))
              PROVE  file'.lock # OurLock /\ pass'.reply.code \in {"ok", "lockConflict"}
          <5>1. At(l) \in Pass
            BY PassType DEF TypeOK, Labels, Replies
          <5>2. /\ file' = Unlock(file, OurLock).file
                /\ pass'.reply = Unlock(file, OurLock).reply
            BY <1>1, <4>1, <5>1, ServedCall
          <5> QED
            BY <5>2, HostAnswers DEF TypeOK, CallTypes
        <4>2. \A l : At(l).pc = l
          BY PassShape DEF TypeOK
        <4>3. \/ pass' \in {At("delete"), At("gcDelete")}
              \/ \E t : \E l \in {"unlockReply", "gcReply"} : Call(t, Unlock(file, OurLock), At(l))
          BY <2>5 DEF UnlockOnClose, CollectIdle
        <4> QED
          BY <4>1, <4>2, <4>3
      <3> QED
        BY <3>1, <3>3, <3>4, <3>5, <3>6
    <2> QED
      BY <1>9, <2>2, <2>3, <2>4, <2>5 DEF CallStep
  <1> QED
    BY <1>1, <1>7, <1>8, <1>9 DEF Next, PassStep, CallStep, LocalStep, World

\* A room that goes has given its lock back, or somebody else has broken it:
\* as long as no call fails, no token runs out and the service is not stopped,
\* performClose and gcRoom do not leave the file locked.
THEOREM ClosedRoomsUnlock == Spec => []ClosedMeansUnlocked
  <1>1. Init => ReleaseInv
    <2> SUFFICES ASSUME Init PROVE ReleaseInv
      OBVIOUS
    <2>1. TokensOf(tokens) = {} /\ failed = {} /\ pass.pc = "idle" /\ file.lock = NoLock
      BY DEF Init, IdlePass, TokensOf
    <2>2. NoLock # OurLock
      BY HostConstants DEF HostConstants
    <2> QED
      BY <2>1, <2>2 DEF ReleaseInv, Tracked, Answered, Attended, Walking, Replies
  <1>2. TypeOK /\ ReleaseInv /\ [Next]_vars => ReleaseInv'
    <2>1. UNCHANGED vars /\ ReleaseInv => ReleaseInv'
      BY DEF ReleaseInv, Undisturbed, Tracked, Answered, Attended, Got, TokensOf
    <2> QED
      BY <2>1, HostConstants, RoomConstants, ReleaseStep
  <1>3. ReleaseInv => ClosedMeansUnlocked
    BY DEF ReleaseInv, Undisturbed, Attended, ClosedMeansUnlocked
  <1> QED
    BY <1>1, <1>2, <1>3, TypeCorrect, PTL DEF Spec

-----------------------------------------------------------------------------
(***************************************************************************)
(* A takeover the user decided on is kept.                                 *)
(***************************************************************************)

\* Every 409 names the lock in the way, and only one other lock is ever found
\* on the file: the room can then not be asked about a second lock while the
\* takeover of the first is on its way.
OneRival == "emptyConflict" \notin Faults /\ \A a, b \in OtherLocks : a = b

\* A takeover on its way knows the lock it is for, and its answer leaves that
\* lock on the file only when the call was not served.
TakeInv ==
    /\ pass.pc = "relockReply" => pass.taken # NoLock
    /\ (owed # NoLock /\ file.lock = owed) =>
        \/ forceUnlock = owed
        \/ /\ pass.pc = "relockReply" /\ pass.taken = owed
           /\ ~Got("ok") /\ ~Got("lockConflict")

\* The call of a takeover: it is served, or says nothing about the lock.
LEMMA TakeoverCall ==
    ASSUME HostConstants, RoomConstants, TypeOK, OneRival, Ensure, forceUnlock # NoLock
    PROVE  /\ pass'.pc = "relockReply" /\ pass'.taken = forceUnlock
           /\ file'.lock \in OtherLocks =>
                pass'.reply.code # "ok" /\ pass'.reply.code # "lockConflict"
  <1> DEFINE p == [At("relockReply") EXCEPT !.taken = forceUnlock]
             r == UnlockAndRelock(file, OurLock, forceUnlock)
  <1>1. /\ file \in File /\ forceUnlock \in OtherLocks /\ OurLock \notin OtherLocks
        /\ NoLock \notin OtherLocks
    BY DEF TypeOK, CallTypes, RoomTypes, HostConstants
  <1>2. p \in Pass /\ p.pc = "relockReply" /\ p.taken = forceUnlock
    <2>1. "relockReply" \in Labels
      BY DEF Labels, Replies
    <2>2. At("relockReply") \in Pass /\ At("relockReply").pc = "relockReply"
      BY <2>1, PassType, PassShape DEF TypeOK
    <2> QED
      BY <1>1, <2>2 DEF Pass
  <1>3. Call(pass.cand, r, p)
    BY DEF Ensure
  <1>4. \/ r.file.lock = OurLock
        \/ r.file = file /\ file.lock # forceUnlock
    <2>1. [file EXCEPT !.lock = OurLock].lock = OurLock
      BY <1>1 DEF File
    <2> QED
      BY <2>1 DEF UnlockAndRelock, Ok, LockConflict
  <1>5. r.file.lock \notin OtherLocks
    BY <1>1, <1>4 DEF OneRival, File, Locks
  <1>6. \A a : [p EXCEPT !.reply = a].reply = a /\ [p EXCEPT !.reply = a].pc = p.pc
               /\ [p EXCEPT !.reply = a].taken = p.taken
    BY <1>2 DEF Pass
  <1> HIDE DEF p, r
  <1>7. CASE Served(pass.cand, r, p)
    BY <1>2, <1>5, <1>6, <1>7 DEF Served
  <1>8. CASE Refused(pass.cand, p)
    <2>1. Answer("tokenRejected").code = "tokenRejected"
      BY DEF Answer
    <2> QED
      BY <1>2, <1>6, <1>8, <2>1 DEF Refused
  <1>9. CASE Faulty(r, p)
    <2>1. PICK f \in Faults : /\ pass' = [p EXCEPT !.reply = FaultReply(f)]
                              /\ file' = IF f = "lostReply" THEN r.file ELSE file
      BY <1>9 DEF Faulty
    <2>2. FaultReply(f).code # "ok" /\ FaultReply(f).code # "lockConflict"
      BY <2>1 DEF FaultReply, Answer, RoomConstants, OneRival
    <2> QED
      BY <1>2, <1>6, <2>1, <2>2
  <1> QED
    BY <1>3, <1>7, <1>8, <1>9 DEF Call

\* No other call puts another client's lock on the file.
LEMMA OwnLocksOnly ==
    ASSUME HostConstants, RoomConstants, TypeOK, CallStep, file'.lock \in OtherLocks
    PROVE  file'.lock = file.lock
  <1>1. file \in File /\ OurLock \notin OtherLocks /\ NoLock \notin OtherLocks
    BY DEF TypeOK, CallTypes, HostConstants
  <1>2. ASSUME NEW t, NEW r, NEW p \in Pass, Call(t, r, p),
               r.file.lock \in {file.lock, OurLock, NoLock}
        PROVE  file'.lock = file.lock
    BY <1>1, <1>2, CallEffect
  <1>3. CASE Ensure \/ Acquire
    <2>1. \A r \in {Lock(file, OurLock), UnlockAndRelock(file, OurLock, forceUnlock)} :
            r.file.lock \in {file.lock, OurLock, NoLock}
      BY <1>1, Operations
    <2> QED
      BY <1>2, <1>3, <2>1, CallForms
  <1>4. CASE Refresh
    <2>1. RefreshLock(file, OurLock).file.lock \in {file.lock, OurLock, NoLock}
      BY <1>1, Operations
    <2> QED
      BY <1>2, <1>4, <2>1, CallForms
  <1>5. CASE Put \/ UnlockedPut
    <2>1. \A v : PutFile(file, v, Body(pass.body)).file.lock \in {file.lock, OurLock, NoLock}
      BY <1>1, Operations
    <2> QED
      BY <1>2, <1>5, <2>1, CallForms
  <1>6. CASE CheckVersion
    <2>1. CheckFileInfo(file).file.lock \in {file.lock, OurLock, NoLock}
      BY <1>1, Operations
    <2> QED
      BY <1>2, <1>6, <2>1, CallForms
  <1>7. CASE UnlockOnClose \/ CollectIdle
    <2>1. Unlock(file, OurLock).file.lock \in {file.lock, OurLock, NoLock}
      BY <1>1, Operations
    <2> QED
      BY <1>2, <1>7, <2>1, CallForms
  <1> QED
    BY <1>3, <1>4, <1>5, <1>6, <1>7 DEF CallStep

LEMMA TakeStep ==
    ASSUME HostConstants, RoomConstants, TypeOK, OneRival, TakeInv, Next
    PROVE  TakeInv'
  <1>1. /\ owed \in OtherLocks \cup {NoLock} /\ forceUnlock \in OtherLocks \cup {NoLock}
        /\ pass.taken \in OtherLocks \cup {NoLock}
        /\ \A a, b \in OtherLocks : a = b
    BY DEF TypeOK, RoomTypes, Pass, OneRival
  <1>2. ASSUME pass'.pc # "relockReply", file'.lock = owed => file.lock = owed,
               owed' = owed, pass.pc # "relockReply", forceUnlock' = forceUnlock,
               owed \in OtherLocks => (file'.lock = owed => file.lock = owed)
        PROVE  TakeInv'
    BY <1>2 DEF TakeInv
  <1>3. CASE Ensure
    <2>1. owed' = owed /\ pass.pc = "ensure"
      BY <1>3 DEF Ensure
    <2>2. CASE forceUnlock # NoLock
      <3>1. /\ pass'.pc = "relockReply" /\ pass'.taken = forceUnlock
            /\ file'.lock \in OtherLocks =>
                 pass'.reply.code # "ok" /\ pass'.reply.code # "lockConflict"
        BY <1>3, <2>2, TakeoverCall
      <3> QED
        BY <1>1, <2>1, <2>2, <3>1 DEF TakeInv, Got
    <2>3. CASE forceUnlock = NoLock
      <3>1. Call(pass.cand, Lock(file, OurLock), At("lockReply")) /\ forceUnlock' = NoLock
        BY <1>3, <2>3 DEF Ensure
      <3>2. pass'.pc = "lockReply"
        BY <3>1, CallFrom DEF Labels, Replies
      <3>3. file'.lock \in OtherLocks => file'.lock = file.lock
        BY <1>3, OwnLocksOnly DEF CallStep
      <3> QED
        BY <1>1, <2>1, <2>3, <3>1, <3>2, <3>3 DEF TakeInv
    <2> QED
      BY <2>2, <2>3
  <1>4. CASE CallStep /\ ~Ensure
    <2>1. /\ pass'.pc # "relockReply" /\ pass.pc # "relockReply"
          /\ owed' = owed /\ forceUnlock' = forceUnlock
      <3>1. CASE Acquire \/ Refresh \/ Put \/ UnlockedPut
        BY <3>1, CallSteps DEF Acquire, Refresh, Put, UnlockedPut
      <3>2. CASE CheckVersion \/ UnlockOnClose \/ CollectIdle
        BY <3>2, CallSteps DEF CheckVersion, UnlockOnClose, CollectIdle
      <3> QED
        BY <1>4, <3>1, <3>2 DEF CallStep
    <2>2. file'.lock \in OtherLocks => file'.lock = file.lock
      BY <1>4, OwnLocksOnly
    <2> QED
      BY <1>1, <2>1, <2>2 DEF TakeInv
  <1>5. CASE Relocked
    <2>1. pass'.pc # "relockReply" /\ file' = file
      BY <1>5, LocalSteps DEF LocalStep
    <2>2. owed' = owed /\ pass.pc = "relockReply"
      BY <1>5 DEF Relocked
    <2>3. CASE Got("ok") \/ Got("lockConflict")
      <3>1. forceUnlock' = forceUnlock
        BY <1>5, <2>3 DEF Relocked, GotLock, Got
      <3> QED
        BY <2>1, <2>2, <2>3, <3>1 DEF TakeInv
    <2>4. CASE ~Got("ok") /\ ~Got("lockConflict")
      <3>1. forceUnlock' = pass.taken
        BY <1>5, <2>4 DEF Relocked, GotLock, TakeoverRestored
      <3> QED
        BY <1>1, <2>1, <2>2, <3>1 DEF TakeInv
    <2> QED
      BY <2>3, <2>4
  <1>6. ASSUME Forget, pass' = IdlePass PROVE TakeInv'
    BY <1>6 DEF Forget, IdlePass, TakeInv
  <1>7. CASE LocalStep /\ ~Relocked
    <2>1. pass'.pc # "relockReply" /\ file' = file
      BY <1>7, LocalSteps
    <2>2. CASE Locked \/ Refreshed
      <3>1. pass.pc # "relockReply" /\ owed' = owed /\ forceUnlock' = forceUnlock
        BY <2>2 DEF Locked, Refreshed
      <3> QED
        BY <2>1, <3>1 DEF TakeInv
    <2>3. CASE VersionChecked \/ Save \/ PutAnswered \/ UnlockedPutAnswered
      <3>1. pass.pc # "relockReply" /\ owed' = owed /\ forceUnlock' = forceUnlock
        BY <2>3 DEF VersionChecked, Save, PutAnswered, UnlockedPutAnswered
      <3> QED
        BY <2>1, <3>1 DEF TakeInv
    <2>4. CASE LockStage
      <3>1. pass.pc # "relockReply" /\ owed' = owed /\ forceUnlock' = forceUnlock
        BY <2>4, LockStageFrame
      <3> QED
        BY <2>1, <3>1 DEF TakeInv
    <2>5. CASE Close \/ CloseCheck \/ UnlockedOnClose \/ IdleUnlocked
      <3>1. pass.pc # "relockReply" /\ owed' = owed /\ forceUnlock' = forceUnlock
        BY <2>5 DEF Close, CloseCheck, UnlockedOnClose, IdleUnlocked
      <3> QED
        BY <2>1, <3>1 DEF TakeInv
    <2>6. CASE Delete
      BY <1>6, <2>6 DEF Delete
    <2>7. CASE DeleteIdle
      <3>1. CASE Forget
        BY <1>6, <2>7, <3>1 DEF DeleteIdle
      <3>2. CASE ~Forget
        <4>1. pass.pc # "relockReply" /\ owed' = owed /\ forceUnlock' = forceUnlock
          BY <2>7, <3>2 DEF DeleteIdle
        <4> QED
          BY <2>1, <4>1 DEF TakeInv
      <3> QED
        BY <3>1, <3>2
    <2> QED
      BY <1>7, <2>2, <2>3, <2>4, <2>5, <2>6, <2>7 DEF LocalStep
  <1>8. CASE Evaluate
    <2>1. pass'.pc # "relockReply" /\ file' = file
      BY <1>8, LocalSteps
    <2>2. pass.pc # "relockReply" /\ owed' = owed /\ forceUnlock' = forceUnlock
      BY <1>8 DEF Evaluate, StartPass
    <2> QED
      BY <2>1, <2>2 DEF TakeInv
  <1>9. CASE Crash
    BY <1>6, <1>9 DEF Crash
  <1>10. CASE StrangerActs
    <2>1. owed' = NoLock /\ pass' = pass
      BY <1>10 DEF StrangerActs
    <2> QED
      BY <2>1 DEF TakeInv, Got
  <1>11. CASE \E u \in Users : ResolveOverwrite(u) \/ ResolveReload(u)
    <2>1. /\ pass' = pass /\ file' = file
          /\ \/ owed' = foreignLock /\ forceUnlock' = foreignLock
             \/ owed' = owed /\ forceUnlock' = forceUnlock
      BY <1>11 DEF ResolveOverwrite, ResolveReload, Resolved
    <2> QED
      BY <2>1 DEF TakeInv, Got
  <1>12. CASE /\ (Handler \/ World) /\ ~Crash /\ ~StrangerActs
              /\ ~(\E u \in Users : ResolveOverwrite(u) \/ ResolveReload(u))
    <2>1. pass' = pass /\ file' = file /\ owed' = owed /\ forceUnlock' = forceUnlock
      BY <1>12 DEF Handler, World, Observe, PutScene, OnJoin, OnLeave, SaveTimerElapses,
         CloseGraceElapses, FailedTokenRetried, TokenExpires
    <2> QED
      BY <2>1 DEF TakeInv, Got
  <1> QED
    BY <1>3, <1>4, <1>5, <1>7, <1>8, <1>9, <1>10, <1>11, <1>12
       DEF Next, PassStep, CallStep, LocalStep, World, Handler

\* However many tokens are rejected and calls fail before, the takeover the
\* user decided on stays on record or on its way while the lock it is for is
\* on the file.  The two hypotheses are needed: without either of them a room
\* can lose the decision.
THEOREM TakeoversAreKept ==
    ASSUME OneRival
    PROVE  Spec => []TakeoverKept
  <1>1. Init => TakeInv
    BY DEF Init, IdlePass, TakeInv
  <1>2. TypeOK /\ TakeInv /\ [Next]_vars => TakeInv'
    <2>1. UNCHANGED vars /\ TakeInv => TakeInv'
      BY DEF TakeInv, Got
    <2> QED
      BY <2>1, HostConstants, RoomConstants, OneRival, TakeStep
  <1>3. TakeInv => TakeoverKept
    BY DEF TakeInv, TakeoverKept
  <1> QED
    BY <1>1, <1>2, <1>3, TypeCorrect, PTL DEF Spec

=============================================================================
