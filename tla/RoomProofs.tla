----------------------------- MODULE RoomProofs -----------------------------
(***************************************************************************)
(* Theorems about Room, for every set of users, tokens, scenes and locks   *)
(* and every value of the bounds.                                          *)
(***************************************************************************)
EXTENDS Room, TLAPS

\* The groups of variables an action leaves unchanged.
USE DEF sceneVars, tokenVars, lockVars, checkVars, conflictVars, saveVars, lifeVars,
        roomVars, callVars, worldVars, decisionVars, vars

-----------------------------------------------------------------------------
(***************************************************************************)
(* Type correctness.                                                       *)
(***************************************************************************)

\* Every reply the service reads is a reply, every file the host keeps a file.
LEMMA HostType ==
    ASSUME HostConstants, NEW f \in File, NEW v \in Locks, NEW w \in Locks, NEW c \in Contents
    PROVE  /\ \A r \in {Lock(f, v), UnlockAndRelock(f, v, w), RefreshLock(f, v), Unlock(f, v),
                        PutFile(f, v, c), CheckFileInfo(f)} :
                r.file \in File /\ r.reply \in Reply
           /\ \A d \in Codes : Answer(d) \in Reply
  BY DEF HostConstants, File, Reply, Codes, Locks, Contents, Lock, UnlockAndRelock, RefreshLock,
         Unlock, PutFile, CheckFileInfo, Ok, WithVersion, LockConflict, Answer

\* The forms a pass takes between its calls.
LEMMA PassType ==
    ASSUME HostConstants, RoomConstants, pass \in Pass
    PROVE  /\ IdlePass \in Pass /\ SaveStage \in Pass /\ SaveEnded \in Pass
           /\ AfterCheck \in Pass
           /\ \A x \in {"none", "refresh", "lock"}, l \in Labels : Planned(x, l) \in Pass
           /\ \A l \in Labels : At(l) \in Pass
  <1>1. NoReply \in Reply /\ NoLock \in Locks
    BY HostType DEF NoReply, Reply, Answer, Codes, Locks, Contents
  <1>2. IdlePass \in Pass
    BY <1>1 DEF IdlePass, Pass, Labels, Calls
  <1>3. \A l \in Labels : At(l) \in Pass
    BY <1>1 DEF At, Pass
  <1>4. SaveStage \in Pass /\ SaveEnded \in Pass
    BY <1>2 DEF SaveStage, SaveEnded, Pass, Labels
  <1>5. \A x \in {"none", "refresh", "lock"}, l \in Labels : Planned(x, l) \in Pass
    BY <1>2 DEF Planned, Pass
  <1>6. AfterCheck \in Pass
    <2>1. pass.plan \in {"none", "refresh", "lock"}
      BY DEF Pass
    <2> QED
      BY <1>5, <2>1 DEF AfterCheck, Labels
  <1> QED
    BY <1>2, <1>3, <1>4, <1>5, <1>6

\* A call leaves a file, a pass with a reply, and the counters in their types.
LEMMA CallType ==
    ASSUME HostConstants, RoomConstants, TypeOK,
           NEW t, NEW r, r.file \in File, r.reply \in Reply, NEW p \in Pass, Call(t, r, p)
    PROVE  pass' \in Pass /\ CallTypes'
  <1>1. ASSUME NEW a \in Reply PROVE [p EXCEPT !.reply = a] \in Pass
    BY <1>1 DEF Pass
  <1>2. \A d \in Codes : Answer(d) \in Reply
    BY DEF Answer, Reply, Locks, Contents
  <1>3. CASE Served(t, r, p)
    BY <1>1, <1>3 DEF Served, TypeOK, RoomTypes, CallTypes, WorldTypes
  <1>4. CASE Refused(t, p)
    BY <1>1, <1>2, <1>4 DEF Refused, TypeOK, RoomTypes, CallTypes, WorldTypes, Codes
  <1>5. CASE Faulty(r, p)
    <2>1. \A f \in Faults : FaultReply(f) \in Reply
      BY <1>2 DEF FaultReply, RoomConstants, Codes
    <2> QED
      BY <1>1, <1>5, <2>1 DEF Faulty, TypeOK, RoomTypes, CallTypes, WorldTypes
  <1> QED
    BY <1>3, <1>4, <1>5 DEF Call

\* The tokens a pass may pick are tokens.
LEMMA LadderType ==
    ASSUME TypeOK
    PROVE  /\ Ladder \subseteq Tokens
           /\ \A l \in SUBSET Tokens : Heads(l) \subseteq l
           /\ Pruned(tokens) \in [Users -> Tokens \cup {NoToken}]
  BY DEF TypeOK, RoomTypes, CallTypes, WorldTypes, Ladder, LadderOf, TokensOf, Heads, Pruned

LEMMA InitType == ASSUME HostConstants, RoomConstants, Init PROVE TypeOK
  <1>1. IdlePass \in Pass
    BY DEF IdlePass, Pass, Labels, NoReply, Reply, Answer, Codes, Locks, Contents
  <1>2. tokens \in [Users -> Tokens \cup {NoToken}]
    BY DEF Init
  <1>3. file \in File
    BY DEF Init, File, Locks
  <1>4. {exists, fileKnown, dirty, haveLock, pendingCheck, skipCheck, conflict, firstSaveDone,
         idle, lostPut, overwriting} \subseteq BOOLEAN
    BY DEF Init
  <1> QED
    BY <1>1, <1>2, <1>3, <1>4 DEF Init, TypeOK, RoomTypes, CallTypes, WorldTypes

\* What a step leaves alone keeps its type.
LEMMA FrameType ==
    /\ RoomTypes /\ UNCHANGED <<roomVars, decisionVars>> => RoomTypes'
    /\ CallTypes /\ UNCHANGED callVars => CallTypes'
    /\ WorldTypes /\ UNCHANGED worldVars => WorldTypes'
  BY DEF RoomTypes, CallTypes, WorldTypes

\* A forgotten room is a room again.
LEMMA ForgetType == ASSUME Forget PROVE RoomTypes'
  <1>1. tokens' \in [Users -> Tokens \cup {NoToken}]
    BY DEF Forget
  <1>2. {exists, fileKnown, dirty, haveLock, pendingCheck, skipCheck, conflict,
         firstSaveDone, idle, overwriting}' \subseteq BOOLEAN
    BY DEF Forget
  <1> QED
    BY <1>1, <1>2 DEF Forget, RoomTypes

LEMMA HandlerType ==
    ASSUME HostConstants, RoomConstants, TypeOK, Handler
    PROVE  TypeOK'
  <1>1. ASSUME NEW t \in Tokens, Observe(t) PROVE TypeOK'
    <2>1. Owner[t] \in Users
      BY DEF RoomConstants
    <2>2. tokens' \in [Users -> Tokens \cup {NoToken}]
      BY <1>1, <2>1 DEF Observe, Pruned, TypeOK, RoomTypes, CallTypes, WorldTypes
    <2>3. admitted' \subseteq Users
      BY <1>1, <2>1 DEF Observe, TypeOK, RoomTypes, CallTypes, WorldTypes, RoomConstants
    <2>4. /\ canWrite' \subseteq Tokens /\ failed' \subseteq Tokens
          /\ pendingCheck' \in BOOLEAN
      BY <1>1 DEF Observe, TypeOK, RoomTypes, CallTypes, WorldTypes
    <2> QED
      BY <1>1, <2>2, <2>3, <2>4 DEF Observe, TypeOK, RoomTypes, CallTypes, WorldTypes
  <1>2. ASSUME NEW u \in Users, NEW s \in Scenes, PutScene(u, s) PROVE TypeOK'
    BY <1>2 DEF PutScene, TypeOK, RoomTypes, CallTypes, WorldTypes
  <1>3. CASE OnJoin
    BY <1>3 DEF OnJoin, TypeOK, RoomTypes, CallTypes, WorldTypes
  <1>4. CASE OnLeave
    BY <1>4 DEF OnLeave, Left, TypeOK, RoomTypes, CallTypes, WorldTypes
  <1>5. ASSUME NEW u \in Users, ResolveOverwrite(u) PROVE TypeOK'
    BY <1>5 DEF ResolveOverwrite, Resolved, TypeOK, RoomTypes, CallTypes, WorldTypes
  <1>6. ASSUME NEW u \in Users, ResolveReload(u) PROVE TypeOK'
    BY <1>6 DEF ResolveReload, Resolved, TypeOK, RoomTypes, CallTypes, WorldTypes
  <1> QED
    BY <1>1, <1>2, <1>3, <1>4, <1>5, <1>6 DEF Handler

LEMMA WorldType ==
    ASSUME HostConstants, RoomConstants, TypeOK, World
    PROVE  TypeOK'
  <1>1. CASE SaveTimerElapses
    BY <1>1 DEF SaveTimerElapses, TypeOK, RoomTypes, CallTypes, WorldTypes
  <1>2. CASE CloseGraceElapses
    BY <1>2 DEF CloseGraceElapses, TypeOK, RoomTypes, CallTypes, WorldTypes
  <1>3. ASSUME NEW t \in Tokens, FailedTokenRetried(t) PROVE TypeOK'
    BY <1>3 DEF FailedTokenRetried, TypeOK, RoomTypes, CallTypes, WorldTypes
  <1>4. ASSUME NEW t \in Tokens, TokenExpires(t) PROVE TypeOK'
    BY <1>4 DEF TokenExpires, TypeOK, RoomTypes, CallTypes, WorldTypes
  <1>5. CASE StrangerActs
    <2>1. file' \in File
      <3>1. /\ file \in File
            /\ \A l \in Locks : [file EXCEPT !.lock = l] \in File
            /\ \A c \in Contents : [file EXCEPT !.content = c] \in File
        BY DEF TypeOK, RoomTypes, CallTypes, WorldTypes, File
      <3>2. OtherLocks \cup {NoLock} \subseteq Locks
        BY DEF Locks
      <3> QED
        BY <1>5, <3>1, <3>2 DEF StrangerActs
    <2>2. /\ strangers' = strangers + 1 /\ overwriting' = FALSE /\ owed' = NoLock
          /\ UNCHANGED <<roomVars, pass, faults, lostPut, expired, admitted, members, crashes>>
      BY <1>5, Zenon DEF StrangerActs
    <2>3. RoomTypes'
      BY <2>2 DEF TypeOK, RoomTypes
    <2>4. CallTypes' /\ WorldTypes'
      BY <2>1, <2>2 DEF TypeOK, CallTypes, WorldTypes
    <2> QED
      BY <2>2, <2>3, <2>4 DEF TypeOK
  <1>6. CASE Crash
    <2>1. /\ pass' \in Pass
          /\ Forget
          /\ UNCHANGED <<callVars, expired, strangers>>
          /\ members' = 0 /\ admitted' = {} /\ crashes' = crashes + 1
      BY <1>6, PassType DEF Crash, TypeOK, RoomTypes, CallTypes, WorldTypes
    <2> QED
      BY <2>1, ForgetType DEF TypeOK, RoomTypes, CallTypes, WorldTypes
  <1> QED
    BY <1>1, <1>2, <1>3, <1>4, <1>5, <1>6 DEF World

LEMMA EvaluateType ==
    ASSUME HostConstants, RoomConstants, TypeOK, Evaluate
    PROVE  TypeOK'
  <1>1. PICK r \in BOOLEAN, i \in BOOLEAN : StartPass(r, i)
    BY DEF Evaluate
  <1>2. tokens' \in [Users -> Tokens \cup {NoToken}]
    BY <1>1, LadderType DEF StartPass
  <1>3. pass' \in Pass
    <2>1. PICK x \in {"none", "refresh", "lock"}, l \in Labels : pass' = Planned(x, l)
      BY <1>1 DEF StartPass, Labels, Calls
    <2> QED
      BY <2>1, PassType DEF TypeOK
  <1>4. /\ canWrite' \subseteq Tokens /\ failed' \subseteq Tokens
        /\ idle' \in BOOLEAN /\ skipCheck' \in BOOLEAN /\ pendingCheck' \in BOOLEAN
    BY <1>1 DEF StartPass, TypeOK, RoomTypes, CallTypes, WorldTypes, Alive
  <1> QED
    BY <1>1, <1>2, <1>3, <1>4 DEF StartPass, TypeOK, RoomTypes, CallTypes, WorldTypes

\* The version check and the lock stage.
LEMMA CheckType ==
    ASSUME HostConstants, RoomConstants, TypeOK, CheckVersion \/ VersionChecked \/ LockStage
    PROVE  TypeOK'
  <1>1. CASE CheckVersion
    <2>1. [At("checkReply") EXCEPT !.want = expected] \in Pass
      <3>1. At("checkReply") \in Pass
        BY PassType DEF TypeOK, RoomTypes, CallTypes, WorldTypes, Labels, Replies
      <3> QED
        BY <3>1 DEF TypeOK, RoomTypes, CallTypes, WorldTypes, Pass
    <2>2. pass' \in Pass /\ CallTypes'
      <3>1. CheckFileInfo(file).file \in File /\ CheckFileInfo(file).reply \in Reply
        BY DEF CheckFileInfo, WithVersion, TypeOK, CallTypes, File, Reply, Locks, Codes
      <3>2. CASE pass' = AfterCheck /\ UNCHANGED callVars
        BY <3>2, PassType, FrameType DEF TypeOK
      <3>3. ASSUME NEW t, Call(t, CheckFileInfo(file), [At("checkReply") EXCEPT !.want = expected])
            PROVE  pass' \in Pass /\ CallTypes'
        BY <2>1, <3>1, <3>3, CallType
      <3> QED
        BY <1>1, <3>2, <3>3 DEF CheckVersion
    <2> QED
      BY <1>1, <2>2, FrameType DEF CheckVersion, TypeOK
  <1>2. CASE VersionChecked
    BY <1>2, PassType DEF VersionChecked, EnterConflict, TypeOK, RoomTypes, CallTypes, WorldTypes
  <1>3. CASE LockStage
    <2>1. pass' \in Pass
      <3>1. \A t \in Tokens, l \in SUBSET Tokens, c \in {"refresh", "ensure"},
               k \in {"refresh", "eager"} :
                [IdlePass EXCEPT !.cand = t, !.ladder = l, !.pc = c, !.task = k] \in Pass
        <4>1. IdlePass \in Pass
          BY PassType DEF TypeOK
        <4> QED
          BY <4>1 DEF Pass, Labels, Calls
      <3>2. CASE Ladder = {} \/ (pass.plan = "refresh" /\ conflict)
        BY <1>3, <3>2, PassType DEF LockStage, TypeOK, RoomTypes, CallTypes, WorldTypes
      <3>3. CASE ~(Ladder = {} \/ (pass.plan = "refresh" /\ conflict))
        <4>1. PICK t \in Heads(Ladder) :
                pass' = [IdlePass EXCEPT
                            !.cand = t,
                            !.ladder = IF pass.plan = "refresh" THEN Ladder ELSE {t},
                            !.pc = IF pass.plan = "refresh" THEN "refresh" ELSE "ensure",
                            !.task = IF pass.plan = "refresh" THEN "refresh" ELSE "eager"]
          BY <1>3, <3>3 DEF LockStage
        <4>2. t \in Tokens /\ Ladder \in SUBSET Tokens /\ {t} \in SUBSET Tokens
          BY LadderType
        <4> QED
          BY <3>1, <4>1, <4>2
      <3> QED
        BY <3>2, <3>3
    <2> QED
      BY <1>3, <2>1 DEF LockStage, TypeOK, RoomTypes, CallTypes, WorldTypes
  <1> QED
    BY <1>1, <1>2, <1>3

\* What a call that the pass makes leaves in its types.
LEMMA HostCallType ==
    ASSUME HostConstants, RoomConstants, TypeOK, NEW t, NEW l \in Labels, NEW r,
           \/ r \in {Lock(file, OurLock), RefreshLock(file, OurLock), Unlock(file, OurLock)}
           \/ \E v \in Locks : r = UnlockAndRelock(file, OurLock, v)
           \/ \E v \in Locks, c \in Contents : r = PutFile(file, v, c)
    PROVE  /\ Call(t, r, At(l)) => pass' \in Pass /\ CallTypes'
           /\ \A b \in BOOLEAN : Call(t, r, [At(l) EXCEPT !.retried = b])
                => pass' \in Pass /\ CallTypes'
           /\ \A v \in OtherLocks : Call(t, r, [At(l) EXCEPT !.taken = v])
                => pass' \in Pass /\ CallTypes'
  <1>1. file \in File /\ OurLock \in Locks
    BY DEF TypeOK, CallTypes, Locks
  <1>2. r.file \in File /\ r.reply \in Reply
    <2>1. CASE r \in {Lock(file, OurLock), RefreshLock(file, OurLock), Unlock(file, OurLock)}
      <3>1. Empty \in Contents
        BY DEF Contents
      <3> QED
        BY <1>1, <2>1, <3>1, HostType
    <2>2. ASSUME NEW v \in Locks, r = UnlockAndRelock(file, OurLock, v)
          PROVE  r.file \in File /\ r.reply \in Reply
      <3>1. Empty \in Contents
        BY DEF Contents
      <3> QED
        BY <1>1, <2>2, <3>1, HostType
    <2>3. ASSUME NEW v \in Locks, NEW c \in Contents, r = PutFile(file, v, c)
          PROVE  r.file \in File /\ r.reply \in Reply
      BY <1>1, <2>3, HostType
    <2> QED
      BY <2>1, <2>2, <2>3
  <1>3. At(l) \in Pass
    BY PassType DEF TypeOK
  <1>4. /\ \A b \in BOOLEAN : [At(l) EXCEPT !.retried = b] \in Pass
        /\ \A v \in OtherLocks : [At(l) EXCEPT !.taken = v] \in Pass
    BY <1>3 DEF Pass
  <1> QED
    BY <1>2, <1>3, <1>4, CallType

\* Going on with the next candidate, or ending the walk.
LEMMA WalkType ==
    ASSUME HostConstants, RoomConstants, TypeOK
    PROVE  /\ RefreshTriesNext => pass' \in Pass
           /\ SaveTriesNext => pass' \in Pass /\ timer' \in {"now", "throttled", "backoff"}
  <1>1. \A l \in Labels : NextCandidate(l) => pass' \in Pass
    <2> SUFFICES ASSUME NEW l \in Labels, NextCandidate(l) PROVE pass' \in Pass
      OBVIOUS
    <2>1. PICK t \in pass.ladder \ {pass.cand} :
            pass' = [At(l) EXCEPT !.cand = t, !.ladder = @ \ {pass.cand}]
      BY DEF NextCandidate
    <2>2. At(l) \in Pass /\ pass.ladder \subseteq Tokens
      BY PassType DEF TypeOK, Pass
    <2>3. \A u \in Tokens : \A x : [At(l) EXCEPT !.cand = u, !.ladder = @ \ {x}] \in Pass
      BY <2>2 DEF Pass
    <2> QED
      BY <2>1, <2>2, <2>3
  <1>2. "refresh" \in Labels /\ "ensure" \in Labels
    BY DEF Labels, Calls
  <1> QED
    BY <1>1, <1>2, PassType DEF RefreshTriesNext, SaveTriesNext, TypeOK, RoomTypes

\* Where a pass works with a candidate of the ladder.
Walking == {"refresh", "refreshReply", "ensure", "acquire", "relockReply", "lockReply",
            "put", "putReply", "unlockedPut", "unlockedPutReply"}

\* The strengthening of TypeOK: a candidate is a writer's token.  It gives
\* the token classifyTokenAttempt marks its type, and WritesWithWriterToken.
WriterInv ==
    /\ canWrite \subseteq WriteTokens
    /\ pass.ladder \subseteq WriteTokens
    /\ pass.pc \in Walking => pass.cand \in WriteTokens

TokenTypes ==
    /\ tokens \in [Users -> Tokens \cup {NoToken}]
    /\ canWrite \subseteq Tokens
    /\ failed \subseteq Tokens

\* What the outcomes of a lock attempt do to the tokens, the pass and the timer.
LEMMA OutcomeType ==
    ASSUME HostConstants, RoomConstants, TypeOK, WriterInv, pass.pc \in Walking
    PROVE  /\ Classify => TokenTypes'
           /\ LockHeld => pass' \in Pass
           /\ LockFailed => /\ pass' \in Pass
                            /\ TokenTypes'
                            /\ timer' \in {"now", "throttled", "backoff"}
  <1>1. pass.cand \in Tokens
    BY DEF WriterInv, RoomConstants
  <1>2. Classify => TokenTypes'
    BY <1>1 DEF Classify, TypeOK, RoomTypes, TokenTypes
  <1>3. LockHeld => pass' \in Pass
    BY PassType DEF LockHeld, TypeOK, Labels, Calls
  <1>4. ASSUME LockFailed
        PROVE  pass' \in Pass /\ TokenTypes' /\ timer' \in {"now", "throttled", "backoff"}
    <2>1. At("unlockedPut") \in Pass /\ SaveEnded \in Pass /\ SaveStage \in Pass
      BY PassType DEF TypeOK, Labels, Calls
    <2>2. TokenTypes /\ timer \in {"now", "throttled", "backoff"}
      BY DEF TypeOK, RoomTypes, TokenTypes
    <2>3. UNCHANGED tokenVars => TokenTypes'
      BY <2>2 DEF TokenTypes
    <2> QED
      BY <1>2, <1>4, <2>1, <2>2, <2>3, WalkType DEF LockFailed
  <1> QED
    BY <1>2, <1>3, <1>4

\* ensureLocked.
LEMMA LockType ==
    ASSUME HostConstants, RoomConstants, TypeOK, WriterInv,
           Ensure \/ Acquire \/ Relocked \/ Locked
    PROVE  TypeOK'
  <1>1. CASE Ensure
    <2>1. forceUnlock \in OtherLocks \cup {NoLock} /\ "relockReply" \in Labels /\ "lockReply" \in Labels
      BY DEF TypeOK, RoomTypes, Labels, Replies
    <2>2. pass' \in Pass /\ CallTypes'
      BY <1>1, <2>1, HostCallType DEF Ensure, Locks
    <2> QED
      BY <1>1, <2>2, FrameType DEF Ensure, TypeOK, RoomTypes
  <1>2. CASE Acquire
    <2>1. pass.retried \in BOOLEAN /\ "lockReply" \in Labels
      BY DEF TypeOK, Pass, Labels, Replies
    <2>2. pass' \in Pass /\ CallTypes'
      BY <1>2, <2>1, HostCallType DEF Acquire
    <2> QED
      BY <1>2, <2>2, FrameType DEF Acquire, TypeOK
  <1>3. pass.reply.lock \in Locks /\ pass.taken \in OtherLocks \cup {NoLock}
    BY DEF TypeOK, Pass, Reply
  <1>4. At("acquire") \in Pass /\ [At("acquire") EXCEPT !.retried = TRUE] \in Pass
    <2>1. At("acquire") \in Pass
      BY PassType DEF TypeOK, Labels, Calls
    <2> QED
      BY <2>1 DEF Pass
  <1>5. /\ TokenTypes /\ UNCHANGED tokenVars => TokenTypes'
        /\ TokenTypes
        /\ \A l \in OtherLocks, b \in BOOLEAN :
             EnterConflict(l, b) => conflict' \in BOOLEAN /\ haveLock' \in BOOLEAN
                                    /\ foreignLock' \in OtherLocks \cup {NoLock}
    BY DEF TypeOK, RoomTypes, TokenTypes, EnterConflict
  <1>6. ASSUME /\ pass' \in Pass /\ TokenTypes' /\ timer' \in {"now", "throttled", "backoff"}
               /\ {haveLock', conflict'} \subseteq BOOLEAN
               /\ {forceUnlock', foreignLock'} \subseteq OtherLocks \cup {NoLock}
               /\ UNCHANGED <<sceneVars, checkVars, firstSaveDone, lifeVars, callVars, worldVars,
                              decisionVars>>
        PROVE  TypeOK'
    <2>1. RoomTypes'
      BY <1>6 DEF TypeOK, RoomTypes, TokenTypes
    <2> QED
      BY <1>6, <2>1, FrameType DEF TypeOK
  <1>7. /\ {haveLock, conflict} \subseteq BOOLEAN
        /\ {forceUnlock, foreignLock} \subseteq OtherLocks \cup {NoLock}
        /\ timer \in {"now", "throttled", "backoff"}
    BY DEF TypeOK, RoomTypes
  <1>8. CASE Relocked
    <2>1. pass.pc \in Walking
      BY <1>8 DEF Relocked, Walking
    <2>2. CASE Got("ok") /\ LockHeld /\ UNCHANGED forceUnlock
      BY <1>5, <1>6, <1>7, <1>8, <2>1, <2>2, OutcomeType DEF Relocked, LockHeld
    <2>3. CASE GotLock(OtherLocks) /\ LockLostTo(pass.reply.lock) /\ UNCHANGED forceUnlock
      BY <1>5, <1>6, <1>7, <1>8, <2>1, <2>3, OutcomeType DEF Relocked, LockLostTo, GotLock
    <2>4. CASE /\ pass' = At("acquire")
               /\ UNCHANGED <<tokenVars, lockVars, conflictVars, timer>>
      BY <1>4, <1>5, <1>6, <1>7, <1>8, <2>4 DEF Relocked
    <2>5. CASE /\ forceUnlock' = TakeoverRestored
               /\ LockFailed
               /\ UNCHANGED <<haveLock, conflictVars>>
      BY <1>3, <1>5, <1>6, <1>7, <1>8, <2>1, <2>5, OutcomeType DEF Relocked, TakeoverRestored
    <2> QED
      BY <1>8, <2>2, <2>3, <2>4, <2>5 DEF Relocked
  <1>9. CASE Locked
    <2>1. pass.pc \in Walking
      BY <1>9 DEF Locked, Walking
    <2>2. CASE LockHeld
      BY <1>5, <1>6, <1>7, <1>9, <2>1, <2>2, OutcomeType DEF Locked, LockHeld
    <2>3. CASE GotLock(OtherLocks) /\ LockLostTo(pass.reply.lock)
      BY <1>5, <1>6, <1>7, <1>9, <2>1, <2>3, OutcomeType DEF Locked, LockLostTo, GotLock
    <2>4. CASE /\ pass' = [At("acquire") EXCEPT !.retried = TRUE]
               /\ UNCHANGED <<tokenVars, haveLock, conflictVars, timer>>
      BY <1>4, <1>5, <1>6, <1>7, <1>9, <2>4 DEF Locked
    <2>5. CASE LockFailed /\ UNCHANGED <<haveLock, conflictVars>>
      BY <1>5, <1>6, <1>7, <1>9, <2>1, <2>5, OutcomeType DEF Locked
    <2> QED
      BY <1>9, <2>2, <2>3, <2>4, <2>5 DEF Locked
  <1> QED
    BY <1>1, <1>2, <1>8, <1>9

\* refreshLock.
LEMMA RefreshType ==
    ASSUME HostConstants, RoomConstants, TypeOK, WriterInv, Refresh \/ Refreshed
    PROVE  TypeOK'
  <1>1. CASE Refresh
    <2>1. "refreshReply" \in Labels
      BY DEF Labels, Replies
    <2>2. pass' \in Pass /\ CallTypes'
      BY <1>1, <2>1, HostCallType DEF Refresh
    <2> QED
      BY <1>1, <2>2, FrameType DEF Refresh, TypeOK
  <1>2. CASE Refreshed
    <2>1. pass.pc \in Walking /\ "ensure" \in Labels
      BY <1>2 DEF Refreshed, Walking, Labels, Calls
    <2>2. pass' \in Pass
      BY <1>2, <2>1, PassType, WalkType DEF Refreshed, TypeOK
    <2>3. TokenTypes'
      <3>1. UNCHANGED tokenVars => TokenTypes'
        BY DEF TypeOK, RoomTypes, TokenTypes
      <3> QED
        BY <1>2, <2>1, <3>1, OutcomeType DEF Refreshed
    <2>4. /\ {haveLock', conflict'} \subseteq BOOLEAN
          /\ foreignLock' \in OtherLocks \cup {NoLock}
      BY <1>2 DEF Refreshed, EnterConflict, GotLock, TypeOK, RoomTypes
    <2>5. UNCHANGED <<sceneVars, forceUnlock, checkVars, saveVars, lifeVars, callVars, worldVars,
                      decisionVars>>
      BY <1>2 DEF Refreshed
    <2>6. RoomTypes'
      BY <2>3, <2>4, <2>5 DEF TypeOK, RoomTypes, TokenTypes
    <2> QED
      BY <2>2, <2>5, <2>6, FrameType DEF TypeOK
  <1> QED
    BY <1>1, <1>2

\* performSave begins, for either caller.
LEMMA BeginSaveType ==
    ASSUME HostConstants, RoomConstants, TypeOK, NEW k \in {"save", "closeSave"}, BeginSave(k)
    PROVE  /\ pass' \in Pass
           /\ timer' \in {"now", "throttled", "backoff"} /\ firstSaveDone' \in BOOLEAN
  <1>1. IdlePass \in Pass /\ Ladder \subseteq Tokens /\ Heads(Ladder) \subseteq Tokens
    BY PassType, LadderType DEF TypeOK
  <1>2. [IdlePass EXCEPT !.pc = "closeCheck"] \in Pass
    BY <1>1 DEF Pass, Labels
  <1>3. \A t \in Tokens, b \in BOOLEAN :
            [IdlePass EXCEPT !.pc = "ensure", !.task = k, !.cand = t, !.ladder = Ladder,
                             !.body = scene, !.seq = sceneSeq, !.first = b] \in Pass
    <2>1. scene \in Scenes \cup {NoScene} /\ sceneSeq \in Nat
      BY DEF TypeOK, RoomTypes
    <2> QED
      BY <1>1, <2>1 DEF Pass, Labels, Calls
  <1>4. pass' \in Pass
    <2>1. CASE Ladder = {}
      BY <1>1, <1>2, <2>1 DEF BeginSave
    <2>2. CASE Ladder # {}
      <3>1. PICK t \in Heads(Ladder) :
                pass' = [IdlePass EXCEPT !.pc = "ensure", !.task = k, !.cand = t,
                                         !.ladder = Ladder, !.body = scene,
                                         !.seq = sceneSeq, !.first = ~firstSaveDone]
        BY <2>2 DEF BeginSave
      <3>2. (~firstSaveDone) \in BOOLEAN
        BY DEF TypeOK, RoomTypes
      <3> QED
        BY <1>1, <1>3, <3>1, <3>2
    <2> QED
      BY <2>1, <2>2
  <1> QED
    BY <1>4 DEF BeginSave, TypeOK, RoomTypes

\* performSave and attemptSave.
LEMMA SaveType ==
    ASSUME HostConstants, RoomConstants, TypeOK, WriterInv,
           Save \/ Put \/ UnlockedPut \/ PutAnswered \/ UnlockedPutAnswered
    PROVE  TypeOK'
  <1>1. CASE Save
    <2>1. /\ pass' \in Pass
          /\ timer' \in {"now", "throttled", "backoff"} /\ firstSaveDone' \in BOOLEAN
      BY <1>1, BeginSaveType, PassType DEF Save, TypeOK, RoomTypes
    <2>2. RoomTypes'
      BY <1>1, <2>1 DEF Save, TypeOK, RoomTypes
    <2> QED
      BY <1>1, <2>1, <2>2, FrameType DEF Save, TypeOK
  <1>2. CASE Put \/ UnlockedPut
    <2>1. /\ Body(pass.body) \in Contents /\ {OurLock, NoLock} \subseteq Locks
          /\ {"putReply", "unlockedPutReply"} \subseteq Labels
      BY DEF TypeOK, Pass, Body, Contents, Locks, Labels, Replies
    <2>2. pass' \in Pass /\ CallTypes'
      BY <1>2, <2>1, HostCallType DEF Put, UnlockedPut
    <2> QED
      BY <1>2, <2>2, FrameType DEF Put, UnlockedPut, TypeOK
  <1>3. SaveSucceeded => /\ dirty' \in BOOLEAN /\ expected' \in Contents \cup {NoVersion}
                         /\ timer' \in {"now", "throttled", "backoff"}
                         /\ overwriting' \in BOOLEAN /\ pass' \in Pass
    BY PassType DEF SaveSucceeded, StillDirty, SavedVersion, TypeOK, RoomTypes, Pass, Reply
  <1>4. CASE PutAnswered
    <2>1. pass.pc \in Walking
      BY <1>4 DEF PutAnswered, Walking
    <2>2. pass' \in Pass /\ timer' \in {"now", "throttled", "backoff"}
      BY <1>3, <1>4, PassType, WalkType DEF PutAnswered, TypeOK, RoomTypes
    <2>3. TokenTypes'
      <3>1. UNCHANGED tokenVars => TokenTypes'
        BY DEF TypeOK, RoomTypes, TokenTypes
      <3> QED
        BY <1>4, <2>1, <3>1, OutcomeType DEF PutAnswered
    <2>4. /\ {dirty', haveLock', conflict', overwriting'} \subseteq BOOLEAN
          /\ foreignLock' \in OtherLocks \cup {NoLock}
          /\ expected' \in Contents \cup {NoVersion}
      BY <1>3, <1>4 DEF PutAnswered, EnterConflict, GotLock, TypeOK, RoomTypes
    <2>5. UNCHANGED <<scene, sceneSeq, lastWriter, forceUnlock, pendingCheck, skipCheck,
                      firstSaveDone, lifeVars, callVars, worldVars, owed>>
      BY <1>4 DEF PutAnswered
    <2>6. RoomTypes'
      BY <2>2, <2>3, <2>4, <2>5 DEF TypeOK, RoomTypes, TokenTypes
    <2> QED
      BY <2>2, <2>5, <2>6, FrameType DEF TypeOK
  <1>5. CASE UnlockedPutAnswered
    <2>1. pass' \in Pass /\ timer' \in {"now", "throttled", "backoff"}
      BY <1>3, <1>5, WalkType DEF UnlockedPutAnswered
    <2>2. /\ {dirty', overwriting'} \subseteq BOOLEAN
          /\ expected' \in Contents \cup {NoVersion}
      BY <1>3, <1>5 DEF UnlockedPutAnswered, TypeOK, RoomTypes
    <2>3. RoomTypes'
      BY <1>5, <2>1, <2>2 DEF UnlockedPutAnswered, TypeOK, RoomTypes
    <2> QED
      BY <1>5, <2>1, <2>3, FrameType DEF UnlockedPutAnswered, TypeOK
  <1> QED
    BY <1>1, <1>2, <1>4, <1>5

\* performClose and gcRoom.
LEMMA CloseType ==
    ASSUME HostConstants, RoomConstants, TypeOK,
           \/ Close \/ CloseCheck \/ UnlockOnClose \/ UnlockedOnClose \/ Delete
           \/ CollectIdle \/ IdleUnlocked \/ DeleteIdle
    PROVE  TypeOK'
  <1>1. /\ IdlePass \in Pass
        /\ \A l \in {"closeCheck", "unlock", "delete", "gcDelete"} : At(l) \in Pass
        /\ {"unlockReply", "gcReply"} \subseteq Labels
    BY PassType DEF TypeOK, Labels, Calls, Replies
  <1>2. CASE Close
    <2>1. /\ pass' \in Pass
          /\ timer' \in {"now", "throttled", "backoff"} /\ firstSaveDone' \in BOOLEAN
      BY <1>1, <1>2, BeginSaveType DEF Close, TypeOK, RoomTypes
    <2>2. RoomTypes'
      BY <1>2, <2>1 DEF Close, TypeOK, RoomTypes
    <2> QED
      BY <1>2, <2>1, <2>2, FrameType DEF Close, TypeOK
  <1>3. CASE CloseCheck
    BY <1>1, <1>3, FrameType DEF CloseCheck, TypeOK
  <1>4. CASE UnlockOnClose \/ CollectIdle
    <2>1. pass' \in Pass /\ CallTypes'
      BY <1>1, <1>4, HostCallType, FrameType DEF UnlockOnClose, CollectIdle, TypeOK
    <2> QED
      BY <1>4, <2>1, FrameType DEF UnlockOnClose, CollectIdle, TypeOK
  <1>5. CASE UnlockedOnClose \/ IdleUnlocked
    <2>1. pass' \in Pass /\ haveLock' \in BOOLEAN
      BY <1>1, <1>5 DEF UnlockedOnClose, IdleUnlocked, StillHeld, TypeOK, RoomTypes
    <2>2. UNCHANGED <<sceneVars, tokenVars, forceUnlock, checkVars, conflictVars, saveVars,
                      lifeVars, callVars, worldVars, decisionVars>>
      BY <1>5 DEF UnlockedOnClose, IdleUnlocked
    <2>3. RoomTypes'
      BY <2>1, <2>2 DEF TypeOK, RoomTypes
    <2> QED
      BY <2>1, <2>2, <2>3, FrameType DEF TypeOK
  <1>6. CASE Delete \/ DeleteIdle
    <2>1. pass' \in Pass /\ UNCHANGED <<callVars, worldVars>>
      BY <1>1, <1>6 DEF Delete, DeleteIdle
    <2>2. CASE Forget
      BY <2>1, <2>2, ForgetType, FrameType DEF TypeOK
    <2>3. CASE /\ idle' = FALSE
               /\ UNCHANGED <<sceneVars, tokenVars, lockVars, checkVars, conflictVars, saveVars,
                              exists, fileKnown, live, closing, decisionVars>>
      <3>1. RoomTypes'
        BY <2>3 DEF TypeOK, RoomTypes
      <3> QED
        BY <2>1, <3>1, FrameType DEF TypeOK
    <2> QED
      BY <1>6, <2>2, <2>3 DEF Delete, DeleteIdle
  <1> QED
    BY <1>2, <1>3, <1>4, <1>5, <1>6

-----------------------------------------------------------------------------
(***************************************************************************)
(* Who writes.                                                             *)
(***************************************************************************)

\* The fields a pass has after the forms it takes between its calls.
LEMMA PassShape ==
    ASSUME HostConstants, RoomConstants, pass \in Pass
    PROVE  /\ \A l : /\ At(l).pc = l /\ At(l).cand = pass.cand /\ At(l).ladder = pass.ladder
                     /\ At(l).task = pass.task /\ At(l).body = pass.body
                     /\ At(l).seq = pass.seq
           /\ IdlePass.pc = "idle" /\ IdlePass.ladder = {} /\ IdlePass.task = "none"
           /\ SaveStage.pc = "save" /\ SaveStage.ladder = {} /\ SaveStage.task = "none"
           /\ SaveEnded.pc \in {"idle", "closeCheck"} /\ SaveEnded.ladder = {}
           /\ SaveEnded.task = "none"
           /\ AfterCheck.pc \in {"save", "lock"} /\ AfterCheck.ladder = {}
           /\ AfterCheck.task = "none"
           /\ \A x, l : /\ Planned(x, l).pc = l /\ Planned(x, l).ladder = {}
                        /\ Planned(x, l).task = "none"
  <1>1. IdlePass \in Pass
    BY PassType
  <1>2. IdlePass.pc = "idle" /\ IdlePass.ladder = {} /\ IdlePass.task = "none"
    BY DEF IdlePass
  <1>3. \A q \in Pass : \A l, x :
            /\ [q EXCEPT !.pc = l].pc = l
            /\ [q EXCEPT !.pc = l].ladder = q.ladder /\ [q EXCEPT !.pc = l].task = q.task
            /\ [q EXCEPT !.plan = x, !.pc = l].pc = l
            /\ [q EXCEPT !.plan = x, !.pc = l].ladder = q.ladder
            /\ [q EXCEPT !.plan = x, !.pc = l].task = q.task
    BY DEF Pass
  <1>4. \A l : /\ At(l).pc = l /\ At(l).cand = pass.cand /\ At(l).ladder = pass.ladder
               /\ At(l).task = pass.task /\ At(l).body = pass.body /\ At(l).seq = pass.seq
    BY DEF At, Pass
  <1> QED
    BY <1>1, <1>2, <1>3, <1>4 DEF SaveStage, SaveEnded, AfterCheck, Planned

\* A call adds its reply to the pass that makes it.
LEMMA CallShape ==
    ASSUME NEW t, NEW r, NEW p \in Pass, Call(t, r, p)
    PROVE  /\ pass'.pc = p.pc /\ pass'.cand = p.cand /\ pass'.ladder = p.ladder
           /\ pass'.task = p.task /\ pass'.body = p.body /\ pass'.seq = p.seq
           /\ pass'.want = p.want
  <1>1. \A a : LET q == [p EXCEPT !.reply = a]
               IN  /\ q.pc = p.pc /\ q.cand = p.cand /\ q.ladder = p.ladder
                   /\ q.task = p.task /\ q.body = p.body /\ q.seq = p.seq /\ q.want = p.want
    BY DEF Pass
  <1> QED
    BY <1>1 DEF Call, Served, Refused, Faulty

LEMMA NextCandidateShape ==
    ASSUME HostConstants, RoomConstants, pass \in Pass, NEW l, NextCandidate(l)
    PROVE  /\ pass'.pc = l /\ pass'.cand \in pass.ladder /\ pass'.ladder \subseteq pass.ladder
           /\ pass'.task = pass.task /\ pass'.body = pass.body /\ pass'.seq = pass.seq
  <1>1. PICK t \in pass.ladder \ {pass.cand} :
          pass' = [At(l) EXCEPT !.cand = t, !.ladder = @ \ {pass.cand}]
    BY DEF NextCandidate
  <1> QED
    BY <1>1 DEF At, Pass

\* Every token on the ladder is a writer's.
LEMMA LadderWrites ==
    ASSUME RoomConstants, TypeOK, WriterInv
    PROVE  Ladder \subseteq WriteTokens /\ Heads(Ladder) \subseteq WriteTokens
  BY LadderType DEF WriterInv, Ladder, LadderOf

LEMMA InitWriter == ASSUME Init PROVE WriterInv
  BY DEF Init, WriterInv, IdlePass, Walking

LEMMA WriterStep ==
    ASSUME HostConstants, RoomConstants, TypeOK, WriterInv, Next
    PROVE  WriterInv'
  <1> USE DEF Walking
  <1>1. pass \in Pass /\ canWrite \subseteq WriteTokens /\ pass.ladder \subseteq WriteTokens
    BY DEF TypeOK, WriterInv
  <1>2. ASSUME pass' = pass, canWrite' \subseteq WriteTokens PROVE WriterInv'
    BY <1>2 DEF WriterInv
  <1>3. ASSUME pass'.pc \notin Walking, pass'.ladder = {}, canWrite' \subseteq WriteTokens
        PROVE  WriterInv'
    BY <1>3 DEF WriterInv
  <1>4. ASSUME pass'.ladder \subseteq WriteTokens, pass'.cand \in WriteTokens,
               canWrite' \subseteq WriteTokens
        PROVE  WriterInv'
    BY <1>4 DEF WriterInv
  <1>5. ASSUME NEW l, pass' = At(l), l \notin Walking, canWrite' \subseteq WriteTokens
        PROVE  WriterInv'
    BY <1>1, <1>5, PassShape DEF WriterInv
  <1>6. ASSUME NEW l, pass' = At(l), pass.pc \in Walking, canWrite' \subseteq WriteTokens
        PROVE  WriterInv'
    BY <1>1, <1>6, PassShape DEF WriterInv
  <1>7. ASSUME NEW l, NextCandidate(l), canWrite' \subseteq WriteTokens PROVE WriterInv'
    BY <1>1, <1>4, <1>7, NextCandidateShape
  <1>8. Classify => canWrite' \subseteq WriteTokens
    BY <1>1 DEF Classify
  <1>9. ASSUME SaveTriesNext, canWrite' \subseteq WriteTokens PROVE WriterInv'
    <2>1. CASE pass' = SaveEnded
      BY <1>1, <1>3, <1>9, <2>1, PassShape
    <2> QED
      BY <1>7, <1>9, <2>1 DEF SaveTriesNext
  <1>10. ASSUME RefreshTriesNext, canWrite' \subseteq WriteTokens PROVE WriterInv'
    <2>1. CASE pass' = SaveStage
      BY <1>1, <1>3, <1>10, <2>1, PassShape
    <2> QED
      BY <1>7, <1>10, <2>1 DEF RefreshTriesNext
  <1>11. ASSUME LockFailed, pass.pc \in Walking PROVE WriterInv'
    <2>1. canWrite' \subseteq WriteTokens
      BY <1>1, <1>8, <1>11 DEF LockFailed
    <2>2. CASE pass' \in {SaveStage, SaveEnded}
      BY <1>1, <1>3, <2>1, <2>2, PassShape
    <2>3. CASE pass' = At("unlockedPut")
      BY <1>6, <1>11, <2>1, <2>3
    <2> QED
      BY <1>9, <1>10, <1>11, <2>1, <2>2, <2>3 DEF LockFailed
  <1>12. ASSUME LockHeld, pass.pc \in Walking PROVE WriterInv'
    <2>1. CASE pass' = SaveStage
      BY <1>1, <1>3, <1>12, <2>1, PassShape DEF LockHeld
    <2>2. CASE pass' = At("put")
      BY <1>1, <1>6, <1>12, <2>2 DEF LockHeld
    <2> QED
      BY <1>12, <2>1, <2>2 DEF LockHeld
  \* A call made at a place where the pass works with a candidate.
  <1>13. ASSUME NEW t, NEW r, NEW p \in Pass, Call(t, r, p), pass.pc \in Walking,
                p.cand = pass.cand, p.ladder = pass.ladder, canWrite' = canWrite
         PROVE  WriterInv'
    BY <1>1, <1>4, <1>13, CallShape DEF WriterInv
  \* A call made with a token that may only read.
  <1>14. ASSUME NEW t, NEW r, NEW p \in Pass, Call(t, r, p), p.pc \notin Walking,
                p.ladder = pass.ladder, canWrite' = canWrite
         PROVE  WriterInv'
    <2>1. pass'.pc \notin Walking /\ pass'.ladder \subseteq WriteTokens
      BY <1>1, <1>14, CallShape
    <2> QED
      BY <1>1, <1>14, <2>1 DEF WriterInv
  <1>15. \A l \in Labels : At(l) \in Pass
    BY <1>1, PassType
  <1>16. CASE Handler \/ (World /\ ~Crash)
    <2>1. pass' = pass
      BY <1>16 DEF Handler, World, Observe, PutScene, OnJoin, OnLeave, ResolveOverwrite,
                   ResolveReload, SaveTimerElapses, CloseGraceElapses, FailedTokenRetried,
                   TokenExpires, StrangerActs
    <2>2. canWrite' \subseteq WriteTokens
      BY <1>1, <1>16 DEF Handler, World, Observe, PutScene, OnJoin, OnLeave, ResolveOverwrite,
                   ResolveReload, SaveTimerElapses, CloseGraceElapses, FailedTokenRetried,
                   TokenExpires, StrangerActs
    <2> QED
      BY <1>2, <2>1, <2>2
  <1>17. CASE Crash
    BY <1>1, <1>3, <1>17, PassShape DEF Crash, Forget
  <1>18. CASE Evaluate
    <2>1. PICK r \in BOOLEAN, i \in BOOLEAN : StartPass(r, i)
      BY <1>18 DEF Evaluate
    <2>2. canWrite' \subseteq WriteTokens
      BY <1>1, <2>1 DEF StartPass
    <2>3. PICK x, l : /\ pass' = Planned(x, l)
                      /\ l \in {"gc", "check", "close", "save", "lock"}
      BY <2>1 DEF StartPass
    <2> QED
      BY <1>1, <1>3, <2>2, <2>3, PassShape
  <1>19. CASE CheckVersion
    <2>1. CASE pass' = AfterCheck
      BY <1>1, <1>3, <1>19, <2>1, PassShape DEF CheckVersion
    <2>2. ASSUME NEW t, Call(t, CheckFileInfo(file), [At("checkReply") EXCEPT !.want = expected])
          PROVE  WriterInv'
      <3>1. /\ [At("checkReply") EXCEPT !.want = expected] \in Pass
            /\ [At("checkReply") EXCEPT !.want = expected].pc = "checkReply"
            /\ [At("checkReply") EXCEPT !.want = expected].ladder = pass.ladder
        <4>1. At("checkReply") \in Pass /\ expected \in Contents \cup {NoVersion}
          BY <1>15 DEF Labels, Replies, TypeOK, RoomTypes
        <4>2. At("checkReply").pc = "checkReply" /\ At("checkReply").ladder = pass.ladder
          BY <1>1, PassShape
        <4> QED
          BY <4>1, <4>2 DEF Pass
      <3> QED
        BY <1>14, <1>19, <2>2, <3>1 DEF CheckVersion
    <2> QED
      BY <1>19, <2>1, <2>2 DEF CheckVersion
  <1>20. CASE VersionChecked
    BY <1>1, <1>3, <1>20, PassShape DEF VersionChecked
  <1>21. CASE LockStage
    <2>1. CASE pass' = SaveStage
      BY <1>1, <1>3, <1>21, <2>1, PassShape DEF LockStage
    <2>2. CASE pass' # SaveStage
      <3>1. PICK t \in Heads(Ladder) :
                pass' = [IdlePass EXCEPT
                            !.cand = t,
                            !.ladder = IF pass.plan = "refresh" THEN Ladder ELSE {t},
                            !.pc = IF pass.plan = "refresh" THEN "refresh" ELSE "ensure",
                            !.task = IF pass.plan = "refresh" THEN "refresh" ELSE "eager"]
        BY <1>21, <2>2 DEF LockStage
      <3>2. pass'.cand = t /\ pass'.ladder \in {Ladder, {t}}
        BY <3>1 DEF IdlePass
      <3>3. Ladder \subseteq WriteTokens /\ t \in WriteTokens
        BY LadderWrites
      <3>4. canWrite' = canWrite
        BY <1>21 DEF LockStage
      <3>5. pass'.ladder \subseteq WriteTokens /\ pass'.cand \in WriteTokens
        BY <3>2, <3>3
      <3> QED
        BY <1>1, <1>4, <3>4, <3>5
    <2> QED
      BY <2>1, <2>2
  <1>22. CASE Ensure
    <2>1. ASSUME NEW v \in OtherLocks \cup {NoLock}
          PROVE  /\ [At("relockReply") EXCEPT !.taken = v] \in Pass
                 /\ [At("relockReply") EXCEPT !.taken = v].cand = pass.cand
                 /\ [At("relockReply") EXCEPT !.taken = v].ladder = pass.ladder
      <3>1. At("relockReply") \in Pass
        BY <1>15 DEF Labels, Replies
      <3>2. At("relockReply").cand = pass.cand /\ At("relockReply").ladder = pass.ladder
        BY <1>1, PassShape
      <3> QED
        BY <3>1, <3>2 DEF Pass
    <2>2. /\ At("lockReply") \in Pass /\ At("lockReply").cand = pass.cand
          /\ At("lockReply").ladder = pass.ladder
      BY <1>1, <1>15, PassShape DEF Labels, Replies
    <2>3. forceUnlock \in OtherLocks \cup {NoLock} /\ pass.pc \in Walking /\ canWrite' = canWrite
      BY <1>22 DEF Ensure, TypeOK, RoomTypes
    <2> QED
      BY <1>13, <1>22, <2>1, <2>2, <2>3 DEF Ensure
  <1>23. CASE Acquire
    <2>1. /\ [At("lockReply") EXCEPT !.retried = pass.retried] \in Pass
          /\ [At("lockReply") EXCEPT !.retried = pass.retried].cand = pass.cand
          /\ [At("lockReply") EXCEPT !.retried = pass.retried].ladder = pass.ladder
      <3>1. At("lockReply") \in Pass
        BY <1>15 DEF Labels, Replies
      <3>2. At("lockReply").cand = pass.cand /\ At("lockReply").ladder = pass.ladder
        BY <1>1, PassShape
      <3> QED
        BY <1>1, <3>1, <3>2 DEF Pass
    <2> QED
      BY <1>13, <1>23, <2>1 DEF Acquire
  <1>24. CASE Relocked
    <2>1. pass.pc \in Walking
      BY <1>24 DEF Relocked
    <2>2. CASE pass' = At("acquire") /\ UNCHANGED tokenVars
      BY <1>1, <1>6, <2>1, <2>2
    <2> QED
      BY <1>11, <1>12, <1>24, <2>1, <2>2 DEF Relocked, LockLostTo
  <1>25. CASE Locked
    <2>1. pass.pc \in Walking
      BY <1>25 DEF Locked
    <2>2. CASE pass' = [At("acquire") EXCEPT !.retried = TRUE] /\ UNCHANGED tokenVars
      <3>1. At("acquire") \in Pass
        BY <1>15 DEF Labels, Calls
      <3>2. pass'.cand = pass.cand /\ pass'.ladder = pass.ladder
        BY <1>1, <2>2, <3>1, PassShape DEF Pass
      <3> QED
        BY <1>1, <1>4, <2>1, <2>2, <3>2 DEF WriterInv
    <2> QED
      BY <1>11, <1>12, <1>25, <2>1, <2>2 DEF Locked, LockLostTo
  <1>26. CASE Refresh \/ Put \/ UnlockedPut
    <2>1. \A l \in {"refreshReply", "putReply", "unlockedPutReply"} :
            At(l) \in Pass /\ At(l).cand = pass.cand /\ At(l).ladder = pass.ladder
      BY <1>1, <1>15, PassShape DEF Labels, Replies
    <2>2. pass.pc \in Walking /\ canWrite' = canWrite
      BY <1>26 DEF Refresh, Put, UnlockedPut
    <2> QED
      BY <1>13, <1>26, <2>1, <2>2 DEF Refresh, Put, UnlockedPut
  <1>27. CASE Refreshed
    <2>1. canWrite' \subseteq WriteTokens
      BY <1>1, <1>8, <1>27 DEF Refreshed
    <2>2. CASE pass' = SaveStage
      BY <1>1, <1>3, <2>1, <2>2, PassShape
    <2>3. CASE pass' = At("ensure")
      BY <1>6, <1>27, <2>1, <2>3 DEF Refreshed
    <2> QED
      BY <1>10, <1>27, <2>1, <2>2, <2>3 DEF Refreshed
  <1>28. ASSUME NEW k, BeginSave(k), UNCHANGED tokenVars PROVE WriterInv'
    <2>1. CASE Ladder = {}
      <3>1. pass'.pc \in {"closeCheck", "idle"} /\ pass'.ladder = {}
        BY <1>28, <2>1 DEF BeginSave, IdlePass
      <3> QED
        BY <1>1, <1>3, <1>28, <3>1
    <2>2. CASE Ladder # {}
      <3>1. PICK t \in Heads(Ladder) :
                pass' = [IdlePass EXCEPT !.pc = "ensure", !.task = k, !.cand = t,
                                         !.ladder = Ladder, !.body = scene,
                                         !.seq = sceneSeq, !.first = ~firstSaveDone]
        BY <1>28, <2>2 DEF BeginSave
      <3>2. pass'.cand = t /\ pass'.ladder = Ladder
        BY <3>1 DEF IdlePass
      <3> QED
        BY <1>1, <1>4, <1>28, <3>2, LadderWrites
    <2> QED
      BY <2>1, <2>2
  <1>29. CASE Save
    <2>1. CASE pass' = IdlePass
      BY <1>1, <1>3, <1>29, <2>1, PassShape DEF Save
    <2> QED
      BY <1>28, <1>29, <2>1 DEF Save
  <1>30. CASE PutAnswered \/ UnlockedPutAnswered
    <2>1. canWrite' \subseteq WriteTokens
      BY <1>1, <1>8, <1>30 DEF PutAnswered, UnlockedPutAnswered
    <2>2. CASE pass' = SaveEnded
      BY <1>1, <1>3, <2>1, <2>2, PassShape
    <2> QED
      BY <1>9, <1>30, <2>1, <2>2 DEF PutAnswered, UnlockedPutAnswered, SaveSucceeded
  <1>31. CASE Close
    <2>1. CASE pass' = IdlePass
      BY <1>1, <1>3, <1>31, <2>1, PassShape DEF Close
    <2>2. CASE pass' = At("closeCheck")
      BY <1>1, <1>5, <1>31, <2>2 DEF Close
    <2> QED
      BY <1>28, <1>31, <2>1, <2>2 DEF Close
  <1>32. CASE CloseCheck \/ UnlockedOnClose \/ IdleUnlocked
    <2>1. /\ \/ pass' = IdlePass
             \/ \E l \in {"unlock", "delete", "gcDelete"} : pass' = At(l)
          /\ canWrite' \subseteq WriteTokens
      BY <1>1, <1>32 DEF CloseCheck, UnlockedOnClose, IdleUnlocked
    <2> QED
      BY <1>1, <1>3, <1>5, <2>1, PassShape
  <1>33. CASE UnlockOnClose \/ CollectIdle
    <2>1. \A l \in {"unlockReply", "gcReply"} :
            At(l) \in Pass /\ At(l).pc = l /\ At(l).ladder = pass.ladder
      BY <1>1, <1>15, PassShape DEF Labels, Replies
    <2>2. canWrite' = canWrite
      BY <1>33 DEF UnlockOnClose, CollectIdle
    <2>3. CASE \E l \in {"delete", "gcDelete"} : pass' = At(l)
      BY <1>1, <1>5, <2>2, <2>3
    <2> QED
      BY <1>14, <1>33, <2>1, <2>2, <2>3 DEF UnlockOnClose, CollectIdle
  <1>34. CASE Delete \/ DeleteIdle
    <2>1. pass' = IdlePass /\ canWrite' \subseteq WriteTokens
      BY <1>1, <1>34 DEF Delete, DeleteIdle, Forget
    <2> QED
      BY <1>1, <1>3, <2>1, PassShape
  <1> QED
    BY <1>16, <1>17, <1>18, <1>19, <1>20, <1>21, <1>22, <1>23, <1>24, <1>25, <1>26, <1>27,
       <1>29, <1>30, <1>31, <1>32, <1>33, <1>34 DEF Next, PassStep, World

\* A step that changes nothing keeps both.
LEMMA Stutter ==
    ASSUME UNCHANGED vars
    PROVE  (TypeOK => TypeOK') /\ (WriterInv => WriterInv')
  BY DEF TypeOK, RoomTypes, CallTypes, WorldTypes, WriterInv

LEMMA NextType ==
    ASSUME HostConstants, RoomConstants, TypeOK, WriterInv, Next
    PROVE  TypeOK'
  BY HandlerType, EvaluateType, WorldType, CheckType, LockType, RefreshType, SaveType, CloseType
     DEF Next, PassStep

THEOREM Typed == Spec => [](TypeOK /\ WriterInv)
  <1>1. Init => TypeOK /\ WriterInv
    BY HostConstants, RoomConstants, InitType, InitWriter
  <1>2. TypeOK /\ WriterInv /\ [Next]_vars => (TypeOK /\ WriterInv)'
    BY HostConstants, RoomConstants, NextType, WriterStep, Stutter
  <1> QED
    BY <1>1, <1>2, PTL DEF Spec

\* Every variable of a room, of its pass and of the file stays in its type,
\* for every number of users, tokens and calls.
THEOREM TypeCorrect == Spec => []TypeOK
  BY Typed, PTL

\* Every lock call and every put of the service carries the token of a
\* session that may write.
THEOREM WriterTokenOnly == Spec => []WritesWithWriterToken
  <1>1. WriterInv => WritesWithWriterToken
    BY DEF WriterInv, WritesWithWriterToken, Walking
  <1> QED
    BY <1>1, Typed, PTL

=============================================================================
