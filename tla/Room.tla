-------------------------------- MODULE Room --------------------------------
(***************************************************************************)
(* One room of the Manager of internal/room: the retained scene of one     *)
(* file, the tokens it may save with, its WOPI lock, and the life of the   *)
(* room from its first request to its close.                               *)
(*                                                                         *)
(* The background evaluation of a room (evaluateRoom, at most one at a     *)
(* time: the inFlight flag) runs concurrently with the request handlers    *)
(* and the relay's hooks.  It holds the Manager's mutex only between WOPI  *)
(* calls, so it is modelled as a process with a program counter: an action *)
(* of the pass is one mutex region together with the call that follows it, *)
(* and the reply of the call is read by a later action.  Nothing of the    *)
(* room that a call needs is read after the mutex is released, so the host *)
(* may serve it in the same step; everything else can happen before the    *)
(* reply is processed.                                                     *)
(*                                                                         *)
(* Time is abstracted to "has elapsed": `timer' for the save schedule,     *)
(* `closing' for the close grace, and choices of a pass for the refresh    *)
(* interval and the idle timeout.  What the room tells its clients         *)
(* (notifyState, the expiry warnings) feeds nothing back and is left out.  *)
(***************************************************************************)
EXTENDS WopiHost, Naturals

CONSTANTS
    Users,          \* users with a session on the file
    Tokens,         \* WOPI access tokens
    Owner,          \* Owner[t]: the user token t was issued to
    WriteTokens,    \* the tokens whose session claims CanWrite
    NoUser, NoToken, NoScene, NoVersion,
    Faults,         \* the ways a WOPI call can fail
    MaxPuts,        \* bound on the PutScene calls of one room
    MaxMembers,     \* bound on the sockets joined at once
    MaxFaults,      \* bound on the failed WOPI calls
    MaxStrangers,   \* bound on what happens to the file outside this service
    MaxCrashes      \* bound on the restarts of this service

ASSUME RoomConstants ==
    /\ Owner \in [Tokens -> Users]
    /\ WriteTokens \subseteq Tokens
    /\ NoUser \notin Users
    /\ NoToken \notin Tokens
    /\ NoScene \notin Contents
    /\ NoVersion \notin Contents
    /\ Faults \subseteq {"tokenRejected", "noWriteAccess", "failed", "lostReply",
                         "emptyConflict"}
    /\ {MaxPuts, MaxMembers, MaxFaults, MaxStrangers, MaxCrashes} \subseteq Nat

VARIABLES
    \* the roomState, reset whenever the room is forgotten
    exists,         \* m.rooms has an entry for the file's WOPISrc
    fileKnown,      \* the file id is recorded: byFileID finds the room
    scene,          \* the retained scene, NoScene for nil
    dirty,
    sceneSeq,
    lastWriter,
    tokens,         \* tokens[u]: the token u was last observed with
    canWrite,       \* the tracked tokens whose canWrite flag is set
    failed,         \* failedTokens
    live,           \* liveUserCount
    haveLock,
    forceUnlock,    \* forceUnlockValue
    expected,       \* expectedVersion, NoVersion while haveVersion is false
    pendingCheck,   \* pendingVersionCheck
    skipCheck,      \* skipVersionCheckOnce
    conflict,
    foreignLock,    \* conflictForeignLock
    timer,          \* "now": a save may run; "throttled", "backoff": not yet
    firstSaveDone,
    closing,        \* "no", "grace" before closeAt, "due" after it
    idle,           \* idleSince is set
    \* the pass over the room
    pass,
    \* everything around the Manager
    file,           \* the file on the host
    expired,        \* tokens past their expiry
    admitted,       \* users with an authenticated write request still in progress
    members,        \* sockets joined to the relay's room
    faults, strangers, crashes,
    lostPut,        \* a PutFile landed and its reply was lost
    overwriting,    \* a user chose Overwrite, and nothing has been saved or
                    \* changed on the host since
    owed            \* the foreign lock a user last decided to take over

sceneVars == <<scene, dirty, sceneSeq, lastWriter>>
tokenVars == <<tokens, canWrite, failed>>
lockVars == <<haveLock, forceUnlock>>
checkVars == <<expected, pendingCheck, skipCheck>>
conflictVars == <<conflict, foreignLock>>
saveVars == <<timer, firstSaveDone>>
lifeVars == <<exists, fileKnown, live, closing, idle>>
roomVars == <<sceneVars, tokenVars, lockVars, checkVars, conflictVars, saveVars, lifeVars>>
callVars == <<file, faults, lostPut>>
worldVars == <<expired, admitted, members, strangers, crashes>>
decisionVars == <<overwriting, owed>>
vars == <<roomVars, pass, callVars, worldVars, decisionVars>>

-----------------------------------------------------------------------------
(***************************************************************************)
(* Tokens.                                                                 *)
(***************************************************************************)
TokensOf(tk) == {tk[u] : u \in Users} \ {NoToken}

\* pruneTokensLocked: an expired token leaves the registry.
Pruned(tk) == [u \in Users |-> IF tk[u] \in expired THEN NoToken ELSE tk[u]]

Unexpired == TokensOf(tokens) \ expired

\* tokenLadder: the tracked tokens worth trying for a write.  A pass judges
\* expiry at the time it started, when it pruned the registry, so a token
\* that expires during the pass stays on the ladder.
LadderOfReaders(tk) == TokensOf(tk) \ failed    \* mutant: canWrite is not looked at
LadderOf(tk) == (TokensOf(tk) \cap canWrite) \ failed
Ladder == LadderOf(tokens)

\* roomLiveLocked, over the tokens tk that have not expired.
AliveWhileLocked(tk) == dirty \/ live > 0 \/ haveLock \/ TokensOf(tk) # {}    \* mutant
Alive(tk) == dirty \/ live > 0 \/ TokensOf(tk) # {}

\* The most recent writer's token comes first; the order of the others
\* (sorted by user id in the code) is left open.
Heads(ladder) ==
    LET own == {t \in ladder : Owner[t] = lastWriter}
    IN  IF own # {} THEN own ELSE ladder

\* anyLiveToken: a write-capable token when there is one.
Readers == IF Ladder # {} THEN Heads(Ladder) ELSE TokensOf(tokens)

(***************************************************************************)
(* The pass: where it is, and the locals of the functions it is in.        *)
(***************************************************************************)
Calls == {"check", "refresh", "ensure", "acquire", "put", "unlockedPut", "unlock", "gc"}
Replies == {"checkReply", "refreshReply", "relockReply", "lockReply", "putReply",
            "unlockedPutReply", "unlockReply", "gcReply"}
Labels == Calls \cup Replies \cup
          {"idle", "lock", "save", "close", "closeCheck", "delete", "gcDelete"}

Pass == [pc      : Labels,
         plan    : {"none", "refresh", "lock"},   \* what is due once the version is checked
         task    : {"none", "eager", "refresh", "save", "closeSave"},
         cand    : Tokens \cup {NoToken},         \* the ladder's current candidate
         ladder  : SUBSET Tokens,                 \* it and the candidates after it
         body    : Scenes \cup {NoScene},         \* performSave's snapshot of the scene
         seq     : Nat,                           \* and of its sequence number
         first   : BOOLEAN,                       \* firstEverAttempt
         taken   : OtherLocks \cup {NoLock},      \* ensureLocked's local forceUnlock
         retried : BOOLEAN,                       \* the one LOCK retry is spent
         want    : Contents \cup {NoVersion},     \* checkVersion's snapshot of expected
         reply   : Reply]

IdlePass == [pc |-> "idle", plan |-> "none", task |-> "none", cand |-> NoToken,
             ladder |-> {}, body |-> NoScene, seq |-> 0, first |-> FALSE,
             taken |-> NoLock, retried |-> FALSE, want |-> NoVersion, reply |-> NoReply]

Planned(plan, label) == [IdlePass EXCEPT !.plan = plan, !.pc = label]
At(label) == [pass EXCEPT !.pc = label, !.taken = NoLock, !.retried = FALSE, !.reply = NoReply]
SaveStage == [IdlePass EXCEPT !.pc = "save"]
SaveEnded == IF pass.task = "closeSave" THEN [IdlePass EXCEPT !.pc = "closeCheck"] ELSE IdlePass
Saving == pass.task \in {"save", "closeSave"}

\* What a nil scene is on the wire: an empty body.
Body(s) == IF s = NoScene THEN Empty ELSE s

-----------------------------------------------------------------------------
(***************************************************************************)
(* A WOPI call with token t whose effect on the file is r, made by a pass  *)
(* that goes on as p: the host serves it, rejects an expired token, or the *)
(* call fails, before or after the host has served it.                     *)
(***************************************************************************)
FaultReply(f) ==
    Answer(IF f = "emptyConflict" THEN "lockConflict" ELSE IF f = "lostReply" THEN "failed" ELSE f)

Served(t, r, p) ==
    /\ t \notin expired
    /\ file' = r.file
    /\ pass' = [p EXCEPT !.reply = r.reply]
    /\ UNCHANGED <<faults, lostPut>>

Refused(t, p) ==
    /\ t \in expired
    /\ pass' = [p EXCEPT !.reply = Answer("tokenRejected")]
    /\ UNCHANGED <<file, faults, lostPut>>

Faulty(r, p) ==
    /\ faults < MaxFaults
    /\ faults' = faults + 1
    /\ \E f \in Faults :
        /\ pass' = [p EXCEPT !.reply = FaultReply(f)]
        /\ file' = IF f = "lostReply" THEN r.file ELSE file
        /\ lostPut' = (lostPut \/ file'.content # file.content)

Call(t, r, p) == Served(t, r, p) \/ Refused(t, p) \/ Faulty(r, p)

Got(c) == pass.reply.code = c
GotLock(s) == Got("lockConflict") /\ pass.reply.lock \in s

-----------------------------------------------------------------------------
(***************************************************************************)
(* Request handlers and relay hooks.                                       *)
(***************************************************************************)

\* Every authenticated request registers its session's token.  A writer's
\* may be a PUT whose body arrives later, or the answer to a conflict.
Observe(t) ==
    LET u == Owner[t]
        tk == Pruned([tokens EXCEPT ![u] = t])
    IN
    /\ t \notin expired
    /\ exists' = TRUE
    /\ fileKnown' = TRUE
    /\ tokens' = tk
    /\ canWrite' = ((canWrite \cap TokensOf(tk)) \ {t}) \cup ({t} \cap WriteTokens)
    /\ failed' = failed \cap TokensOf(tk)
    /\ pendingCheck' = (pendingCheck \/ (tokens[u] = NoToken /\ expected # NoVersion /\ ~conflict))
    /\ admitted' = admitted \cup {Owner[w] : w \in {t} \cap WriteTokens}
    /\ UNCHANGED <<sceneVars, lockVars, expected, skipCheck, conflictVars, saveVars, live,
                   closing, idle, pass, callVars, expired, members, strangers, crashes,
                   decisionVars>>

\* The body of an admitted PUT has arrived.  The room may have been closed
\* since the request was authenticated: roomLocked then makes a new one,
\* with no file id and no token.
PutScene(u, s) ==
    /\ u \in admitted
    /\ sceneSeq < MaxPuts
    /\ exists' = TRUE
    /\ scene' = s
    /\ dirty' = TRUE
    /\ sceneSeq' = sceneSeq + 1
    /\ lastWriter' = u
    /\ admitted' = admitted \ {u}
    /\ UNCHANGED <<tokenVars, lockVars, checkVars, conflictVars, saveVars, fileKnown, live,
                   closing, idle, pass, callVars, expired, members, strangers, crashes,
                   decisionVars>>

\* A hook for a file the Manager does not know is dropped.
OnJoin ==
    /\ members < MaxMembers
    /\ members' = members + 1
    /\ IF fileKnown THEN live' = live + 1 /\ closing' = "no" ELSE UNCHANGED <<live, closing>>
    /\ UNCHANGED <<sceneVars, tokenVars, lockVars, checkVars, conflictVars, saveVars, exists,
                   fileKnown, idle, pass, callVars, expired, admitted, strangers, crashes,
                   decisionVars>>

LeftOffByOne == IF fileKnown /\ live > 1 THEN live - 1 ELSE live     \* mutant
LeftUnguarded == IF fileKnown THEN live - 1 ELSE live                \* mutant
Left == IF fileKnown /\ live > 0 THEN live - 1 ELSE live

OnLeave ==
    /\ members > 0
    /\ members' = members - 1
    /\ live' = Left
    /\ closing' = IF fileKnown /\ members = 1 THEN "grace" ELSE closing
    /\ UNCHANGED <<sceneVars, tokenVars, lockVars, checkVars, conflictVars, saveVars, exists,
                   fileKnown, idle, pass, callVars, expired, admitted, strangers, crashes,
                   decisionVars>>

\* A writer resolves the conflict.  Either way a foreign lock on record is
\* taken over by the next LOCK.
Resolved(u) ==
    /\ u \in admitted
    /\ admitted' = admitted \ {u}
    /\ conflict
    /\ conflict' = FALSE
    /\ foreignLock' = NoLock
    /\ forceUnlock' = IF foreignLock # NoLock THEN foreignLock ELSE forceUnlock
    /\ owed' = IF foreignLock # NoLock THEN foreignLock ELSE owed

ResolveOverwrite(u) ==
    /\ Resolved(u)
    /\ dirty' = TRUE
    /\ timer' = "now"
    /\ skipCheck' = TRUE
    /\ overwriting' = TRUE
    /\ UNCHANGED <<scene, sceneSeq, lastWriter, tokenVars, haveLock, expected, pendingCheck,
                   firstSaveDone, lifeVars, pass, callVars, expired, members, strangers,
                   crashes>>

ResolveReload(u) ==
    /\ Resolved(u)
    /\ scene' = NoScene
    /\ dirty' = FALSE
    /\ expected' = NoVersion
    /\ overwriting' = FALSE
    /\ UNCHANGED <<sceneSeq, lastWriter, tokenVars, haveLock, pendingCheck, skipCheck,
                   saveVars, lifeVars, pass, callVars, expired, members, strangers, crashes>>

-----------------------------------------------------------------------------
(***************************************************************************)
(* The end of a room: deleteRoomLocked forgets it, and the next request    *)
(* starts from a zero roomState.                                           *)
(***************************************************************************)
Forget ==
    /\ exists' = FALSE /\ fileKnown' = FALSE /\ live' = 0 /\ closing' = "no" /\ idle' = FALSE
    /\ scene' = NoScene /\ dirty' = FALSE /\ sceneSeq' = 0 /\ lastWriter' = NoUser
    /\ tokens' = [u \in Users |-> NoToken] /\ canWrite' = {} /\ failed' = {}
    /\ haveLock' = FALSE /\ forceUnlock' = NoLock
    /\ expected' = NoVersion /\ pendingCheck' = FALSE /\ skipCheck' = FALSE
    /\ conflict' = FALSE /\ foreignLock' = NoLock
    /\ timer' = "now" /\ firstSaveDone' = FALSE
    /\ overwriting' = FALSE /\ owed' = NoLock

\* Mutant: a version drift gives the lock up too.
EnterConflictUnlocked(lock, dropLock) ==
    /\ conflict' = TRUE
    /\ foreignLock' = IF lock # NoLock THEN lock ELSE foreignLock
    /\ haveLock' = FALSE

\* enterConflict with the lock a 409 reported, if any.
EnterConflict(lock, dropLock) ==
    /\ conflict' = TRUE
    /\ foreignLock' = IF lock # NoLock THEN lock ELSE foreignLock
    /\ haveLock' = (haveLock /\ ~dropLock)

-----------------------------------------------------------------------------
(***************************************************************************)
(* evaluateRoom: planPass decides what is due, then the stages run in      *)
(* order: idle GC, or the version check, then the close, or the lock and   *)
(* the save.                                                               *)
(***************************************************************************)
StartPass(refreshElapsed, idleElapsed) ==
    LET tk == Pruned(tokens)
        alive == Alive(tk)
        closeDue == closing = "due"
        refreshDue == refreshElapsed /\ haveLock /\ ~conflict /\ alive
        checkDue == ~skipCheck /\ (pendingCheck \/ refreshDue)
        lockDue == ~haveLock /\ ~conflict /\ ~closeDue /\ LadderOf(tk) # {}
        idleNow == ~alive /\ closing = "no"
        plan == IF refreshDue THEN "refresh" ELSE IF lockDue THEN "lock" ELSE "none"
    IN
    /\ exists
    /\ pass.pc = "idle"
    /\ tokens' = tk
    /\ canWrite' = canWrite \cap TokensOf(tk)
    /\ failed' = failed \cap TokensOf(tk)
    /\ skipCheck' = FALSE
    /\ pendingCheck' = (pendingCheck /\ ~(checkDue /\ ~closeDue))
    /\ idle' = idleNow
    /\ pass' = Planned(plan, CASE idle /\ idleNow /\ idleElapsed -> "gc"
                               [] checkDue /\ ~closeDue -> "check"
                               [] closeDue -> "close"
                               [] plan = "none" -> "save"
                               [] OTHER -> "lock")
    /\ UNCHANGED <<sceneVars, lockVars, expected, conflictVars, saveVars, exists, fileKnown,
                   live, closing, callVars, worldVars, decisionVars>>

\* checkVersion: nothing to compare, or nobody to ask with; or ask.
AfterCheck == Planned(pass.plan, IF pass.plan = "none" THEN "save" ELSE "lock")

CheckVersion ==
    /\ pass.pc = "check"
    /\ IF expected = NoVersion \/ TokensOf(tokens) = {}
       THEN pass' = AfterCheck /\ UNCHANGED callVars
       ELSE \E t \in Readers :
                Call(t, CheckFileInfo(file), [At("checkReply") EXCEPT !.want = expected])
    /\ UNCHANGED <<roomVars, worldVars, decisionVars>>

VersionChecked ==
    /\ pass.pc = "checkReply"
    /\ IF Got("ok") /\ pass.reply.version # pass.want
       THEN EnterConflict(NoLock, FALSE)
       ELSE UNCHANGED <<conflictVars, haveLock>>
    /\ pass' = AfterCheck
    /\ UNCHANGED <<sceneVars, tokenVars, forceUnlock, checkVars, saveVars, lifeVars, callVars,
                   worldVars, decisionVars>>

\* The lock stage: refreshLock, or the eager ensureLocked with the best
\* candidate, whose failure is only logged.
LockStage ==
    /\ pass.pc = "lock"
    /\ IF Ladder = {} \/ (pass.plan = "refresh" /\ conflict)
       THEN pass' = SaveStage
       ELSE \E t \in Heads(Ladder) :
                pass' = [IdlePass EXCEPT
                            !.cand = t,
                            !.ladder = IF pass.plan = "refresh" THEN Ladder ELSE {t},
                            !.pc = IF pass.plan = "refresh" THEN "refresh" ELSE "ensure",
                            !.task = IF pass.plan = "refresh" THEN "refresh" ELSE "eager"]
    /\ UNCHANGED <<roomVars, callVars, worldVars, decisionVars>>

-----------------------------------------------------------------------------
(***************************************************************************)
(* Walking the ladder.                                                     *)
(***************************************************************************)
NextCandidate(label) ==
    \E t \in pass.ladder \ {pass.cand} :
        pass' = [At(label) EXCEPT !.cand = t, !.ladder = @ \ {pass.cand}]

LadderSpent == pass.ladder \subseteq {pass.cand}

\* recordSaveFailure ends a save whose candidates have all failed.
SaveTriesNext ==
    IF LadderSpent
    THEN timer' = "backoff" /\ pass' = SaveEnded
    ELSE NextCandidate("ensure") /\ UNCHANGED timer

RefreshTriesNext == IF LadderSpent THEN pass' = SaveStage ELSE NextCandidate("refresh")

\* classifyTokenAttempt: a rejected token is skipped for a while, one that
\* may not write is also no longer a writer's.
Classify ==
    /\ failed' = IF Got("tokenRejected") \/ Got("noWriteAccess")
                 THEN failed \cup {pass.cand} ELSE failed
    /\ canWrite' = IF Got("noWriteAccess") THEN canWrite \ {pass.cand} ELSE canWrite
    /\ UNCHANGED tokens

(***************************************************************************)
(* ensureLocked, for the caller in pass.task.                              *)
(***************************************************************************)
LockHeld ==
    /\ haveLock' = TRUE
    /\ pass' = IF Saving THEN At("put") ELSE SaveStage
    /\ UNCHANGED <<tokenVars, conflictVars, timer>>

\* The lock could not be taken: a save classifies the error, a refresh tries
\* its next candidate, the eager attempt gives up.
LockFailed ==
    \/ pass.task = "eager" /\ pass' = SaveStage /\ UNCHANGED <<tokenVars, timer>>
    \/ pass.task = "refresh" /\ RefreshTriesNext /\ UNCHANGED <<tokenVars, timer>>
    \/ /\ Saving
       /\ Classify
       /\ \/ Got("lockConflict") /\ pass' = SaveEnded /\ UNCHANGED timer
          \/ Got("failed") /\ pass.first /\ pass' = At("unlockedPut") /\ UNCHANGED timer
          \/ ~Got("lockConflict") /\ ~(Got("failed") /\ pass.first) /\ SaveTriesNext

LockLostTo(lock) ==
    /\ EnterConflict(lock, TRUE)
    /\ LockFailed

\* A takeover on record is taken off it and tried first.
Ensure ==
    /\ pass.pc = "ensure"
    /\ forceUnlock' = NoLock
    /\ IF forceUnlock # NoLock
       THEN Call(pass.cand, UnlockAndRelock(file, OurLock, forceUnlock),
                 [At("relockReply") EXCEPT !.taken = forceUnlock])
       ELSE Call(pass.cand, Lock(file, OurLock), At("lockReply"))
    /\ UNCHANGED <<sceneVars, tokenVars, haveLock, checkVars, conflictVars, saveVars, lifeVars,
                   worldVars, decisionVars>>

Acquire ==
    /\ pass.pc = "acquire"
    /\ Call(pass.cand, Lock(file, OurLock), [At("lockReply") EXCEPT !.retried = pass.retried])
    /\ UNCHANGED <<roomVars, worldVars, decisionVars>>

TakeoverSpent == forceUnlock         \* mutant: consumed whatever the outcome
TakeoverRestored == pass.taken

\* Only a failure that says nothing about the lock puts the takeover back.
Relocked ==
    /\ pass.pc = "relockReply"
    /\ \/ Got("ok") /\ LockHeld /\ UNCHANGED forceUnlock
       \/ GotLock(OtherLocks) /\ LockLostTo(pass.reply.lock) /\ UNCHANGED forceUnlock
       \/ /\ GotLock({NoLock, OurLock})
          /\ pass' = At("acquire")
          /\ UNCHANGED <<tokenVars, lockVars, conflictVars, timer>>
       \/ /\ ~Got("ok") /\ ~Got("lockConflict")
          /\ forceUnlock' = TakeoverRestored
          /\ LockFailed
          /\ UNCHANGED <<haveLock, conflictVars>>
    /\ UNCHANGED <<sceneVars, checkVars, firstSaveDone, lifeVars, callVars, worldVars,
                   decisionVars>>

\* Our own value counts as holding the lock; an empty one earns one retry.
Locked ==
    /\ pass.pc = "lockReply"
    /\ \/ (Got("ok") \/ GotLock({OurLock})) /\ LockHeld
       \/ GotLock(OtherLocks) /\ LockLostTo(pass.reply.lock)
       \/ /\ GotLock({NoLock}) /\ ~pass.retried
          /\ pass' = [At("acquire") EXCEPT !.retried = TRUE]
          /\ UNCHANGED <<tokenVars, haveLock, conflictVars, timer>>
       \/ /\ ~Got("ok")
          /\ Got("lockConflict") => (GotLock({NoLock}) /\ pass.retried)
          /\ LockFailed
          /\ UNCHANGED <<haveLock, conflictVars>>
    /\ UNCHANGED <<sceneVars, forceUnlock, checkVars, firstSaveDone, lifeVars, callVars,
                   worldVars, decisionVars>>

(***************************************************************************)
(* refreshLock: REFRESH_LOCK down the ladder.                              *)
(***************************************************************************)
Refresh ==
    /\ pass.pc = "refresh"
    /\ Call(pass.cand, RefreshLock(file, OurLock), At("refreshReply"))
    /\ UNCHANGED <<roomVars, worldVars, decisionVars>>

Refreshed ==
    /\ pass.pc = "refreshReply"
    /\ \/ /\ Got("ok") \/ GotLock({OurLock})
          /\ pass' = SaveStage
          /\ haveLock' = TRUE
          /\ UNCHANGED <<tokenVars, conflictVars>>
       \/ /\ GotLock({NoLock})
          /\ pass' = At("ensure")
          /\ UNCHANGED <<tokenVars, haveLock, conflictVars>>
       \/ /\ GotLock(OtherLocks)
          /\ EnterConflict(pass.reply.lock, TRUE)
          /\ pass' = SaveStage
          /\ UNCHANGED tokenVars
       \/ /\ ~Got("ok") /\ ~Got("lockConflict")
          /\ Classify
          /\ RefreshTriesNext
          /\ UNCHANGED <<haveLock, conflictVars>>
    /\ UNCHANGED <<sceneVars, forceUnlock, checkVars, saveVars, lifeVars, callVars, worldVars,
                   decisionVars>>

(***************************************************************************)
(* performSave.                                                            *)
(***************************************************************************)
BeginSave(task) ==
    /\ firstSaveDone' = TRUE
    /\ IF Ladder = {}
       THEN /\ timer' = "backoff"
            /\ pass' = IF task = "closeSave" THEN [IdlePass EXCEPT !.pc = "closeCheck"]
                       ELSE IdlePass
       ELSE /\ \E t \in Heads(Ladder) :
                    pass' = [IdlePass EXCEPT !.pc = "ensure", !.task = task, !.cand = t,
                                             !.ladder = Ladder, !.body = scene,
                                             !.seq = sceneSeq, !.first = ~firstSaveDone]
            /\ UNCHANGED timer

SaveDueInConflict == dirty /\ timer = "now"      \* mutant: the pause is forgotten
SaveDue == dirty /\ ~conflict /\ timer = "now"   \* saveDueLocked

Save ==
    /\ pass.pc = "save"
    /\ IF SaveDue
       THEN BeginSave("save")
       ELSE pass' = IdlePass /\ UNCHANGED saveVars
    /\ UNCHANGED <<sceneVars, tokenVars, lockVars, checkVars, conflictVars, lifeVars, callVars,
                   worldVars, decisionVars>>

Put ==
    /\ pass.pc = "put"
    /\ Call(pass.cand, PutFile(file, OurLock, Body(pass.body)), At("putReply"))
    /\ UNCHANGED <<roomVars, worldVars, decisionVars>>

\* The last resort of a room's very first save, when LOCK itself fails.
UnlockedPut ==
    /\ pass.pc = "unlockedPut"
    /\ Call(pass.cand, PutFile(file, NoLock, Body(pass.body)), At("unlockedPutReply"))
    /\ UNCHANGED <<roomVars, worldVars, decisionVars>>

\* recordSaveSuccess: a scene that arrived while the save was on its way
\* keeps the room dirty.
NeverStillDirty == FALSE                         \* mutant: sceneSeq is not compared
StillDirty == dirty /\ sceneSeq # pass.seq

\* Mutant: the version is recorded once.
FirstVersion == IF expected = NoVersion THEN pass.reply.version ELSE expected
SavedVersion == pass.reply.version

SaveSucceeded ==
    /\ dirty' = StillDirty
    /\ expected' = SavedVersion
    /\ timer' = "throttled"
    /\ overwriting' = FALSE
    /\ pass' = SaveEnded

PutAnswered ==
    /\ pass.pc = "putReply"
    /\ \/ /\ Got("ok")
          /\ SaveSucceeded
          /\ UNCHANGED <<tokenVars, haveLock, conflictVars>>
       \/ /\ GotLock(OtherLocks)
          /\ EnterConflict(pass.reply.lock, TRUE)
          /\ pass' = SaveEnded
          /\ UNCHANGED <<dirty, tokenVars, expected, timer, overwriting>>
       \/ /\ GotLock({NoLock, OurLock})
          /\ haveLock' = FALSE
          /\ SaveTriesNext
          /\ UNCHANGED <<dirty, tokenVars, expected, conflictVars, overwriting>>
       \/ /\ ~Got("ok") /\ ~Got("lockConflict")
          /\ Classify
          /\ SaveTriesNext
          /\ UNCHANGED <<dirty, haveLock, expected, conflictVars, overwriting>>
    /\ UNCHANGED <<scene, sceneSeq, lastWriter, forceUnlock, pendingCheck, skipCheck,
                   firstSaveDone, lifeVars, callVars, worldVars, owed>>

UnlockedPutAnswered ==
    /\ pass.pc = "unlockedPutReply"
    /\ \/ Got("ok") /\ SaveSucceeded
       \/ /\ ~Got("ok")
          /\ SaveTriesNext
          /\ UNCHANGED <<dirty, expected, overwriting>>
    /\ UNCHANGED <<scene, sceneSeq, lastWriter, tokenVars, lockVars, pendingCheck, skipCheck,
                   conflictVars, firstSaveDone, lifeVars, callVars, worldVars, owed>>

-----------------------------------------------------------------------------
(***************************************************************************)
(* performClose and gcRoom.                                                *)
(***************************************************************************)

\* closeSaveDueLocked: the final save waits for nothing but a backoff.
Close ==
    /\ pass.pc = "close"
    /\ IF closing # "due" \/ (dirty /\ ~conflict /\ timer = "backoff")
       THEN pass' = IdlePass /\ UNCHANGED saveVars
       ELSE IF dirty /\ ~conflict
       THEN BeginSave("closeSave")
       ELSE pass' = At("closeCheck") /\ UNCHANGED saveVars
    /\ UNCHANGED <<sceneVars, tokenVars, lockVars, checkVars, conflictVars, lifeVars, callVars,
                   worldVars, decisionVars>>

\* A rejoin or a scene still unsaved keeps the room; else it gives its lock
\* back with the best token it has, and goes.
KeepConflicted == closing # "due" \/ dirty \/ conflict     \* mutant
KeepOpen == closing # "due" \/ dirty

CloseCheck ==
    /\ pass.pc = "closeCheck"
    /\ pass' = IF KeepOpen THEN IdlePass
               ELSE IF haveLock THEN At("unlock") ELSE At("delete")
    /\ UNCHANGED <<roomVars, callVars, worldVars, decisionVars>>

UnlockOnClose ==
    /\ pass.pc = "unlock"
    /\ IF Ladder = {}
       THEN pass' = At("delete") /\ UNCHANGED callVars
       ELSE \E t \in Heads(Ladder) : Call(t, Unlock(file, OurLock), At("unlockReply"))
    /\ UNCHANGED <<roomVars, worldVars, decisionVars>>

HeldAfterUnlock == haveLock           \* mutant: the unlocked room still thinks it holds
StillHeld == haveLock /\ ~Got("ok")

UnlockedOnClose ==
    /\ pass.pc = "unlockReply"
    /\ haveLock' = StillHeld
    /\ pass' = At("delete")
    /\ UNCHANGED <<sceneVars, tokenVars, forceUnlock, checkVars, conflictVars, saveVars,
                   lifeVars, callVars, worldVars, decisionVars>>

\* Nothing is looked at again before the room goes.
Delete ==
    /\ pass.pc = "delete"
    /\ Forget
    /\ pass' = IdlePass
    /\ UNCHANGED <<callVars, worldVars>>

CollectIdle ==
    /\ pass.pc = "gc"
    /\ IF haveLock /\ Ladder \ expired # {}
       THEN \E t \in Heads(Ladder \ expired) : Call(t, Unlock(file, OurLock), At("gcReply"))
       ELSE pass' = At("gcDelete") /\ UNCHANGED callVars
    /\ UNCHANGED <<roomVars, worldVars, decisionVars>>

IdleUnlocked ==
    /\ pass.pc = "gcReply"
    /\ haveLock' = StillHeld
    /\ pass' = IF Got("ok") THEN At("gcDelete") ELSE IdlePass
    /\ UNCHANGED <<sceneVars, tokenVars, forceUnlock, checkVars, conflictVars, saveVars,
                   lifeVars, callVars, worldVars, decisionVars>>

\* Here the room is looked at again: it may have come back to life.
DeleteIdle ==
    /\ pass.pc = "gcDelete"
    /\ pass' = IdlePass
    /\ IF ~dirty /\ live = 0 /\ Unexpired = {} /\ closing = "no"
       THEN Forget
       ELSE /\ idle' = FALSE
            /\ UNCHANGED <<sceneVars, tokenVars, lockVars, checkVars, conflictVars, saveVars,
                           exists, fileKnown, live, closing, decisionVars>>
    /\ UNCHANGED <<callVars, worldVars>>

-----------------------------------------------------------------------------
(***************************************************************************)
(* Time, the host's other clients, and restarts.                           *)
(***************************************************************************)
BackoffForEver == timer = "throttled"   \* mutant
SaveWaits == timer # "now"

SaveTimerElapses ==
    /\ SaveWaits
    /\ timer' = "now"
    /\ UNCHANGED <<sceneVars, tokenVars, lockVars, checkVars, conflictVars, firstSaveDone,
                   lifeVars, pass, callVars, worldVars, decisionVars>>

\* A pass compares closeAt with the time it started at, so a grace that runs
\* out during a pass is seen by the next one.
CloseGraceElapses ==
    /\ closing = "grace"
    /\ pass.pc = "idle"
    /\ closing' = "due"
    /\ UNCHANGED <<sceneVars, tokenVars, lockVars, checkVars, conflictVars, saveVars, exists,
                   fileKnown, live, idle, pass, callVars, worldVars, decisionVars>>

FailedTokenRetried(t) ==
    /\ t \in failed
    /\ failed' = failed \ {t}
    /\ UNCHANGED <<sceneVars, tokens, canWrite, lockVars, checkVars, conflictVars, saveVars,
                   lifeVars, pass, callVars, worldVars, decisionVars>>

TokenExpires(t) ==
    /\ t \notin expired
    /\ expired' = expired \cup {t}
    /\ UNCHANGED <<roomVars, pass, callVars, admitted, members, strangers, crashes, decisionVars>>

\* Another WOPI client locks or unlocks the file, a lock runs out, or the
\* file is replaced on the host.
StrangerActs ==
    /\ strangers < MaxStrangers
    /\ strangers' = strangers + 1
    /\ \/ \E l \in OtherLocks : file.lock \in {NoLock, l} /\ file' = [file EXCEPT !.lock = l]
       \/ file.lock # NoLock /\ file' = [file EXCEPT !.lock = NoLock]
       \/ \E c \in Contents \ {file.content} : file' = [file EXCEPT !.content = c]
    /\ file' # file
    /\ overwriting' = FALSE
    /\ owed' = NoLock
    /\ UNCHANGED <<roomVars, pass, faults, lostPut, expired, admitted, members, crashes>>

\* The process goes: its rooms, its pass and its sockets with it.  Sessions
\* survive (they are stateless), and so does the lock on the host.
Crash ==
    /\ crashes < MaxCrashes
    /\ crashes' = crashes + 1
    /\ Forget
    /\ pass' = IdlePass
    /\ members' = 0
    /\ admitted' = {}
    /\ UNCHANGED <<callVars, expired, strangers>>

-----------------------------------------------------------------------------
Init ==
    /\ exists = FALSE /\ fileKnown = FALSE /\ live = 0 /\ closing = "no" /\ idle = FALSE
    /\ scene = NoScene /\ dirty = FALSE /\ sceneSeq = 0 /\ lastWriter = NoUser
    /\ tokens = [u \in Users |-> NoToken] /\ canWrite = {} /\ failed = {}
    /\ haveLock = FALSE /\ forceUnlock = NoLock
    /\ expected = NoVersion /\ pendingCheck = FALSE /\ skipCheck = FALSE
    /\ conflict = FALSE /\ foreignLock = NoLock
    /\ timer = "now" /\ firstSaveDone = FALSE
    /\ overwriting = FALSE /\ owed = NoLock
    /\ pass = IdlePass
    /\ file \in [content : Contents, lock : {NoLock}]
    /\ expired = {} /\ admitted = {} /\ members = 0
    /\ faults = 0 /\ strangers = 0 /\ crashes = 0
    /\ lostPut = FALSE

Handler ==
    \/ \E t \in Tokens : Observe(t)
    \/ \E u \in Users, s \in Scenes : PutScene(u, s)
    \/ OnJoin
    \/ OnLeave
    \/ \E u \in Users : ResolveOverwrite(u)
    \/ \E u \in Users : ResolveReload(u)

\* What a pass does once it runs.
PassStep ==
    \/ CheckVersion \/ VersionChecked
    \/ LockStage \/ Ensure \/ Relocked \/ Acquire \/ Locked \/ Refresh \/ Refreshed
    \/ Save \/ Put \/ PutAnswered \/ UnlockedPut \/ UnlockedPutAnswered
    \/ Close \/ CloseCheck \/ UnlockOnClose \/ UnlockedOnClose \/ Delete
    \/ CollectIdle \/ IdleUnlocked \/ DeleteIdle

Evaluate == \E refreshElapsed, idleElapsed \in BOOLEAN : StartPass(refreshElapsed, idleElapsed)

World ==
    \/ SaveTimerElapses
    \/ CloseGraceElapses
    \/ \E t \in Tokens : FailedTokenRetried(t) \/ TokenExpires(t)
    \/ StrangerActs
    \/ Crash

Next == Handler \/ Evaluate \/ PassStep \/ World

Spec == Init /\ [][Next]_vars

(***************************************************************************)
(* The background loop evaluates every room once a poll interval, a pass   *)
(* that has started goes on (a WOPI call returns or times out), and time   *)
(* passes: timers, the failed-token TTL, the close grace and the idle      *)
(* timeout run out, the last two whenever a pass gets to see it.           *)
(***************************************************************************)
Fairness ==
    /\ WF_vars(PassStep)
    /\ WF_vars(Evaluate)
    /\ WF_vars(SaveTimerElapses)
    /\ \A t \in Tokens : WF_vars(FailedTokenRetried(t))
    /\ SF_vars(CloseGraceElapses)
    /\ SF_vars(\E refreshElapsed \in BOOLEAN : StartPass(refreshElapsed, TRUE))

FairSpec == Spec /\ Fairness

-----------------------------------------------------------------------------
RoomTypes ==
    /\ {exists, fileKnown, dirty, haveLock, pendingCheck, skipCheck, conflict,
        firstSaveDone, idle, overwriting} \subseteq BOOLEAN
    /\ scene \in Scenes \cup {NoScene}
    /\ sceneSeq \in Nat
    /\ lastWriter \in Users \cup {NoUser}
    /\ tokens \in [Users -> Tokens \cup {NoToken}]
    /\ canWrite \subseteq Tokens
    /\ failed \subseteq Tokens
    /\ live \in Nat
    /\ forceUnlock \in OtherLocks \cup {NoLock}
    /\ expected \in Contents \cup {NoVersion}
    /\ {foreignLock, owed} \subseteq OtherLocks \cup {NoLock}
    /\ timer \in {"now", "throttled", "backoff"}
    /\ closing \in {"no", "grace", "due"}

CallTypes == file \in File /\ faults \in Nat /\ lostPut \in BOOLEAN

WorldTypes ==
    /\ expired \subseteq Tokens
    /\ admitted \subseteq Users
    /\ {members, strangers, crashes} \subseteq Nat

\* Every variable stays in its type.
TypeOK == RoomTypes /\ pass \in Pass /\ CallTypes /\ WorldTypes

\* A room that is not dirty has its retained scene on the host: the last
\* version a PutFile was acknowledged with is that scene, and it still is
\* the host's content unless somebody else wrote the file.  A scene stored
\* while an older one is being saved must not be taken for saved.
CleanMeansSaved ==
    (~dirty /\ scene # NoScene) =>
        /\ expected = scene
        /\ strangers = 0 => file.content = scene

\* Saves pause in a conflict: a pass that is about to put a scene on the host,
\* or is waiting for the answer, is not in a conflict.
SavePausedInConflict ==
    pass.pc \in {"put", "putReply", "unlockedPut", "unlockedPutReply"} => ~conflict

\* A conflict is not raised against the room's own writes: somebody else has
\* touched the file, or a PutFile landed whose reply was lost, which leaves
\* the room with an expected version that is no longer the host's.
ConflictHasCause == conflict => (strangers > 0 \/ lostPut)

\* A room that believes it holds the lock holds it, as long as nobody else
\* touches the file and no reply is lost: a lock the room has given back, or
\* lost, is never taken for held, or the room would not lock again.
HaveLockMeansLocked ==
    (haveLock /\ strangers = 0 /\ faults = 0 /\ pass.pc \notin {"unlockReply", "gcReply"}) =>
        file.lock = OurLock

\* A room that goes leaves no lock behind, unless a call failed, a token ran
\* out, or the service stopped: the host's lock would otherwise shut out
\* every other client for its whole lifetime.
ClosedMeansUnlocked ==
    (~exists /\ faults = 0 /\ crashes = 0 /\ expired = {} /\ WriteTokens = Tokens) =>
        file.lock # OurLock

\* A room never counts more live users than the relay has sockets: it would
\* stay live, and keep its lock, after the last of them has left.
LiveNeverOvercounts == live <= members

\* Only the token of a session that may write is ever used for a call that
\* changes the file or its lock, whatever the registry goes through.
WritesWithWriterToken ==
    pass.pc \in {"refresh", "ensure", "acquire", "put", "unlockedPut"} => pass.cand \in WriteTokens

\* The lock a user decided to take over is taken over: however many tokens
\* fail before, the decision stays on record, or on its way to the host,
\* while that lock is on the file.
\* ensureLocked's comment also says that the value
\* "is consumed here as a one-shot, regardless of the outcome"
\* (save.go:368-369). The code restores it when the call failed on anything
\* but a lock conflict (save.go:393-406), and this is what the property is
\* about.
TakeoverKept ==
    (owed # NoLock /\ file.lock = owed) =>
        (forceUnlock = owed \/ (pass.pc = "relockReply" /\ pass.taken = owed))

\* Nobody is left to save with: no tracked token may write, or all that may
\* have run out.
NoWriter == (TokensOf(tokens) \cap canWrite) \ expired = {}

\* Every join and leave restarts the close grace, so a room whose users come
\* and go in step with its passes could put its close off for ever.
JoinsStop == <>[][members' <= members]_members

\* performClose has seen the room clean and is on its way to delete it.
Closing == pass.pc \in {"unlock", "unlockReply", "delete"}

\* A retained scene reaches the host, or a newer one takes its place, unless
\* the room is paused in a conflict or has nobody to save with: backoffs,
\* rejected tokens, lost locks and a close under way only delay it. To delete
\* the room is not to save it. A scene stored in the window of performClose is
\* left out: the code drops it, as NoUnsavedDrop shows.
EventuallySaved ==
    JoinsStop =>
        \A s \in Scenes :
            (dirty /\ scene = s /\ ~Closing) ~>
                \/ ~dirty /\ expected = s
                \/ scene \in Scenes \ {s}
                \/ conflict \/ (exists /\ NoWriter)

\* A room everybody has left is closed, or somebody comes back, unless it
\* still has a scene it cannot save.
EventuallyClosed ==
    JoinsStop =>
        ((closing # "no") ~> (closing = "no" \/ (dirty /\ (conflict \/ NoWriter))))

\* A room that nobody closes goes too, once it has nothing left to keep it.
Abandoned == exists /\ ~dirty /\ live = 0 /\ Unexpired = {} /\ closing = "no"
EventuallyCollected == Abandoned ~> ~Abandoned

-----------------------------------------------------------------------------
(***************************************************************************)
(* What the code's comments promise and the code does not keep.            *)
(***************************************************************************)

\* performClose: "this never discards the retained scene".  Only a restart
\* takes a room away with a scene that is not saved.
NoUnsavedDrop == [][(exists /\ dirty /\ crashes' = crashes) => exists']_vars

\* ResolveConflict: an overwrite "forces the retained scene to the host".  A
\* room without one has nothing to put there.
NoEmptyOverwrite == pass.pc = "put" => pass.body # NoScene

\* ensureLocked: a failure of the token alone "must not spend the user's
\* Overwrite decision".  Until the overwrite has landed, or the file changes
\* again, the room does not go back into the conflict the user resolved.
OverwriteKept == overwriting => ~conflict

\* evaluateRoom "re-checks state that ... an earlier step in this same pass
\* could have changed": a version check that finds a conflict stops the
\* eager lock that was planned before it.
EagerLockRechecked ==
    (pass.task = "eager" /\ pass.pc \in {"ensure", "acquire"}) => ~conflict

=============================================================================
