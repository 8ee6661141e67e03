------------------------------- MODULE Shutdown -------------------------------
(***************************************************************************)
(* The end of a process: main, the HTTP server's Shutdown and the hook     *)
(* that flushes the rooms (cmd/excalidraw-wopi/main.go, NewServer of       *)
(* internal/app/app.go), with the room Manager's background loop, its      *)
(* passes and its flush (internal/room/manager.go).                        *)
(*                                                                         *)
(* A room is its unsaved scene and its conflict; Room models the rest. A   *)
(* pass may save a room or leave it for later, the flush saves it. All     *)
(* rooms exist from the start: one that comes into being after the flush   *)
(* has listed them is one that becomes dirty after the flush has looked.   *)
(* The limit of four workers only delays.                                  *)
(***************************************************************************)
EXTENDS Naturals, FiniteSets

CONSTANTS FlushedRooms,  \* the rooms of the process
          MaxCalls       \* requests that store a scene or resolve a conflict

ASSUME ShutdownConstants == MaxCalls \in Nat

VARIABLES
    process,   \* serving, stopping, exited
    serving,   \* the requests under way that store a scene or resolve
    callsLeft,
    passed,    \* no deadline, the flush's (8 s), or main's too (10 s): 0 to 2
    loop,      \* waiting, passing, done
    hook,      \* off, waiting, flushing, ending, done
    incomplete \* the error Shutdown of the Manager returns

processVars == <<process, serving, callsLeft, passed>>
loopVars == <<loop, hook, incomplete>>

VARIABLES
    unsaved,   \* the dirty rooms
    conflicted,
    inFlight,  \* who has claimed a room: no, pass, flush
    work,      \* idle, claimed, saving, renewed while saving, saved
    todo,      \* rooms the loop's pass has not come to
    toFlush    \* rooms the flush has not come to

flushVars == <<unsaved, conflicted, inFlight, work, todo, toFlush>>

(***************************************************************************)
(* History, which no guard reads.                                          *)
(***************************************************************************)
VARIABLES
    attempted, \* the rooms the flush has tried to save
    changed    \* rooms stored or resolved after the flush last looked at them

shutdownVars == <<processVars, loopVars, flushVars, attempted, changed>>

-----------------------------------------------------------------------------
(***************************************************************************)
(* The process (main.go, app.go).                                          *)
(***************************************************************************)
Accept ==
    /\ process = "serving" /\ callsLeft > 0
    /\ callsLeft' = callsLeft - 1 /\ serving' = serving + 1
    /\ UNCHANGED <<process, passed, loopVars, flushVars, attempted, changed>>

\* The flush will not look at the room again.
LookedAt(r) ==
    hook \in {"flushing", "ending", "done"} /\ r \notin toFlush /\ inFlight[r] # "flush"

\* PutScene, or an overwrite, which resolves a conflict; a request that is
\* being served goes on while the server shuts down.
HandleCall(r) ==
    /\ process # "exited" /\ serving > 0
    /\ serving' = serving - 1
    /\ unsaved' = unsaved \cup {r}
    /\ work' = [work EXCEPT ![r] = IF @ = "saving" THEN "renewed" ELSE @]
    /\ \/ UNCHANGED conflicted
       \/ r \in conflicted /\ conflicted' = conflicted \ {r}
    /\ changed' = IF LookedAt(r) THEN changed \cup {r} ELSE changed
    /\ UNCHANGED <<process, callsLeft, passed, loopVars, inFlight, todo, toFlush, attempted>>

\* SIGTERM: http.Server.Shutdown closes the listeners and starts the hooks,
\* each on a goroutine of its own. Manager.Shutdown stops the loop first.
Terminate ==
    /\ process = "serving"
    /\ process' = "stopping"
    /\ UNCHANGED <<serving, callsLeft, passed, loopVars, flushVars, attempted, changed>>

StartHook ==
    /\ process = "stopping" /\ hook = "off"
    /\ hook' = "waiting"
    /\ UNCHANGED <<processVars, loop, incomplete, flushVars, attempted, changed>>

PassDeadline ==
    /\ process = "stopping" /\ passed < 2
    /\ passed' = passed + 1
    /\ UNCHANGED <<process, serving, callsLeft, loopVars, flushVars, attempted, changed>>

\* Shutdown returns when no request is under way, or at main's deadline, and
\* main returns with it.
Exit ==
    /\ process = "stopping"
    /\ serving = 0 \/ passed = 2
    /\ process' = "exited"
    /\ UNCHANGED <<serving, callsLeft, passed, loopVars, flushVars, attempted, changed>>

-----------------------------------------------------------------------------
(***************************************************************************)
(* The background loop (loop, evaluateAll).                                *)
(***************************************************************************)
Running == process # "exited"

\* A wake or a tick; select may take it although the stop has been asked.
StartEvaluateAll ==
    /\ Running /\ loop = "waiting"
    /\ loop' = "passing" /\ todo' = FlushedRooms
    /\ UNCHANGED <<processVars, hook, incomplete, unsaved, conflicted, inFlight, work, toFlush,
                   attempted, changed>>

\* tryEnterInFlight: a room somebody has claimed is left out.
Claim(r, who) ==
    IF inFlight[r] = "no"
    THEN inFlight' = [inFlight EXCEPT ![r] = who] /\ work' = [work EXCEPT ![r] = "claimed"]
    ELSE UNCHANGED <<inFlight, work>>

EvaluateNext(r) ==
    /\ Running /\ loop = "passing" /\ r \in todo
    /\ todo' = todo \ {r}
    /\ Claim(r, "pass")
    /\ UNCHANGED <<processVars, loopVars, unsaved, conflicted, toFlush, attempted, changed>>

Through(who) == \A r \in FlushedRooms : inFlight[r] # who

EndEvaluateAll ==
    /\ Running /\ loop = "passing" /\ todo = {} /\ Through("pass")
    /\ loop' = "waiting"
    /\ UNCHANGED <<processVars, hook, incomplete, flushVars, attempted, changed>>

StopLoop ==
    /\ Running /\ loop = "waiting" /\ hook # "off"
    /\ loop' = "done"
    /\ UNCHANGED <<processVars, hook, incomplete, flushVars, attempted, changed>>

-----------------------------------------------------------------------------
(***************************************************************************)
(* A claimed room (performSave, and what its caller does next).            *)
(***************************************************************************)
Saveable(r) == r \in unsaved /\ r \notin conflicted

Attempting(r) == attempted' = IF inFlight[r] = "flush" THEN attempted \cup {r} ELSE attempted

BeginRoomSave(r) ==
    /\ Running /\ work[r] = "claimed"
    /\ Saveable(r)
    /\ work' = [work EXCEPT ![r] = "saving"]
    /\ Attempting(r)
    /\ UNCHANGED <<processVars, loopVars, unsaved, conflicted, inFlight, todo, toFlush, changed>>

\* A pass may not find the save due, and its version check may find a conflict.
SkipRoomSave(r) ==
    /\ Running /\ work[r] = "claimed"
    /\ inFlight[r] = "pass" \/ ~Saveable(r)
    /\ work' = [work EXCEPT ![r] = "saved"]
    /\ \/ UNCHANGED conflicted
       \/ inFlight[r] = "pass" /\ conflicted' = conflicted \cup {r}
    /\ Attempting(r)
    /\ UNCHANGED <<processVars, loopVars, unsaved, inFlight, todo, toFlush, changed>>

\* The save succeeds, fails, or finds somebody else's lock.
EndRoomSave(r) ==
    /\ Running /\ work[r] \in {"saving", "renewed"}
    /\ work' = [work EXCEPT ![r] = "saved"]
    /\ \/ unsaved' = (IF work[r] = "saving" THEN unsaved \ {r} ELSE unsaved) /\ UNCHANGED conflicted
       \/ UNCHANGED <<unsaved, conflicted>>
       \/ conflicted' = conflicted \cup {r} /\ UNCHANGED unsaved
    /\ UNCHANGED <<processVars, loopVars, inFlight, todo, toFlush, attempted, changed>>

\* The flush looks at the room again.
StillUnsaved(r) == r \in unsaved

\* exitInFlight; the flush first looks at the room again.
ExitInFlight(r) ==
    /\ Running /\ work[r] = "saved"
    /\ inFlight' = [inFlight EXCEPT ![r] = "no"]
    /\ work' = [work EXCEPT ![r] = "idle"]
    /\ incomplete' = (incomplete \/ (inFlight[r] = "flush" /\ StillUnsaved(r)))
    /\ UNCHANGED <<processVars, loop, hook, unsaved, conflicted, todo, toFlush, attempted, changed>>

-----------------------------------------------------------------------------
(***************************************************************************)
(* The flush (Manager.Shutdown, flushAll).                                 *)
(***************************************************************************)
\* Mutant: the flush does not wait for the loop.
Unwaited == TRUE
\* The loop has returned, with every pass it made; or the time is up.
Waited == loop = "done" \/ passed > 0

StartFlush ==
    /\ Running /\ hook = "waiting" /\ Waited
    /\ hook' = "flushing" /\ toFlush' = FlushedRooms
    /\ UNCHANGED <<processVars, loop, incomplete, unsaved, conflicted, inFlight, work, todo,
                   attempted, changed>>

\* Out of time, the rooms not yet come to are given up.
GiveUp ==
    /\ Running /\ hook = "flushing" /\ toFlush # {} /\ passed > 0
    /\ hook' = "ending" /\ incomplete' = TRUE
    /\ UNCHANGED <<processVars, loop, flushVars, attempted, changed>>

FlushNext(r) ==
    /\ Running /\ hook = "flushing" /\ r \in toFlush /\ passed = 0
    /\ toFlush' = toFlush \ {r}
    /\ IF Saveable(r) THEN Claim(r, "flush") ELSE UNCHANGED <<inFlight, work>>
    /\ UNCHANGED <<processVars, loopVars, unsaved, conflicted, todo, attempted, changed>>

EndFlush ==
    /\ Running /\ Through("flush")
    /\ hook = "ending" \/ (hook = "flushing" /\ toFlush = {})
    /\ hook' = "done"
    /\ UNCHANGED <<processVars, loop, incomplete, flushVars, attempted, changed>>

-----------------------------------------------------------------------------
ShutdownInit ==
    /\ process = "serving" /\ serving = 0 /\ callsLeft = MaxCalls /\ passed = 0
    /\ loop = "waiting" /\ hook = "off" /\ incomplete = FALSE
    /\ unsaved = {} /\ conflicted = {}
    /\ inFlight = [r \in FlushedRooms |-> "no"] /\ work = [r \in FlushedRooms |-> "idle"]
    /\ todo = {} /\ toFlush = {}
    /\ attempted = {} /\ changed = {}

RoomWork(r) ==
    \/ HandleCall(r) \/ EvaluateNext(r) \/ FlushNext(r)
    \/ BeginRoomSave(r) \/ SkipRoomSave(r) \/ EndRoomSave(r) \/ ExitInFlight(r)

ShutdownNext ==
    \/ Accept \/ Terminate \/ StartHook \/ PassDeadline \/ Exit
    \/ StartEvaluateAll \/ EndEvaluateAll \/ StopLoop
    \/ StartFlush \/ GiveUp \/ EndFlush
    \/ \E r \in FlushedRooms : RoomWork(r)

ShutdownSpec == ShutdownInit /\ [][ShutdownNext]_shutdownVars

-----------------------------------------------------------------------------
\* A flush that reports no error has left a room unsaved only in a conflict,
\* or because of a request that came after its look at the room: no pass was
\* still at a room it skipped, and no save of its own failed unreported.
CleanFlushMeansSaved ==
    hook = "done" /\ ~incomplete => unsaved \subseteq conflicted \cup changed

\* A room that was not flushed when the process ended, although no deadline
\* had passed, was not one the flush had to try: docs/ARCHITECTURE.md
\* promises every dirty room one last attempt.
DirtyRoomsFlushed ==
    process = "exited" /\ passed = 0 => unsaved \subseteq attempted \cup conflicted \cup changed

=============================================================================
