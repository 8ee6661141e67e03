----------------------------- MODULE ConflictNews -----------------------------
(***************************************************************************)
(* How a page learns that its board is in conflict or that its saves have  *)
(* stalled: the reports of the room (notifyState and ResolveConflict of    *)
(* internal/room/manager.go, enterConflict and evaluateRoom), their push   *)
(* to the sockets of the room (app.go, BroadcastToRoom), the page's poll   *)
(* while its socket is down (useConflictPolling of App.tsx), and the       *)
(* banner's two requests (ConflictBanner.tsx). One page, its own request,  *)
(* a request of another page and the room's background pass.               *)
(***************************************************************************)
EXTENDS Naturals, Sequences

CONSTANTS MaxNews,   \* conflicts entered, stalls begun or ended
          MaxCuts,   \* broken connections, failed requests
          MaxWire    \* events on their way to the page

VARIABLES
    news,          \* [inConflict, saveStalled] of the room
    lastReported,  \* lastReportedConflict and lastReportedSaveStalled
    calls          \* of each caller of notifyState, what it still has to do

roomVars == <<news, lastReported, calls>>

VARIABLES
    line,     \* the socket of the page: down, up, joined, or broken unnoticed
    wire,     \* the relay's events for the page, in order
    known,    \* the news the page shows
    poll,     \* the poll under way: no, half read, or what was read
    request,  \* the banner's request: no, overwrite, reload, or answered
    going     \* `reloading`

viewVars == <<line, wire, known, poll, request, going>>

VARIABLES newsLeft, cutsLeft
VARIABLE passedBy  \* history, which no guard reads: the page may have missed news

newsVars == <<roomVars, viewVars, newsLeft, cutsLeft, passedBy>>

-----------------------------------------------------------------------------
News == [inConflict : BOOLEAN, saveStalled : BOOLEAN]
NoNews == [inConflict |-> FALSE, saveStalled |-> FALSE]

Callers == {"pass", "mine", "theirs"}
Idle == [step |-> "idle"]
Call(recall, seen) == [step |-> "notify", recall |-> recall, seen |-> seen]

Cut == cutsLeft > 0 /\ cutsLeft' = cutsLeft - 1

\* BroadcastToRoom: an event reaches the page if its socket is in the room.
Emit(event) ==
    IF line = "joined"
    THEN Len(wire) < MaxWire /\ wire' = Append(wire, event) /\ UNCHANGED passedBy
    ELSE passedBy' = TRUE /\ UNCHANGED wire

-----------------------------------------------------------------------------
(***************************************************************************)
(* The room.                                                               *)
(***************************************************************************)
\* enterConflict: the state under mu, the report after it.
EnterConflict ==
    /\ calls["pass"] = Idle /\ ~news.inConflict
    /\ newsLeft > 0 /\ newsLeft' = newsLeft - 1
    /\ news' = [news EXCEPT !.inConflict = TRUE]
    /\ calls' = [calls EXCEPT !["pass"] = Call(FALSE, news')]
    /\ UNCHANGED <<lastReported, viewVars, cutsLeft, passedBy>>

\* saveStalledLocked: saves fail for the window, or succeed again.
StallOrRecover ==
    /\ newsLeft > 0 /\ newsLeft' = newsLeft - 1
    /\ news' = [news EXCEPT !.saveStalled = ~@]
    /\ UNCHANGED <<lastReported, calls, viewVars, cutsLeft, passedBy>>

\* evaluateRoom ends with a report.
EndPass ==
    /\ calls["pass"] = Idle /\ news # lastReported
    /\ calls' = [calls EXCEPT !["pass"] = Call(FALSE, news)]
    /\ UNCHANGED <<news, lastReported, viewVars, newsLeft, cutsLeft, passedBy>>

\* ResolveConflict up to its report; to drop the scene ends a stall too.
Resolving(caller, overwrite) ==
    IF ~news.inConflict THEN UNCHANGED <<news, calls>>
    ELSE /\ news' = IF overwrite THEN [news EXCEPT !.inConflict = FALSE] ELSE NoNews
         /\ calls' = [calls EXCEPT ![caller] = Call(~overwrite, news')]

OthersResolving ==
    /\ calls["theirs"] = Idle /\ news.inConflict
    /\ \E overwrite \in BOOLEAN : Resolving("theirs", overwrite)
    /\ UNCHANGED <<lastReported, viewVars, newsLeft, cutsLeft, passedBy>>

\* Mutant: the state is the one its caller has seen.
SeenByCaller(caller) == calls[caller].seen
\* notifyState computes the state under notifyMu, when its turn comes.
Computed(caller) == news

\* Mutant: a stall by itself is not a change.
ConflictChanged(state) == state.inConflict # lastReported.inConflict
\* Only a change is pushed.
Changed(state) == state # lastReported

\* notifyState: compute and push are one critical section of notifyMu.
NotifyState(caller) ==
    /\ calls[caller].step = "notify"
    /\ lastReported' = Computed(caller)
    /\ IF Changed(Computed(caller)) THEN Emit(<<"conflict-state", Computed(caller)>>)
       ELSE UNCHANGED <<wire, passedBy>>
    /\ calls' = [calls EXCEPT ![caller] = IF @.recall THEN [step |-> "recall"] ELSE Idle]
    /\ UNCHANGED <<news, line, known, poll, request, going, newsLeft, cutsLeft>>

\* The reload hook of ResolveConflict, outside of notifyMu.
RequireReload(caller) ==
    /\ calls[caller].step = "recall"
    /\ Emit(<<"reload-required">>)
    /\ calls' = [calls EXCEPT ![caller] = Idle]
    /\ UNCHANGED <<news, lastReported, line, known, poll, request, going, newsLeft, cutsLeft>>

-----------------------------------------------------------------------------
(***************************************************************************)
(* The page's socket.                                                      *)
(***************************************************************************)
\* status turns online: the effect's cleanup cancels the poll.
GoOnline ==
    /\ line = "down"
    /\ line' = "up"
    /\ poll' = <<>>
    /\ passedBy' = (passedBy \/ poll # <<>>)
    /\ UNCHANGED <<roomVars, wire, known, request, going, newsLeft, cutsLeft>>

JoinRoom ==
    /\ line = "up" /\ line' = "joined"
    /\ UNCHANGED <<roomVars, wire, known, poll, request, going, newsLeft, cutsLeft, passedBy>>

\* The relay notices first.
LoseLine ==
    /\ line \in {"up", "joined"} /\ Cut
    /\ line' = "broken"
    /\ UNCHANGED <<roomVars, wire, known, poll, request, going, newsLeft, passedBy>>

\* disconnect: what was on the wire is lost.
NoticeLoss ==
    /\ line = "broken" /\ line' = "down"
    /\ wire' = <<>>
    /\ passedBy' = (passedBy \/ wire # <<>>)
    /\ UNCHANGED <<roomVars, known, poll, request, going, newsLeft, cutsLeft>>

\* conflict-state and reload-required, in order.
Hear1 ==
    /\ wire # <<>> /\ wire' = Tail(wire)
    /\ IF Head(wire)[1] = "conflict-state"
       THEN known' = Head(wire)[2] /\ UNCHANGED going
       ELSE going' = TRUE /\ UNCHANGED known
    /\ UNCHANGED <<roomVars, line, poll, request, newsLeft, cutsLeft, passedBy>>

-----------------------------------------------------------------------------
(***************************************************************************)
(* The page's poll and its banner.                                         *)
(***************************************************************************)
\* handleGetConflict reads the two flags one after the other.
AskConflict ==
    /\ line = "down" /\ poll = <<>>
    /\ poll' = <<news.inConflict>>
    /\ passedBy' = (news.inConflict # lastReported.inConflict)
    /\ UNCHANGED <<roomVars, line, wire, known, request, going, newsLeft, cutsLeft>>
AskStalled ==
    /\ Len(poll) = 1
    /\ poll' = Append(poll, news.saveStalled)
    /\ passedBy' = (passedBy \/ news.saveStalled # lastReported.saveStalled)
    /\ UNCHANGED <<roomVars, line, wire, known, request, going, newsLeft, cutsLeft>>

\* The answer of the poll, unless the socket has come online meanwhile.
Answered ==
    /\ Len(poll) = 2 /\ poll' = <<>>
    /\ known' = [inConflict |-> poll[1], saveStalled |-> poll[2]]
    /\ UNCHANGED <<roomVars, line, wire, request, going, newsLeft, cutsLeft, passedBy>>

\* handleReload and handleOverwrite.
Click ==
    /\ known.inConflict /\ request = "no" /\ ~going
    /\ \/ request' = "overwrite" /\ UNCHANGED going
       \/ request' = "reload" /\ going' = TRUE
    /\ UNCHANGED <<roomVars, line, wire, known, poll, newsLeft, cutsLeft, passedBy>>

\* The request is served, or it fails.
ServeRequest ==
    /\ request \in {"overwrite", "reload"}
    /\ \/ /\ calls["mine"] = Idle
          /\ Resolving("mine", request = "overwrite")
          /\ request' = IF request = "overwrite" THEN "overwritten" ELSE "done"
          /\ UNCHANGED cutsLeft
       \/ /\ Cut
          /\ request' = IF request = "overwrite" THEN "no" ELSE "done"
          /\ UNCHANGED <<news, calls>>
    /\ UNCHANGED <<lastReported, line, wire, known, poll, going, newsLeft, passedBy>>

\* The answer of an overwrite clears the banner, even if a conflict has been
\* entered anew and been pushed before it.
Overwritten ==
    /\ request = "overwritten" /\ calls["mine"] = Idle
    /\ request' = "no"
    /\ known' = [known EXCEPT !.inConflict = FALSE]
    /\ passedBy' = (passedBy \/ lastReported.inConflict)
    /\ UNCHANGED <<roomVars, line, wire, poll, going, newsLeft, cutsLeft>>

\* The page reloads: a new page, which has heard nothing.
ReloadPage ==
    /\ going /\ request \in {"no", "done"} /\ calls["mine"] = Idle
    /\ line' = "down" /\ wire' = <<>> /\ known' = NoNews /\ poll' = <<>>
    /\ request' = "no" /\ going' = FALSE
    /\ passedBy' = TRUE
    /\ UNCHANGED <<roomVars, newsLeft, cutsLeft>>

-----------------------------------------------------------------------------
NewsInit ==
    /\ news = NoNews /\ lastReported = NoNews /\ calls = [c \in Callers |-> Idle]
    /\ line = "down" /\ wire = <<>> /\ known = NoNews /\ poll = <<>>
    /\ request = "no" /\ going = FALSE
    /\ newsLeft = MaxNews /\ cutsLeft = MaxCuts
    /\ passedBy = FALSE

RoomStep ==
    \/ EnterConflict \/ StallOrRecover \/ EndPass \/ OthersResolving
    \/ \E c \in Callers : NotifyState(c) \/ RequireReload(c)
LineStep == GoOnline \/ JoinRoom \/ LoseLine \/ NoticeLoss \/ Hear1
ViewStep ==
    \/ AskConflict \/ AskStalled \/ Answered
    \/ Click \/ ServeRequest \/ Overwritten \/ ReloadPage

NewsNext == RoomStep \/ LineStep \/ ViewStep

NewsSpec == NewsInit /\ [][NewsNext]_newsVars

-----------------------------------------------------------------------------
\* Once every caller that changed the conflict has made its report, the last
\* report agrees with the room, in whatever order they took notifyMu.
LastReportIsTrue ==
    (\A c \in Callers : calls[c] = Idle) => lastReported.inConflict = news.inConflict

\* A page that shows other than what was last reported has the news on its
\* way or is polling, or the news passed it by: pushed while it was out of the
\* room, or lost with its socket, and not polled since; polled, but the answer
\* was dropped when the socket came up, or the report that was to push it
\* found nothing changed; cleared by the answer of an overwrite that came
\* after it; or the page was reloaded and has not polled yet.
StaleOnlyIfPassedBy ==
    known # lastReported =>
        \/ passedBy \/ poll # <<>>
        \/ \E i \in DOMAIN wire : wire[i][1] = "conflict-state"

=============================================================================
