---------------------------- MODULE ManagerProofs ----------------------------
(***************************************************************************)
(* Theorems about the two edges of the Manager. ConflictNews, for any      *)
(* number of conflicts and of broken connections: what the room reported   *)
(* last is true, and a page that shows something else has a reason to.     *)
(* Shutdown, for any number of rooms: what a flush without an error has    *)
(* left behind.                                                            *)
(***************************************************************************)
EXTENDS ConflictNews, Shutdown, SequenceTheorems, TLAPS

-----------------------------------------------------------------------------
(***************************************************************************)
(* A caller that has changed the conflict owes a report until it has made  *)
(* it. Every change of the conflict leaves such a caller, and a report is  *)
(* true when it is made; so while nobody owes one the last one is true.    *)
(***************************************************************************)
Owes(c) == calls[c].step = "notify"
ReportInv ==
    /\ calls = [c \in Callers |-> calls[c]]
    /\ (\A c \in Callers : ~Owes(c)) => lastReported.inConflict = news.inConflict
    /\ news = [inConflict |-> news.inConflict, saveStalled |-> news.saveStalled]

LEMMA ReportAtFirst == NewsInit => ReportInv
BY DEF NewsInit, ReportInv, NoNews

\* A caller that comes to owe a report keeps the invariant, whatever it changed.
LEMMA OwingKeeps ==
    ASSUME ReportInv, NEW c \in Callers, NEW recall, NEW seen,
           calls' = [calls EXCEPT ![c] = Call(recall, seen)],
           news' = [inConflict |-> news'.inConflict, saveStalled |-> news'.saveStalled]
    PROVE  ReportInv'
<1>1. calls' = [d \in Callers |-> calls'[d]] BY DEF ReportInv
<1>2. Owes(c)' BY DEF ReportInv, Owes, Call
<1> QED BY <1>1, <1>2 DEF ReportInv

\* Nothing the room has reported, or has to, changes.
LEMMA RoomUnchanged ==
    ASSUME ReportInv, UNCHANGED roomVars
    PROVE  ReportInv'
BY DEF ReportInv, Owes, roomVars

\* ResolveConflict owes a report if it has resolved a conflict.
LEMMA ResolvingKeeps ==
    ASSUME ReportInv, NEW c \in Callers, NEW overwrite \in BOOLEAN,
           Resolving(c, overwrite), UNCHANGED lastReported
    PROVE  ReportInv'
<1>1. CASE ~news.inConflict
  BY <1>1, RoomUnchanged DEF Resolving, roomVars
<1>2. CASE news.inConflict
  <2>1. news' = [inConflict |-> news'.inConflict, saveStalled |-> news'.saveStalled]
    <3>1. CASE overwrite
      <4>1. news' = [news EXCEPT !.inConflict = FALSE] BY <1>2, <3>1 DEF Resolving
      <4> QED BY <4>1 DEF ReportInv
    <3>2. CASE ~overwrite BY <1>2, <3>2 DEF Resolving, NoNews
    <3> QED BY <3>1, <3>2
  <2>2. calls' = [calls EXCEPT ![c] = Call(~overwrite, news')] BY <1>2 DEF Resolving
  <2> QED BY <2>1, <2>2, OwingKeeps
<1> QED BY <1>1, <1>2

\* notifyState reports what is true when it is made.
LEMMA NotifyStateKeeps ==
    ASSUME ReportInv, NEW c \in Callers, NotifyState(c)
    PROVE  ReportInv'
<1>1. lastReported' = news /\ news' = news BY DEF NotifyState, Computed
<1>2. calls' = [d \in Callers |-> calls'[d]] BY DEF NotifyState, ReportInv
<1> QED BY <1>1, <1>2 DEF ReportInv

\* The reload hook comes after the report of its caller.
LEMMA RequireReloadKeeps ==
    ASSUME ReportInv, NEW c \in Callers, RequireReload(c)
    PROVE  ReportInv'
<1>1. UNCHANGED <<news, lastReported>> /\ ~Owes(c)
      /\ calls' = [calls EXCEPT ![c] = Idle]
  BY DEF RequireReload, Owes
<1>2. calls' = [d \in Callers |-> calls'[d]] BY <1>1 DEF ReportInv
<1>3. \A d \in Callers : ~Owes(d)' => ~Owes(d) BY <1>1 DEF Owes, ReportInv, Idle
<1> QED BY <1>1, <1>2, <1>3 DEF ReportInv

\* The steps of the room.
LEMMA RoomStepKeeps == ReportInv /\ RoomStep => ReportInv'
<1> SUFFICES ASSUME ReportInv, RoomStep PROVE ReportInv' OBVIOUS
<1>1. CASE EnterConflict
  <2>1. news' = [inConflict |-> news'.inConflict, saveStalled |-> news'.saveStalled]
    BY <1>1 DEF EnterConflict, ReportInv
  <2> QED BY <1>1, <2>1, OwingKeeps DEF EnterConflict, Callers
<1>2. CASE StallOrRecover
  <2>1. news' = [news EXCEPT !.saveStalled = ~@] /\ UNCHANGED <<lastReported, calls>>
    BY <1>2 DEF StallOrRecover
  <2> QED BY <2>1 DEF ReportInv, Owes
<1>3. CASE EndPass
  <2>1. news' = [inConflict |-> news'.inConflict, saveStalled |-> news'.saveStalled]
    BY <1>3 DEF EndPass, ReportInv
  <2> QED BY <1>3, <2>1, OwingKeeps DEF EndPass, Callers
<1>4. CASE OthersResolving
  BY <1>4, ResolvingKeeps DEF OthersResolving, Callers
<1>5. CASE \E c \in Callers : NotifyState(c) \/ RequireReload(c)
  BY <1>5, NotifyStateKeeps, RequireReloadKeeps
<1> QED BY <1>1, <1>2, <1>3, <1>4, <1>5 DEF RoomStep

\* The steps of the page's socket.
LEMMA LineStepKeeps == ReportInv /\ LineStep => ReportInv'
BY RoomUnchanged DEF LineStep, GoOnline, JoinRoom, LoseLine, NoticeLoss, Hear1

\* The steps of the page's poll and of its banner.
LEMMA ViewStepKeeps == ReportInv /\ ViewStep => ReportInv'
<1> SUFFICES ASSUME ReportInv, ViewStep PROVE ReportInv' OBVIOUS
<1>1. CASE AskConflict \/ AskStalled \/ Answered \/ Click \/ Overwritten \/ ReloadPage
  BY <1>1, RoomUnchanged DEF AskConflict, AskStalled, Answered, Click, Overwritten, ReloadPage
<1>2. CASE ServeRequest
  <2>1. CASE Resolving("mine", request = "overwrite")
    <3>1. (request = "overwrite") \in BOOLEAN OBVIOUS
    <3>2. UNCHANGED lastReported BY <1>2 DEF ServeRequest
    <3> QED BY <2>1, <3>1, <3>2, ResolvingKeeps DEF Callers
  <2>2. CASE UNCHANGED <<news, calls>>
    BY <1>2, <2>2, RoomUnchanged DEF ServeRequest, roomVars
  <2> QED BY <1>2, <2>1, <2>2 DEF ServeRequest
<1> QED BY <1>1, <1>2 DEF ViewStep

\* Once every caller that changed the conflict has made its report, the last
\* report agrees with the room: the reports cannot overtake each other,
\* because each computes the state only when its turn has come.
THEOREM ReportsAreTrue == NewsSpec => []LastReportIsTrue
<1>1. ReportInv /\ [NewsNext]_newsVars => ReportInv'
  <2>1. ReportInv /\ UNCHANGED newsVars => ReportInv'
    BY RoomUnchanged DEF newsVars
  <2> QED BY <2>1, RoomStepKeeps, LineStepKeeps, ViewStepKeeps DEF NewsNext
<1>2. ReportInv => LastReportIsTrue
  BY DEF ReportInv, LastReportIsTrue, Owes, Idle
<1> QED BY <1>1, <1>2, ReportAtFirst, PTL DEF NewsSpec

-----------------------------------------------------------------------------
(***************************************************************************)
(* What the page shows. Either the last news on the wire is the last       *)
(* report, or there is none and the page shows the last report, or is      *)
(* polling, or the news has passed it by. While it polls its socket is     *)
(* down, so no event is before the answer.                                 *)
(***************************************************************************)
Events == {<<"reload-required">>} \cup {<<"conflict-state", s>> : s \in News}

NewsTypes ==
    /\ news \in News /\ lastReported \in News /\ known \in News
    /\ wire \in Seq(Events) /\ poll \in Seq(BOOLEAN)
    /\ line \in {"down", "up", "joined", "broken"}

IsNews(i) == i \in DOMAIN wire /\ wire[i][1] = "conflict-state"
LastNews(i) == IsNews(i) /\ \A j \in DOMAIN wire : j > i => ~IsNews(j)

ViewInv ==
    /\ line \in {"down", "up"} => wire = <<>>
    /\ poll # <<>> => line = "down"
    /\ Len(poll) \in 0 .. 2
    /\ ~passedBy =>
          /\ poll # <<>> => poll[1] = lastReported.inConflict
          /\ Len(poll) = 2 => poll[2] = lastReported.saveStalled
          /\ \A i \in DOMAIN wire : LastNews(i) => wire[i][2] = lastReported
          /\ poll = <<>> /\ (\A i \in DOMAIN wire : ~IsNews(i)) => known = lastReported

\* The conflict and the stall are independent of each other.
LEMMA NewsOf ==
    ASSUME NEW x \in BOOLEAN, NEW y \in BOOLEAN
    PROVE  [inConflict |-> x, saveStalled |-> y] \in News
BY DEF News

\* The two flags of a state are of their type, and are all there is to it.
LEMMA NewsFields ==
    ASSUME NEW s \in News
    PROVE  /\ s.inConflict \in BOOLEAN /\ s.saveStalled \in BOOLEAN
           /\ s = [inConflict |-> s.inConflict, saveStalled |-> s.saveStalled]
           /\ \A x : [s EXCEPT !.inConflict = x] = [inConflict |-> x, saveStalled |-> s.saveStalled]
           /\ \A x : [s EXCEPT !.saveStalled = x] = [inConflict |-> s.inConflict, saveStalled |-> x]
BY DEF News

\* Nothing is known at first, and nothing has been reported.
LEMMA ViewAtFirst == NewsInit => NewsTypes /\ ViewInv
<1>1. NoNews \in News BY DEF NoNews, News
<1> QED BY <1>1 DEF NewsInit, NewsTypes, ViewInv

\* An event takes its place behind those on the wire.
LEMMA EmitKeeps ==
    ASSUME NewsTypes, ViewInv, NEW event \in Events, Emit(event),
           UNCHANGED <<line, known, poll>>, lastReported' \in News, news' \in News,
           \/ event = <<"reload-required">> /\ lastReported' = lastReported
           \/ event = <<"conflict-state", lastReported'>>
    PROVE  NewsTypes' /\ ViewInv'
<1>1. CASE line # "joined"
  <2>1. UNCHANGED wire /\ passedBy' BY <1>1 DEF Emit
  <2> QED BY <2>1 DEF NewsTypes, ViewInv
<1>2. CASE line = "joined"
  <2>1. wire' = Append(wire, event) /\ UNCHANGED passedBy BY <1>2 DEF Emit
  <2>2. wire' \in Seq(Events) /\ wire \in Seq(Events) BY <2>1 DEF NewsTypes
  <2>3. NewsTypes' BY <2>2 DEF NewsTypes
  <2>4. /\ Len(wire') = Len(wire) + 1 /\ wire'[Len(wire) + 1] = event
        /\ \A i \in DOMAIN wire : i \in DOMAIN wire' /\ wire'[i] = wire[i]
        /\ \A i \in DOMAIN wire' : i \in DOMAIN wire \/ i = Len(wire) + 1
        /\ Len(wire) + 1 \in DOMAIN wire' /\ \A i \in DOMAIN wire : Len(wire) + 1 > i
        /\ Len(wire) \in Nat /\ Len(wire') \in DOMAIN wire'
        /\ \A i \in DOMAIN wire : Len(wire') > i
    BY <2>1, <2>2
  <2>5. poll = <<>> /\ poll' = <<>> BY <1>2 DEF ViewInv
  <2>6. CASE event = <<"reload-required">> /\ lastReported' = lastReported
    <3>1. ~IsNews(Len(wire))' BY <2>4, <2>6 DEF IsNews
    <3>2. \A i \in DOMAIN wire : IsNews(i)' <=> IsNews(i) BY <2>4 DEF IsNews
    <3>3. \A i \in DOMAIN wire : LastNews(i)' => LastNews(i)
      BY <2>4, <3>2 DEF LastNews
    <3>4. \A i \in DOMAIN wire' : LastNews(i)' => i \in DOMAIN wire
      BY <2>4, <3>1 DEF LastNews
    <3>5. (\A i \in DOMAIN wire' : ~IsNews(i)') => \A i \in DOMAIN wire : ~IsNews(i)
      BY <2>4, <3>2
    <3>6. ASSUME ~passedBy' PROVE \A i \in DOMAIN wire' : LastNews(i)' => wire'[i][2] = lastReported'
      BY <2>1, <2>4, <2>6, <3>3, <3>4, <3>6 DEF ViewInv
    <3>7. ASSUME ~passedBy', \A i \in DOMAIN wire' : ~IsNews(i)' PROVE known' = lastReported'
      BY <2>1, <2>5, <2>6, <3>5, <3>7 DEF ViewInv
    <3> QED BY <1>2, <2>3, <2>5, <3>6, <3>7 DEF ViewInv
  <2>7. CASE event = <<"conflict-state", lastReported'>>
    <3>1. event[1] = "conflict-state" /\ event[2] = lastReported' BY <2>7
    <3>2. IsNews(Len(wire))' BY <2>4, <3>1 DEF IsNews
    <3>3. \A i \in DOMAIN wire' : LastNews(i)' => i = Len(wire) + 1
      BY <2>4, <3>2 DEF LastNews
    <3> QED BY <1>2, <2>3, <2>4, <2>5, <3>1, <3>2, <3>3 DEF ViewInv
  <2> QED BY <2>6, <2>7
<1> QED BY <1>1, <1>2

\* Nothing of what the view depends on changes.
LEMMA ViewUnchanged ==
    ASSUME NewsTypes, ViewInv, news' \in News,
           UNCHANGED <<lastReported, line, wire, known, poll, passedBy>>
    PROVE  NewsTypes' /\ ViewInv'
BY DEF NewsTypes, ViewInv, IsNews, LastNews

\* What ResolveConflict leaves is news.
LEMMA ResolvingNews ==
    ASSUME NewsTypes, NEW caller, NEW overwrite \in BOOLEAN, Resolving(caller, overwrite)
    PROVE  news' \in News
<1>1. NoNews \in News BY DEF NoNews, News
<1>2. [news EXCEPT !.inConflict = FALSE] \in News BY DEF NewsTypes, News
<1> QED BY <1>1, <1>2 DEF Resolving, NewsTypes

\* The room's own steps.
LEMMA RoomStepViews ==
    ASSUME NewsTypes, ViewInv, RoomStep
    PROVE  NewsTypes' /\ ViewInv'
<1>1. CASE EnterConflict \/ StallOrRecover \/ EndPass
  <2>1. news' \in News
    <3>1. [news EXCEPT !.inConflict = TRUE] \in News BY DEF NewsTypes, News
    <3>2. [news EXCEPT !.saveStalled = ~@] \in News
      <4>1. (~news.saveStalled) \in BOOLEAN OBVIOUS
      <4>2. [news EXCEPT !.saveStalled = ~news.saveStalled]
              = [inConflict |-> news.inConflict, saveStalled |-> ~news.saveStalled]
        BY NewsFields DEF NewsTypes
      <4>3. news.inConflict \in BOOLEAN BY NewsFields DEF NewsTypes
      <4> QED BY <4>1, <4>2, <4>3, NewsOf
    <3> QED BY <1>1, <3>1, <3>2 DEF EnterConflict, StallOrRecover, EndPass, NewsTypes
  <2>2. UNCHANGED <<lastReported, line, wire, known, poll, passedBy>>
    BY <1>1 DEF EnterConflict, StallOrRecover, EndPass, viewVars
  <2> QED BY <2>1, <2>2, ViewUnchanged
<1>2. CASE OthersResolving
  <2>1. UNCHANGED <<lastReported, line, wire, known, poll, passedBy>>
    BY <1>2 DEF OthersResolving, viewVars
  <2>2. news' \in News BY <1>2, ResolvingNews DEF OthersResolving
  <2> QED BY <2>1, <2>2, ViewUnchanged
<1>3. ASSUME NEW c \in Callers, NotifyState(c) PROVE NewsTypes' /\ ViewInv'
  <2>1. /\ lastReported' = news /\ UNCHANGED <<news, line, known, poll>>
    BY <1>3 DEF NotifyState, Computed
  <2>2. CASE news = lastReported
    <3>1. UNCHANGED <<wire, passedBy>> BY <1>3, <2>2 DEF NotifyState, Computed, Changed
    <3> QED BY <2>1, <2>2, <3>1, ViewUnchanged DEF NewsTypes
  <2>3. CASE news # lastReported
    <3>1. Emit(<<"conflict-state", news>>) BY <1>3, <2>3 DEF NotifyState, Computed, Changed
    <3>2. <<"conflict-state", news>> \in Events BY DEF Events, NewsTypes
    <3> QED BY <2>1, <3>1, <3>2, EmitKeeps DEF NewsTypes
  <2> QED BY <2>2, <2>3
<1>4. ASSUME NEW c \in Callers, RequireReload(c) PROVE NewsTypes' /\ ViewInv'
  <2>1. /\ Emit(<<"reload-required">>) /\ UNCHANGED <<news, lastReported, line, known, poll>>
        /\ <<"reload-required">> \in Events
    BY <1>4 DEF RequireReload, Events
  <2> QED BY <2>1, EmitKeeps DEF NewsTypes
<1> QED BY <1>1, <1>2, <1>3, <1>4 DEF RoomStep

\* conflict-state and reload-required are taken off the wire.
LEMMA HearViews ==
    ASSUME NewsTypes, ViewInv, Hear1
    PROVE  NewsTypes' /\ ViewInv'
<1>1. /\ wire # <<>> /\ wire' = Tail(wire) /\ UNCHANGED <<news, lastReported, line, poll, passedBy>>
      /\ known' = IF Head(wire)[1] = "conflict-state" THEN Head(wire)[2] ELSE known
  BY DEF Hear1, roomVars
<1>2. /\ wire \in Seq(Events) /\ wire' \in Seq(Events) /\ Len(wire) \in Nat \ {0}
      /\ Len(wire') = Len(wire) - 1 /\ 1 \in DOMAIN wire /\ Head(wire) = wire[1] /\ wire[1] \in Events
      /\ \A i \in DOMAIN wire' : i + 1 \in DOMAIN wire /\ wire'[i] = wire[i + 1] /\ i + 1 > 1
      /\ \A i \in DOMAIN wire : i # 1 => i - 1 \in DOMAIN wire' /\ wire'[i - 1] = wire[i]
      /\ DOMAIN wire = 1 .. Len(wire) /\ DOMAIN wire' = 1 .. Len(wire')
  BY <1>1 DEF NewsTypes
<1>3. poll = <<>> /\ line \notin {"down", "up"} BY <1>1 DEF ViewInv, NewsTypes
<1>4. known' \in News
  <2>1. CASE Head(wire)[1] = "conflict-state"
    <3>1. PICK s \in News : Head(wire) = <<"conflict-state", s>> BY <1>2, <2>1 DEF Events
    <3> QED BY <1>1, <2>1, <3>1
  <2> QED BY <1>1, <2>1 DEF NewsTypes
<1>5. NewsTypes' BY <1>1, <1>2, <1>4 DEF NewsTypes
<1>6. \A i \in DOMAIN wire' : IsNews(i)' <=> IsNews(i + 1) BY <1>2 DEF IsNews
<1>7. \A i \in DOMAIN wire' : LastNews(i)' => LastNews(i + 1)
  <2> SUFFICES ASSUME NEW i \in DOMAIN wire', LastNews(i)' PROVE LastNews(i + 1) OBVIOUS
  <2>1. IsNews(i + 1) BY <1>6 DEF LastNews
  <2>2. ASSUME NEW j \in DOMAIN wire, j > i + 1 PROVE ~IsNews(j)
    <3>1. j - 1 \in DOMAIN wire' /\ j - 1 > i /\ (j - 1) + 1 = j BY <1>2, <2>2
    <3>2. ~IsNews(j - 1)' BY <3>1 DEF LastNews
    <3> QED BY <1>6, <3>1, <3>2
  <2> QED BY <2>1, <2>2 DEF LastNews
<1>8. (\A i \in DOMAIN wire' : ~IsNews(i)') => \A i \in DOMAIN wire : i # 1 => ~IsNews(i)
  <2> SUFFICES ASSUME \A i \in DOMAIN wire' : ~IsNews(i)', NEW i \in DOMAIN wire, i # 1
               PROVE  ~IsNews(i)
    OBVIOUS
  <2>1. i - 1 \in DOMAIN wire' /\ (i - 1) + 1 = i BY <1>2
  <2> QED BY <1>6, <2>1
<1>9. ASSUME ~passedBy' PROVE \A i \in DOMAIN wire' : LastNews(i)' => wire'[i][2] = lastReported'
  BY <1>1, <1>2, <1>7, <1>9 DEF ViewInv
<1>10. ASSUME ~passedBy', \A i \in DOMAIN wire' : ~IsNews(i)' PROVE known' = lastReported'
  <2>1. \A i \in DOMAIN wire : i # 1 => ~IsNews(i) BY <1>8, <1>10
  <2>2. CASE IsNews(1)
    <3>1. LastNews(1) BY <1>2, <2>1, <2>2 DEF LastNews
    <3>2. wire[1][2] = lastReported BY <1>1, <1>2, <1>10, <3>1 DEF ViewInv
    <3> QED BY <1>1, <1>2, <2>2, <3>2 DEF IsNews
  <2>3. CASE ~IsNews(1)
    <3>1. known = lastReported BY <1>1, <1>3, <1>10, <2>1, <2>3 DEF ViewInv
    <3> QED BY <1>1, <1>2, <2>3, <3>1 DEF IsNews
  <2> QED BY <2>2, <2>3
<1> QED BY <1>1, <1>3, <1>5, <1>9, <1>10 DEF ViewInv

\* The socket comes and goes; what is lost with it has passed the page by.
LEMMA LineStepViews ==
    ASSUME NewsTypes, ViewInv, LineStep
    PROVE  NewsTypes' /\ ViewInv'
<1>1. CASE GoOnline
  <2>1. /\ line = "down" /\ line' = "up" /\ poll' = <<>>
        /\ passedBy' = (passedBy \/ poll # <<>>)
        /\ UNCHANGED <<news, lastReported, wire, known>>
    BY <1>1 DEF GoOnline, roomVars
  <2>2. wire = <<>> BY <2>1 DEF ViewInv
  <2>3. ~passedBy' => ~passedBy /\ poll = <<>> BY <2>1
  <2>4. NewsTypes' BY <2>1 DEF NewsTypes
  <2> QED BY <2>1, <2>2, <2>3, <2>4 DEF ViewInv, IsNews
<1>2. CASE JoinRoom \/ LoseLine
  <2>1. /\ line \in {"up", "joined"} /\ line' \in {"joined", "broken"}
        /\ UNCHANGED <<news, lastReported, wire, known, poll, passedBy>>
    BY <1>2 DEF JoinRoom, LoseLine, roomVars
  <2>2. poll = <<>> BY <2>1 DEF ViewInv
  <2> QED BY <2>1, <2>2 DEF NewsTypes, ViewInv, IsNews, LastNews
<1>3. CASE NoticeLoss
  <2>1. /\ line = "broken" /\ line' = "down" /\ wire' = <<>>
        /\ passedBy' = (passedBy \/ wire # <<>>)
        /\ UNCHANGED <<news, lastReported, known, poll>>
    BY <1>3 DEF NoticeLoss, roomVars
  <2>2. poll = <<>> BY <2>1 DEF ViewInv
  <2>3. ~passedBy' => ~passedBy /\ wire = <<>> BY <2>1
  <2>4. NewsTypes' BY <2>1 DEF NewsTypes
  <2> QED BY <2>1, <2>2, <2>3, <2>4 DEF ViewInv, IsNews
<1> QED BY <1>1, <1>2, <1>3, HearViews DEF LineStep

\* What the poll has read, first one flag and then both.
LEMMA SecondAnswer ==
    ASSUME NEW T, NEW s \in Seq(T), NEW x \in T, Len(s) = 1
    PROVE  /\ Append(s, x) \in Seq(T) /\ Len(Append(s, x)) = 2
           /\ Append(s, x)[1] = s[1] /\ Append(s, x)[2] = x
           /\ s # <<>> /\ Append(s, x) # <<>>
<1>1. Append(s, x) \in Seq(T) /\ Len(Append(s, x)) = Len(s) + 1 BY AppendProperties
<1>2. Append(s, x)[Len(s) + 1] = x BY AppendProperties
<1>3. 1 \in 1 .. Len(s) OBVIOUS
<1>4. Append(s, x)[1] = s[1] BY <1>3, AppendProperties
<1>5. s # <<>> /\ Append(s, x) # <<>> BY <1>1, EmptySeq
<1> QED BY <1>1, <1>2, <1>4, <1>5

\* Both flags the poll has read are of their type.
LEMMA BothAnswers ==
    ASSUME NEW T, NEW s \in Seq(T), Len(s) = 2
    PROVE  s[1] \in T /\ s[2] \in T /\ s # <<>>
<1>1. 1 \in 1 .. Len(s) /\ 2 \in 1 .. Len(s) OBVIOUS
<1>2. s[1] \in T /\ s[2] \in T BY <1>1, ElementOfSeq
<1>3. s # <<>> BY EmptySeq
<1> QED BY <1>2, <1>3

\* The poll looks at what the last report should have been; the banner's
\* requests go through the room.
LEMMA ViewStepViews ==
    ASSUME NewsTypes, ViewInv, ViewStep
    PROVE  NewsTypes' /\ ViewInv'
<1>1. CASE AskConflict
  <2>1. /\ line = "down" /\ poll' = <<news.inConflict>>
        /\ passedBy' = (news.inConflict # lastReported.inConflict)
        /\ UNCHANGED <<news, lastReported, line, wire, known>>
    BY <1>1 DEF AskConflict, roomVars
  <2>2. wire = <<>> BY <2>1 DEF ViewInv
  <2>3. news.inConflict \in BOOLEAN BY NewsFields DEF NewsTypes
  <2>4. poll' \in Seq(BOOLEAN) /\ Len(poll') = 1 /\ poll'[1] = news.inConflict /\ poll' # <<>>
    BY <2>1, <2>3
  <2>5. ~passedBy' => news.inConflict = lastReported.inConflict BY <2>1
  <2>6. NewsTypes' BY <2>1, <2>4 DEF NewsTypes
  <2> QED BY <2>1, <2>2, <2>4, <2>5, <2>6 DEF ViewInv, IsNews, LastNews
<1>2. CASE AskStalled
  <2>1. /\ Len(poll) = 1 /\ poll' = Append(poll, news.saveStalled)
        /\ passedBy' = (passedBy \/ news.saveStalled # lastReported.saveStalled)
        /\ UNCHANGED <<news, lastReported, line, wire, known>>
    BY <1>2 DEF AskStalled, roomVars
  <2>2. news.saveStalled \in BOOLEAN BY NewsFields DEF NewsTypes
  <2>3. /\ poll' \in Seq(BOOLEAN) /\ Len(poll') = 2 /\ poll'[1] = poll[1] /\ poll'[2] = news.saveStalled
        /\ poll # <<>> /\ poll' # <<>>
    BY <2>1, <2>2, SecondAnswer DEF NewsTypes
  <2>4. ~passedBy' => ~passedBy /\ news.saveStalled = lastReported.saveStalled BY <2>1
  <2>5. line = "down" /\ wire = <<>> BY <2>3 DEF ViewInv
  <2>6. NewsTypes' BY <2>1, <2>3 DEF NewsTypes
  <2> QED BY <2>1, <2>3, <2>4, <2>5, <2>6 DEF ViewInv, IsNews, LastNews
<1>3. CASE Answered
  <2>1. /\ Len(poll) = 2 /\ poll' = <<>>
        /\ known' = [inConflict |-> poll[1], saveStalled |-> poll[2]]
        /\ UNCHANGED <<news, lastReported, line, wire, passedBy>>
    BY <1>3 DEF Answered, roomVars
  <2>2. poll[1] \in BOOLEAN /\ poll[2] \in BOOLEAN /\ poll # <<>>
    BY <2>1, BothAnswers DEF NewsTypes
  <2>3. line = "down" /\ wire = <<>> BY <2>2 DEF ViewInv
  <2>4. known' \in News BY <2>1, <2>2, NewsOf
  <2>5. ~passedBy => known' = lastReported BY <2>1, <2>2, NewsFields DEF ViewInv, NewsTypes
  <2>6. NewsTypes' BY <2>1, <2>4 DEF NewsTypes
  <2> QED BY <2>1, <2>3, <2>5, <2>6 DEF ViewInv, IsNews, LastNews
<1>4. CASE Click
  <2>1. UNCHANGED <<news, lastReported, line, wire, known, poll, passedBy>>
    BY <1>4 DEF Click, roomVars
  <2> QED BY <2>1, ViewUnchanged DEF NewsTypes
<1>5. CASE ServeRequest
  <2>1. UNCHANGED <<lastReported, line, wire, known, poll, passedBy>> BY <1>5 DEF ServeRequest
  <2>2. (request = "overwrite") \in BOOLEAN OBVIOUS
  <2>3. Resolving("mine", request = "overwrite") \/ UNCHANGED news BY <1>5 DEF ServeRequest
  <2>4. news' \in News BY <2>2, <2>3, ResolvingNews DEF NewsTypes
  <2> QED BY <2>1, <2>4, ViewUnchanged
<1>6. CASE Overwritten
  <2>1. /\ known' = [known EXCEPT !.inConflict = FALSE]
        /\ passedBy' = (passedBy \/ lastReported.inConflict)
        /\ UNCHANGED <<news, lastReported, line, wire, poll>>
    BY <1>6 DEF Overwritten, roomVars
  <2>2. known' \in News BY <2>1 DEF NewsTypes, News
  <2>3. ~passedBy' => ~passedBy /\ lastReported.inConflict = FALSE
    <3>1. lastReported.inConflict \in BOOLEAN BY NewsFields DEF NewsTypes
    <3> QED BY <2>1, <3>1
  <2>4. known = lastReported /\ lastReported.inConflict = FALSE => known' = known
    BY <2>1, NewsFields DEF NewsTypes
  <2>5. NewsTypes' BY <2>1, <2>2 DEF NewsTypes
  <2> QED BY <2>1, <2>3, <2>4, <2>5 DEF ViewInv, IsNews, LastNews
<1>7. CASE ReloadPage
  <2>1. /\ line' = "down" /\ wire' = <<>> /\ known' = NoNews /\ poll' = <<>> /\ passedBy'
        /\ UNCHANGED <<news, lastReported>>
    BY <1>7 DEF ReloadPage, roomVars
  <2>2. NoNews \in News BY DEF NoNews, News
  <2> QED BY <2>1, <2>2 DEF NewsTypes, ViewInv
<1> QED BY <1>1, <1>2, <1>3, <1>4, <1>5, <1>6, <1>7 DEF ViewStep

\* A page that shows other than what was last reported has the news on its way
\* or polls, or there is a reason for it: the push found it out of the room, the
\* poll saw what was never reported, or an overwrite's answer cleared it.
THEOREM StaleForAReason == NewsSpec => []StaleOnlyIfPassedBy
<1>1. NewsTypes /\ ViewInv /\ [NewsNext]_newsVars => NewsTypes' /\ ViewInv'
  <2>1. NewsTypes /\ ViewInv /\ UNCHANGED newsVars => NewsTypes' /\ ViewInv'
    BY ViewUnchanged DEF newsVars, roomVars, viewVars, NewsTypes
  <2> QED BY <2>1, RoomStepViews, LineStepViews, ViewStepViews DEF NewsNext
<1>2. ViewInv => StaleOnlyIfPassedBy
  BY DEF ViewInv, StaleOnlyIfPassedBy, IsNews
<1> QED BY <1>1, <1>2, ViewAtFirst, PTL DEF NewsSpec

-----------------------------------------------------------------------------
(***************************************************************************)
(* The flush. It starts when the loop has ended, and with it every pass,   *)
(* unless a deadline has passed; so a room it finds claimed is claimed by  *)
(* itself, and it looks at what it has claimed again before it lets go.    *)
(***************************************************************************)
Claims == [FlushedRooms -> {"no", "pass", "flush"}]

Flushing == hook \in {"flushing", "ending", "done"}

\* The flush starts in time only when the loop has ended, and with it every
\* pass; a room it has let go of is saved, in conflict, or was changed since.
FlushInv ==
    /\ inFlight \in Claims /\ passed \in 0 .. 2 /\ incomplete \in BOOLEAN
    /\ loop \in {"waiting", "passing", "done"}
    /\ loop # "passing" => Through("pass")
    /\ Flushing /\ passed = 0 => loop = "done"
    /\ hook = "ending" => incomplete
    /\ hook = "done" /\ ~incomplete => toFlush = {} /\ Through("flush")
    /\ ~incomplete => \A r \in FlushedRooms : LookedAt(r) /\ r \in unsaved => r \in conflicted \cup changed
    /\ unsaved \subseteq FlushedRooms

\* Nothing is claimed and nothing is unsaved at first.
LEMMA FlushInit == ShutdownInit => FlushInv
<1> SUFFICES ASSUME ShutdownInit PROVE FlushInv OBVIOUS
<1>1. inFlight \in Claims /\ Through("pass") BY DEF ShutdownInit, Claims, Through
<1>2. ~Flushing /\ unsaved = {} /\ loop = "waiting" /\ hook = "off" /\ passed \in 0 .. 2
  BY DEF ShutdownInit, Flushing
<1>4. incomplete \in BOOLEAN BY DEF ShutdownInit
<1>3. \A r \in FlushedRooms : ~(LookedAt(r) /\ r \in unsaved) BY <1>2
<1> QED BY <1>1, <1>2, <1>3, <1>4 DEF FlushInv

\* Steps of main, of its deadlines and of the loop that claim nothing.
LEMMA ProcessFlush ==
    ASSUME FlushInv,
           \/ Accept \/ Terminate \/ StartHook \/ PassDeadline \/ Exit
           \/ StartEvaluateAll \/ EndEvaluateAll \/ StopLoop
    PROVE  FlushInv'
<1>1. UNCHANGED <<inFlight, incomplete, unsaved, conflicted, changed, toFlush>>
  BY DEF Accept, Terminate, StartHook, PassDeadline, Exit, StartEvaluateAll, EndEvaluateAll,
         StopLoop, loopVars, flushVars
<1>2. hook' = hook \/ (~Flushing /\ hook' = "waiting")
  BY DEF Accept, Terminate, StartHook, PassDeadline, Exit, StartEvaluateAll, EndEvaluateAll,
         StopLoop, loopVars, Flushing
<1>3. passed' \in 0 .. 2 /\ (passed' = 0 => passed = 0)
  BY DEF Accept, Terminate, StartHook, PassDeadline, Exit, StartEvaluateAll, EndEvaluateAll,
         StopLoop, processVars, FlushInv
<1>4. loop' \in {"waiting", "passing", "done"} /\ (loop = "done" => loop' = "done")
  BY DEF Accept, Terminate, StartHook, PassDeadline, Exit, StartEvaluateAll, EndEvaluateAll,
         StopLoop, loopVars, FlushInv
<1>5. loop' # "passing" => Through("pass")
  BY DEF Accept, Terminate, StartHook, PassDeadline, Exit, StartEvaluateAll, EndEvaluateAll,
         StopLoop, loopVars, FlushInv
<1> QED BY <1>1, <1>2, <1>3, <1>4, <1>5 DEF FlushInv, Flushing, Through, LookedAt

\* A request stores or resolves: a room the flush has let go of is changed.
LEMMA CallFlush ==
    ASSUME FlushInv, NEW r \in FlushedRooms, HandleCall(r)
    PROVE  FlushInv'
<1>1. /\ unsaved' = unsaved \cup {r}
      /\ conflicted' = conflicted \/ conflicted' = conflicted \ {r}
      /\ changed' = IF LookedAt(r) THEN changed \cup {r} ELSE changed
      /\ UNCHANGED <<inFlight, incomplete, toFlush, hook, loop, passed>>
  BY DEF HandleCall, loopVars
<1> QED BY <1>1 DEF FlushInv, Flushing, Through, LookedAt

\* A pass claims a room, if nobody has, while the loop makes its passes.
LEMMA EvaluateFlush ==
    ASSUME FlushInv, NEW r \in FlushedRooms, EvaluateNext(r)
    PROVE  FlushInv'
<1>1. /\ loop = "passing"
      /\ UNCHANGED <<incomplete, toFlush, hook, loop, passed, unsaved, conflicted, changed>>
      /\ inFlight' = inFlight \/ (inFlight[r] = "no" /\ inFlight' = [inFlight EXCEPT ![r] = "pass"])
  BY DEF EvaluateNext, Claim, processVars, loopVars
<1>2. inFlight' \in Claims /\ \A q \in FlushedRooms : inFlight'[q] = "flush" <=> inFlight[q] = "flush"
  BY <1>1 DEF FlushInv, Claims
<1> QED BY <1>1, <1>2 DEF FlushInv, Flushing, Through, LookedAt

\* The steps of a save claim nothing; a save that ends may find a conflict.
LEMMA SaveFlush ==
    ASSUME FlushInv, NEW r \in FlushedRooms,
           BeginRoomSave(r) \/ SkipRoomSave(r) \/ EndRoomSave(r)
    PROVE  FlushInv'
<1>1. /\ UNCHANGED <<incomplete, toFlush, hook, loop, passed, inFlight, changed>>
      /\ unsaved' \subseteq unsaved /\ conflicted \subseteq conflicted'
  BY DEF BeginRoomSave, SkipRoomSave, EndRoomSave, processVars, loopVars
<1> QED BY <1>1 DEF FlushInv, Flushing, Through, LookedAt

\* The flush looks at a room again before it lets go of it.
LEMMA ExitFlush ==
    ASSUME FlushInv, NEW r \in FlushedRooms, ExitInFlight(r)
    PROVE  FlushInv'
<1>1. /\ UNCHANGED <<toFlush, hook, loop, passed, unsaved, conflicted, changed>>
      /\ inFlight' = [inFlight EXCEPT ![r] = "no"]
      /\ incomplete' = (incomplete \/ (inFlight[r] = "flush" /\ r \in unsaved))
  BY DEF ExitInFlight, processVars, StillUnsaved
<1>2. inFlight' \in Claims /\ \A q \in FlushedRooms : q # r => inFlight'[q] = inFlight[q]
  BY <1>1 DEF FlushInv, Claims
<1>3. inFlight'[r] = "no" BY <1>1 DEF FlushInv, Claims
<1>4. incomplete' \in BOOLEAN /\ (~incomplete' => ~incomplete /\ ~(inFlight[r] = "flush" /\ r \in unsaved))
  BY <1>1 DEF FlushInv
<1>5. incomplete => incomplete' BY <1>1
<1> QED BY <1>1, <1>2, <1>3, <1>4, <1>5 DEF FlushInv, Flushing, Through, LookedAt

\* The flush starts when the loop has ended, or late.
LEMMA StartsFlush ==
    ASSUME FlushInv, StartFlush
    PROVE  FlushInv'
<1>1. /\ UNCHANGED <<incomplete, loop, passed, unsaved, conflicted, changed, inFlight>>
      /\ hook' = "flushing" /\ toFlush' = FlushedRooms
      /\ loop = "done" \/ passed > 0
  BY DEF StartFlush, Waited, processVars
<1> QED BY <1>1 DEF FlushInv, Flushing, Through, LookedAt

\* A room the flush comes to is claimed, or needs or allows no save.
LEMMA NextFlush ==
    ASSUME FlushInv, NEW r \in FlushedRooms, FlushNext(r)
    PROVE  FlushInv'
<1>1. /\ UNCHANGED <<incomplete, loop, hook, passed, unsaved, conflicted, changed>>
      /\ hook = "flushing" /\ passed = 0 /\ toFlush' = toFlush \ {r}
  BY DEF FlushNext, processVars, loopVars
<1>2. inFlight[r] # "pass" BY <1>1 DEF FlushInv, Flushing, Through
<1>3. CASE Saveable(r) /\ inFlight[r] = "no"
  <2>1. inFlight' = [inFlight EXCEPT ![r] = "flush"] BY <1>3 DEF FlushNext, Claim
  <2>2. inFlight' \in Claims /\ inFlight'[r] = "flush"
        /\ \A q \in FlushedRooms : q # r => inFlight'[q] = inFlight[q]
    BY <2>1 DEF FlushInv, Claims
  <2> QED BY <1>1, <2>2 DEF FlushInv, Flushing, Through, LookedAt
<1>4. CASE ~(Saveable(r) /\ inFlight[r] = "no")
  <2>1. UNCHANGED inFlight BY <1>4 DEF FlushNext, Claim
  <2>2. inFlight[r] = "flush" \/ r \notin unsaved \/ r \in conflicted
    BY <1>2, <1>4 DEF FlushInv, Claims, Saveable
  <2> QED BY <1>1, <2>1, <2>2 DEF FlushInv, Flushing, Through, LookedAt
<1> QED BY <1>3, <1>4

\* The flush gives up, or ends with no room in its hands.
LEMMA EndsFlush ==
    ASSUME FlushInv, GiveUp \/ EndFlush
    PROVE  FlushInv'
<1>1. CASE GiveUp
  <2>1. /\ UNCHANGED <<loop, passed, unsaved, conflicted, changed, inFlight, toFlush>>
        /\ hook = "flushing" /\ hook' = "ending" /\ incomplete' = TRUE
    BY <1>1 DEF GiveUp, processVars, flushVars
  <2> QED BY <2>1 DEF FlushInv, Flushing, Through, LookedAt
<1>2. CASE EndFlush
  <2>1. /\ UNCHANGED <<loop, passed, unsaved, conflicted, changed, inFlight, toFlush, incomplete>>
        /\ Flushing /\ hook' = "done" /\ Through("flush")
        /\ hook = "ending" \/ toFlush = {}
    BY <1>2 DEF EndFlush, processVars, flushVars, Flushing
  <2> QED BY <2>1 DEF FlushInv, Flushing, Through, LookedAt
<1> QED BY <1>1, <1>2

\* A flush that reports no error has left a room unsaved only in a conflict or
\* because of a request that came after its look: it waited for every pass, so
\* it skipped no room for one, and it looked again at every room it saved.
THEOREM CleanFlushSaves == ShutdownSpec => []CleanFlushMeansSaved
<1>1. FlushInv /\ [ShutdownNext]_shutdownVars => FlushInv'
  <2>1. FlushInv /\ UNCHANGED shutdownVars => FlushInv'
    BY DEF shutdownVars, processVars, loopVars, flushVars, FlushInv, Flushing, Through, LookedAt
  <2>2. \A r \in FlushedRooms : FlushInv /\ RoomWork(r) => FlushInv'
    BY CallFlush, EvaluateFlush, SaveFlush, ExitFlush, NextFlush DEF RoomWork
  <2> QED BY <2>1, <2>2, ProcessFlush, StartsFlush, EndsFlush DEF ShutdownNext
<1>2. FlushInv => CleanFlushMeansSaved
  BY DEF FlushInv, CleanFlushMeansSaved, LookedAt, Through
<1> QED BY <1>1, <1>2, FlushInit, PTL DEF ShutdownSpec

=============================================================================
