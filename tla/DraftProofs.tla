------------------------------ MODULE DraftProofs ------------------------------
(***************************************************************************)
(* Theorems about Drafts, for any number of pages of a browser and any     *)
(* scenes: what a browser stored, its pages and workers keep until the     *)
(* board has it. One invariant serves all of them: what each page's load   *)
(* has found, what its worker is about to save, and how both relate to the *)
(* record the pages share.                                                 *)
(***************************************************************************)
EXTENDS Drafts, ScenesProofs, SequenceTheorems

Phases == {"closed", "reading", "fetched", "open", "leaving"}
Loading == {"reading", "fetched"}
Running == {"open", "leaving"}
Finds == [scene : AllScenes, keep : {"no", "pending", "clean"}, confirmed : BOOLEAN, local : Records \cup {NoRecord}]
Messages == [kind : {"store", "put"}, scene : AllScenes]

BoardShape ==
    /\ retained \in Kept /\ host \in Kept /\ conflict \in BOOLEAN /\ stray \subseteq AllScenes
    /\ recalled \subseteq Tabs /\ flag \in [Tabs -> BOOLEAN] /\ spare \in Nat

PageShape ==
    /\ phase \in [Tabs -> Phases]
    /\ found \in [Tabs -> Finds]
    /\ scene \in [Tabs -> AllScenes]
    /\ exit \in [Tabs -> {"no", "resolving", "resolved", "cleared"}]
    /\ queue \in [Tabs -> Seq(Messages)]

StoreShape ==
    /\ answered \subseteq Tabs
    /\ record \in Records \cup {NoRecord}
    /\ unsynced \in Kept /\ writer \in Tabs \cup {NoTab} /\ discarded \in BOOLEAN

\* The load of a page merges what was pending; the page it opens shows it.
FoundOk(ph, f, s) ==
    /\ ph = "fetched" =>
          /\ f.keep # "no" => (f.keep = "pending" <=> Pending(f.local))
          /\ Pending(f.local) => Covers(f.scene, f.local.scene)
    /\ ph = "open" /\ Pending(f.local) => Covers(s, f.local.scene)

\* A worker works for a page that runs; what it is to save, the page has grown
\* beyond, message by message, and a PUT only comes from a page that has read
\* the board.
QueueOk(ph, f, s, q) ==
    /\ ph \notin Running => q = <<>>
    /\ \A i \in DOMAIN q :
          /\ q[i].kind = "put" => f.confirmed
          /\ Covers(s, q[i].scene)
          /\ \A j \in DOMAIN q : i < j => Covers(q[j].scene, q[i].scene)

\* The answer a worker has is that of its first message, a PUT.
AnswerOk(busy, q) == busy => q # <<>> /\ q[1].kind = "put"

\* What the tab that stored last is about to save covers what it stored.
Carries(ph, f, s, q, x) ==
    /\ ph \in Loading => Pending(f.local) /\ Covers(f.local.scene, x)
    /\ ph \in Running => Covers(s, x)
    /\ \A i \in DOMAIN q : Covers(q[i].scene, x)

\* Nothing is about to be stored: no page loads, none that is not about to
\* reload is open, and no worker has a scene to store.
Quiet(ph, ex, q) ==
    /\ ph \notin Loading
    /\ ph = "open" => ex # "no"
    /\ \A i \in DOMAIN q : q[i].kind # "store"

PagesOk ==
    \A t \in Tabs :
        /\ FoundOk(phase[t], found[t], scene[t])
        /\ QueueOk(phase[t], found[t], scene[t], queue[t])
        /\ AnswerOk(t \in answered, queue[t])
UnsyncedOk ==
    unsynced # NoScene =>
        /\ Pending(record) /\ Covers(record.scene, unsynced)
        /\ \A t \in Tabs : writer = t => Carries(phase[t], found[t], scene[t], queue[t], unsynced)
DiscardOk ==
    discarded => ~Pending(record) /\ \A t \in Tabs : Quiet(phase[t], exit[t], queue[t])

DraftInv == PageShape /\ StoreShape /\ PagesOk /\ UnsyncedOk /\ DiscardOk

-----------------------------------------------------------------------------
(***************************************************************************)
(* The queue of a worker, as a sequence.                                   *)
(***************************************************************************)
\* To take the first message out of a queue is to take its tail.
LEMMA WithoutFirst ==
    ASSUME NEW q \in Seq(Messages), q # <<>>
    PROVE  RemoveAt(q, 1) = Tail(q)
<1>1. SubSeq(q, 1, 0) = <<>> BY SubSeqEmpty
<1>2. Tail(q) = SubSeq(q, 2, Len(q)) BY TailIsSubSeq
<1>3. Tail(q) \in Seq(Messages) BY HeadTailProperties
<1>4. <<>> \o Tail(q) = Tail(q) BY <1>3, ConcatEmptySeq
<1>5. RemoveAt(q, 1) = SubSeq(q, 1, 0) \o SubSeq(q, 2, Len(q))
  <2>1. 1 - 1 = 0 /\ 1 + 1 = 2 OBVIOUS
  <2> QED BY <2>1 DEF RemoveAt
<1>6. RemoveAt(q, 1) = <<>> \o Tail(q) BY <1>1, <1>2, <1>5
<1> QED BY <1>4, <1>6

\* The queue after its first message: the same messages, one place on.
LEMMA TailOf ==
    ASSUME NEW q \in Seq(Messages), q # <<>>
    PROVE  /\ Tail(q) \in Seq(Messages) /\ Head(q) = q[1] /\ q[1] \in Messages /\ 1 \in DOMAIN q
           /\ \A i \in DOMAIN Tail(q) : i \in Nat /\ i + 1 \in DOMAIN q /\ Tail(q)[i] = q[i + 1] /\ 1 < i + 1
<1>1. Len(q) \in Nat \ {0} BY EmptySeq
<1>2. DOMAIN q = 1 .. Len(q) BY LenProperties
<1>3. Tail(q) \in Seq(Messages) /\ Len(Tail(q)) = Len(q) - 1
      /\ \A i \in 1 .. Len(Tail(q)) : Tail(q)[i] = q[i + 1]
  BY HeadTailProperties
<1>4. DOMAIN Tail(q) = 1 .. Len(q) - 1 BY <1>3, LenProperties
<1>5. 1 \in 1 .. Len(q) BY <1>1
<1>6. q[1] \in Messages BY <1>5, ElementOfSeq
<1>7. Head(q) = q[1] OBVIOUS
<1> QED BY <1>1, <1>2, <1>3, <1>4, <1>5, <1>6, <1>7

\* The queue with one more message.
LEMMA AppendOf ==
    ASSUME NEW q \in Seq(Messages), NEW m \in Messages
    PROVE  /\ Append(q, m) \in Seq(Messages) /\ Append(q, m) # <<>>
           /\ \A i \in DOMAIN Append(q, m) :
                 \/ i \in DOMAIN q /\ Append(q, m)[i] = q[i] /\ q[i] \in Messages
                 \/ i = Len(q) + 1 /\ Append(q, m)[i] = m
           /\ \A i \in DOMAIN Append(q, m) : i \in Nat /\ i <= Len(q) + 1
           /\ \A i \in DOMAIN q : i \in Nat /\ i <= Len(q)
           /\ q # <<>> => Append(q, m)[1] = q[1]
<1>1. Len(q) \in Nat /\ DOMAIN q = 1 .. Len(q) BY LenProperties
<1>2. Append(q, m) \in Seq(Messages) /\ Append(q, m) # <<>> /\ Len(Append(q, m)) = Len(q) + 1
  BY AppendProperties
<1>3. DOMAIN Append(q, m) = 1 .. Len(q) + 1 BY <1>2, LenProperties
<1>4. \A i \in 1 .. Len(q) : Append(q, m)[i] = q[i] BY AppendProperties
<1>5. Append(q, m)[Len(q) + 1] = m BY AppendProperties
<1>6. \A i \in 1 .. Len(q) : q[i] \in Messages BY ElementOfSeq
<1>7. q # <<>> => 1 \in 1 .. Len(q) BY <1>1, EmptySeq
<1> QED BY <1>1, <1>2, <1>3, <1>4, <1>5, <1>6, <1>7

-----------------------------------------------------------------------------
(***************************************************************************)
(* What the invariant says of a queue, when it loses a message, gets one, or *)
(* its page shows more.                                                    *)
(***************************************************************************)
\* The worker has finished its first message.
LEMMA QueueLess ==
    ASSUME NEW ph, NEW f, NEW s, NEW q \in Seq(Messages), q # <<>>, ph \in Running,
           QueueOk(ph, f, s, q)
    PROVE  QueueOk(ph, f, s, Tail(q))
<1>1. ASSUME NEW i \in DOMAIN Tail(q)
      PROVE  /\ Tail(q)[i].kind = "put" => f.confirmed
             /\ Covers(s, Tail(q)[i].scene)
             /\ \A j \in DOMAIN Tail(q) : i < j => Covers(Tail(q)[j].scene, Tail(q)[i].scene)
  <2>1. i + 1 \in DOMAIN q /\ Tail(q)[i] = q[i + 1] /\ i \in Nat BY TailOf
  <2>2. ASSUME NEW j \in DOMAIN Tail(q), i < j PROVE Covers(Tail(q)[j].scene, Tail(q)[i].scene)
    <3>1. j + 1 \in DOMAIN q /\ Tail(q)[j] = q[j + 1] /\ j \in Nat BY TailOf
    <3>2. i + 1 < j + 1 BY <2>1, <2>2, <3>1
    <3> QED BY <2>1, <3>1, <3>2 DEF QueueOk
  <2> QED BY <2>1, <2>2 DEF QueueOk
<1> QED BY <1>1 DEF QueueOk

\* The page posts the scene it shows.
LEMMA QueueMore ==
    ASSUME NEW ph \in Running, NEW f, NEW s \in AllScenes, NEW q \in Seq(Messages), NEW m \in Messages,
           QueueOk(ph, f, s, q), m.scene = s, m.kind = "put" => f.confirmed
    PROVE  QueueOk(ph, f, s, Append(q, m))
<1> DEFINE r == Append(q, m)
<1>1. \A i \in DOMAIN r : (i \in DOMAIN q /\ r[i] = q[i]) \/ (i = Len(q) + 1 /\ r[i] = m)
  BY AppendOf
<1>2. \A i \in DOMAIN r : i \in Nat /\ i <= Len(q) + 1 BY AppendOf
<1>3. Len(q) \in Nat BY LenProperties
<1>4. \A i \in DOMAIN q : i \in Nat /\ i <= Len(q) BY AppendOf
<1> HIDE DEF r
<1>5. ASSUME NEW i \in DOMAIN r
      PROVE  /\ r[i].kind = "put" => f.confirmed
             /\ Covers(s, r[i].scene)
             /\ \A j \in DOMAIN r : i < j => Covers(r[j].scene, r[i].scene)
  <2>1. CASE i \in DOMAIN q /\ r[i] = q[i]
    <3>1. ASSUME NEW j \in DOMAIN r, i < j PROVE Covers(r[j].scene, r[i].scene)
      <4>1. CASE j \in DOMAIN q /\ r[j] = q[j] BY <2>1, <3>1, <4>1 DEF QueueOk
      <4>2. CASE r[j] = m BY <2>1, <4>2 DEF QueueOk
      <4> QED BY <1>1, <4>1, <4>2
    <3> QED BY <2>1, <3>1 DEF QueueOk
  <2>2. CASE i = Len(q) + 1 /\ r[i] = m
    <3>1. ASSUME NEW j \in DOMAIN r PROVE ~(i < j) BY <1>2, <1>3, <2>2
    <3>2. Covers(s, m.scene) BY CoversItself
    <3> QED BY <2>2, <3>1, <3>2
  <2> QED BY <1>1, <2>1, <2>2
<1>6. r # <<>> BY AppendOf DEF r
<1> QED BY <1>5 DEF QueueOk, r

\* The scene of a page grows.
LEMMA QueueGrows ==
    ASSUME NEW ph, NEW f, NEW s \in AllScenes, NEW s2 \in AllScenes, NEW q \in Seq(Messages),
           QueueOk(ph, f, s, q), Covers(s2, s)
    PROVE  QueueOk(ph, f, s2, q)
<1>1. ASSUME NEW i \in DOMAIN q PROVE Covers(s2, q[i].scene)
  <2>1. q[i] \in Messages BY LenProperties, ElementOfSeq
  <2>2. q[i].scene \in AllScenes BY <2>1 DEF Messages
  <2> QED BY <2>2, CoversIsTransitive DEF QueueOk
<1> QED BY <1>1 DEF QueueOk

\* The same of what was stored last and not synced.
LEMMA CarriesLess ==
    ASSUME NEW ph, NEW f, NEW s, NEW q \in Seq(Messages), q # <<>>, NEW x, Carries(ph, f, s, q, x)
    PROVE  Carries(ph, f, s, Tail(q), x)
BY TailOf DEF Carries

\* A page that runs asks its worker to save what it shows, which covers it.
LEMMA CarriesMore ==
    ASSUME NEW ph \in Running, NEW f, NEW s, NEW q \in Seq(Messages), NEW m \in Messages, NEW x,
           m.scene = s, Carries(ph, f, s, q, x)
    PROVE  Carries(ph, f, s, Append(q, m), x)
<1>1. \A i \in DOMAIN Append(q, m) : (i \in DOMAIN q /\ Append(q, m)[i] = q[i]) \/ Append(q, m)[i] = m
  BY AppendOf
<1> QED BY <1>1 DEF Carries

\* A page that shows more still covers what was stored last.
LEMMA CarriesGrows ==
    ASSUME NEW ph \in Running, NEW f, NEW s \in AllScenes, NEW s2 \in AllScenes, NEW q, NEW x \in AllScenes,
           Carries(ph, f, s, q, x), Covers(s2, s)
    PROVE  Carries(ph, f, s2, q, x)
<1>1. Covers(s2, x) BY CoversIsTransitive DEF Carries
<1> QED BY <1>1 DEF Carries, Loading, Running

\* A worker that has finished a message, or has one more that is no store, has
\* nothing to store.
LEMMA QuietLess ==
    ASSUME NEW ph, NEW ex, NEW q \in Seq(Messages), q # <<>>, Quiet(ph, ex, q)
    PROVE  Quiet(ph, ex, Tail(q))
BY TailOf DEF Quiet

-----------------------------------------------------------------------------
(***************************************************************************)
(* The steps of the pages and of their workers.                            *)
(***************************************************************************)
\* A step of one tab, in its page's variables.
TabStep(t, ph, f, s, ex, q) ==
    /\ phase' = [phase EXCEPT ![t] = ph]
    /\ found' = [found EXCEPT ![t] = f]
    /\ scene' = [scene EXCEPT ![t] = s]
    /\ exit' = [exit EXCEPT ![t] = ex]
    /\ queue' = [queue EXCEPT ![t] = q]

Exitings == {"no", "resolving", "resolved", "cleared"}

\* It changes the variables of the tab alone, and keeps their types.
LEMMA TabStepShape ==
    ASSUME PageShape, NEW t \in Tabs, NEW ph \in Phases, NEW f \in Finds, NEW s \in AllScenes,
           NEW ex \in Exitings, NEW q \in Seq(Messages), TabStep(t, ph, f, s, ex, q)
    PROVE  /\ PageShape'
           /\ phase'[t] = ph /\ found'[t] = f /\ scene'[t] = s /\ exit'[t] = ex /\ queue'[t] = q
           /\ \A u \in Tabs \ {t} :
                 /\ phase'[u] = phase[u] /\ found'[u] = found[u] /\ scene'[u] = scene[u]
                 /\ exit'[u] = exit[u] /\ queue'[u] = queue[u]
BY DEF TabStep, PageShape, Exitings

\* It keeps what is said of each page if what it leaves of its own page does.
LEMMA TabStepPages ==
    ASSUME PageShape, PagesOk,
           NEW t \in Tabs, NEW ph \in Phases, NEW f \in Finds, NEW s \in AllScenes,
           NEW ex \in Exitings, NEW q \in Seq(Messages), TabStep(t, ph, f, s, ex, q),
           \A u \in Tabs \ {t} : u \in answered' <=> u \in answered,
           FoundOk(ph, f, s), QueueOk(ph, f, s, q), AnswerOk(t \in answered', q)
    PROVE  PagesOk'
<1>1. /\ phase'[t] = ph /\ found'[t] = f /\ scene'[t] = s /\ exit'[t] = ex /\ queue'[t] = q
      /\ \A u \in Tabs \ {t} :
            /\ phase'[u] = phase[u] /\ found'[u] = found[u] /\ scene'[u] = scene[u]
            /\ exit'[u] = exit[u] /\ queue'[u] = queue[u]
  BY TabStepShape
<1>2. ASSUME NEW u \in Tabs
      PROVE  /\ FoundOk(phase'[u], found'[u], scene'[u])
             /\ QueueOk(phase'[u], found'[u], scene'[u], queue'[u])
             /\ AnswerOk(u \in answered', queue'[u])
  <2>1. CASE u = t BY <1>1, <2>1
  <2>2. CASE u # t
    <3>1. FoundOk(phase[u], found[u], scene[u]) /\ QueueOk(phase[u], found[u], scene[u], queue[u])
          /\ AnswerOk(u \in answered, queue[u])
      BY DEF PagesOk
    <3>2. AnswerOk(u \in answered', queue[u]) BY <2>2, <3>1 DEF AnswerOk
    <3> QED BY <1>1, <2>2, <3>1, <3>2
  <2> QED BY <2>1, <2>2
<1> QED BY <1>2 DEF PagesOk

\* It keeps what was stored last if the tab is not the one that stored it or
\* still carries it.
LEMMA TabStepUnsynced ==
    ASSUME PageShape, UnsyncedOk,
           NEW t \in Tabs, NEW ph \in Phases, NEW f \in Finds, NEW s \in AllScenes,
           NEW ex \in Exitings, NEW q \in Seq(Messages), TabStep(t, ph, f, s, ex, q),
           UNCHANGED <<record, unsynced, writer>>,
           unsynced # NoScene /\ writer = t => Carries(ph, f, s, q, unsynced)
    PROVE  UnsyncedOk'
<1>1. /\ phase'[t] = ph /\ found'[t] = f /\ scene'[t] = s /\ exit'[t] = ex /\ queue'[t] = q
      /\ \A u \in Tabs \ {t} :
            /\ phase'[u] = phase[u] /\ found'[u] = found[u] /\ scene'[u] = scene[u]
            /\ exit'[u] = exit[u] /\ queue'[u] = queue[u]
  BY TabStepShape
<1>2. ASSUME unsynced # NoScene, NEW u \in Tabs, writer = u
      PROVE  Carries(phase'[u], found'[u], scene'[u], queue'[u], unsynced)
  <2>1. CASE u = t BY <1>1, <1>2, <2>1
  <2>2. CASE u # t BY <1>1, <1>2, <2>2 DEF UnsyncedOk
  <2> QED BY <2>1, <2>2
<1> QED BY <1>2 DEF UnsyncedOk, Pending

\* It brings nothing discarded back if it leaves nothing to store.
LEMMA TabStepDiscard ==
    ASSUME PageShape, DiscardOk,
           NEW t \in Tabs, NEW ph \in Phases, NEW f \in Finds, NEW s \in AllScenes,
           NEW ex \in Exitings, NEW q \in Seq(Messages), TabStep(t, ph, f, s, ex, q),
           discarded' = discarded,
           discarded => ~Pending(record') /\ Quiet(ph, ex, q)
    PROVE  DiscardOk'
<1>1. /\ phase'[t] = ph /\ found'[t] = f /\ scene'[t] = s /\ exit'[t] = ex /\ queue'[t] = q
      /\ \A u \in Tabs \ {t} :
            /\ phase'[u] = phase[u] /\ found'[u] = found[u] /\ scene'[u] = scene[u]
            /\ exit'[u] = exit[u] /\ queue'[u] = queue[u]
  BY TabStepShape
<1>2. ASSUME discarded, NEW u \in Tabs PROVE Quiet(phase'[u], exit'[u], queue'[u])
  <2>1. CASE u = t BY <1>1, <1>2, <2>1
  <2>2. CASE u # t BY <1>1, <1>2, <2>2 DEF DiscardOk
  <2> QED BY <2>1, <2>2
<1> QED BY <1>2 DEF DiscardOk

\* What the invariant says of one tab.
LEMMA AtTab ==
    ASSUME DraftInv, NEW t \in Tabs
    PROVE  /\ phase[t] \in Phases /\ found[t] \in Finds /\ scene[t] \in AllScenes
           /\ exit[t] \in Exitings /\ queue[t] \in Seq(Messages)
           /\ FoundOk(phase[t], found[t], scene[t])
           /\ QueueOk(phase[t], found[t], scene[t], queue[t])
           /\ AnswerOk(t \in answered, queue[t])
           /\ unsynced # NoScene /\ writer = t => Carries(phase[t], found[t], scene[t], queue[t], unsynced)
           /\ discarded => Quiet(phase[t], exit[t], queue[t])
           /\ found[t].local \in Records \cup {NoRecord}
BY DEF DraftInv, PageShape, PagesOk, UnsyncedOk, DiscardOk, Finds, Exitings

\* A function is what it is at any place.
LEMMA SameTab ==
    ASSUME NEW S, NEW F \in [Tabs -> S], NEW t \in Tabs
    PROVE  F = [F EXCEPT ![t] = F[t]]
OBVIOUS

\* The parts a step of one tab leaves alone.
LEMMA SamePage ==
    ASSUME PageShape, NEW t \in Tabs
    PROVE  /\ phase = [phase EXCEPT ![t] = phase[t]] /\ found = [found EXCEPT ![t] = found[t]]
           /\ scene = [scene EXCEPT ![t] = scene[t]] /\ exit = [exit EXCEPT ![t] = exit[t]]
           /\ queue = [queue EXCEPT ![t] = queue[t]]
BY SameTab DEF PageShape

\* A step of one tab that stores nothing.
LEMMA TabStepInv ==
    ASSUME DraftInv, NEW t \in Tabs, NEW ph \in Phases, NEW f \in Finds, NEW s \in AllScenes,
           NEW ex \in Exitings, NEW q \in Seq(Messages), TabStep(t, ph, f, s, ex, q),
           answered' \in {answered, answered \cup {t}, answered \ {t}},
           UNCHANGED <<record, historyVars>>,
           FoundOk(ph, f, s), QueueOk(ph, f, s, q), AnswerOk(t \in answered', q),
           unsynced # NoScene /\ writer = t => Carries(ph, f, s, q, unsynced),
           discarded => Quiet(ph, ex, q)
    PROVE  DraftInv'
<1>1. UNCHANGED <<record, unsynced, writer>> /\ discarded' = discarded BY DEF historyVars
<1>2. \A u \in Tabs \ {t} : u \in answered' <=> u \in answered OBVIOUS
<1>3. PageShape' BY TabStepShape DEF DraftInv
<1>4. PagesOk' BY <1>2, TabStepPages DEF DraftInv
<1>5. UnsyncedOk' BY <1>1, TabStepUnsynced DEF DraftInv
<1>6. DiscardOk'
  <2>1. discarded => ~Pending(record') BY <1>1 DEF DraftInv, DiscardOk
  <2> QED BY <1>1, <2>1, TabStepDiscard DEF DraftInv
<1>7. StoreShape' BY <1>1 DEF DraftInv, StoreShape, historyVars
<1> QED BY <1>3, <1>4, <1>5, <1>6, <1>7 DEF DraftInv

\* A step that concerns neither the pages nor the browser's store.
LEMMA ElsewhereStep ==
    ASSUME DraftInv, UNCHANGED <<phase, found, scene, exit, queue, answered, record, historyVars>>
    PROVE  DraftInv'
BY DEF DraftInv, PageShape, StoreShape, PagesOk, UnsyncedOk, DiscardOk, historyVars, Pending

\* What is pending when a load reads it is no more than what is stored.
LEMMA LocalScene ==
    ASSUME NEW local \in Records \cup {NoRecord}, Pending(local)
    PROVE  local \in Records /\ local.scene \in AllScenes
BY DEF Pending, Records

\* The page's scene grows by an edit or by a broadcast.
LEMMA SceneGrows ==
    ASSUME DraftInv, NEW t \in Tabs, phase[t] = "open", NEW s \in AllScenes, Covers(s, scene[t]),
           scene' = [scene EXCEPT ![t] = s],
           UNCHANGED <<phase, found, exit, queue, answered, record, historyVars>>
    PROVE  DraftInv'
<1> DEFINE f == found[t]
           q == queue[t]
<1>1. /\ f \in Finds /\ scene[t] \in AllScenes /\ exit[t] \in Exitings /\ q \in Seq(Messages)
      /\ f.local \in Records \cup {NoRecord}
      /\ FoundOk("open", f, scene[t]) /\ QueueOk("open", f, scene[t], q) /\ AnswerOk(t \in answered, q)
      /\ unsynced # NoScene /\ writer = t => Carries("open", f, scene[t], q, unsynced)
      /\ discarded => Quiet("open", exit[t], q)
  BY AtTab
<1>2. "open" \in Phases /\ "open" \in Running BY DEF Phases, Running
<1>3. TabStep(t, "open", f, s, exit[t], q) BY SamePage DEF DraftInv, TabStep
<1> HIDE DEF f, q
<1>4. Pending(f.local) => Covers(s, f.local.scene) BY <1>1, LocalScene, CoversIsTransitive DEF FoundOk
<1>5. FoundOk("open", f, s) BY <1>4 DEF FoundOk
<1>6. QueueOk("open", f, s, q) BY <1>1, QueueGrows
<1>7. unsynced # NoScene /\ writer = t => Carries("open", f, s, q, unsynced)
  <2>1. unsynced # NoScene => unsynced \in AllScenes BY DEF DraftInv, StoreShape, Kept
  <2> QED BY <1>1, <1>2, <2>1, CarriesGrows
<1>8. AnswerOk(t \in answered', q) BY <1>1
<1> QED BY <1>1, <1>2, <1>3, <1>5, <1>6, <1>7, <1>8, TabStepInv

\* The page posts its scene to its worker, to be stored or PUT.
LEMMA Posting ==
    ASSUME DraftInv, NEW t \in Tabs, NEW ph \in Running, phase[t] = "open", NEW kind \in {"store", "put"},
           exit[t] = "no", kind = "put" => found[t].confirmed,
           NEW f \in Finds, f = found[t] \/ f = [found[t] EXCEPT !.local = NoRecord],
           phase' = [phase EXCEPT ![t] = ph], found' = [found EXCEPT ![t] = f],
           queue' = [queue EXCEPT ![t] = Append(@, Message(kind, t))],
           UNCHANGED <<scene, exit, answered, record, historyVars>>
    PROVE  DraftInv'
<1> DEFINE s == scene[t]
           q == queue[t]
           m == Message(kind, t)
<1>1. /\ s \in AllScenes /\ exit[t] \in Exitings /\ q \in Seq(Messages)
      /\ FoundOk("open", found[t], s) /\ QueueOk("open", found[t], s, q) /\ AnswerOk(t \in answered, q)
      /\ unsynced # NoScene /\ writer = t => Carries("open", found[t], s, q, unsynced)
      /\ discarded => Quiet("open", exit[t], q)
      /\ found[t] \in Finds
  BY AtTab
<1>2. m \in Messages /\ m.scene = s /\ m.kind = kind BY <1>1 DEF Message, Messages
<1>3. "open" \in Running /\ ph \in Phases BY DEF Phases, Running
<1>4. TabStep(t, ph, f, s, exit[t], Append(q, m)) BY SamePage DEF DraftInv, TabStep
<1> HIDE DEF s, q, m
<1>5. f.confirmed = found[t].confirmed /\ (Pending(f.local) => f = found[t])
  BY <1>1 DEF Finds, Pending
<1>6. FoundOk(ph, f, s) BY <1>1, <1>5 DEF FoundOk, Running
<1>7. QueueOk(ph, f, s, q) BY <1>1, <1>3, <1>5 DEF QueueOk
<1>8. QueueOk(ph, f, s, Append(q, m)) BY <1>1, <1>2, <1>5, <1>7, QueueMore
<1>9. AnswerOk(t \in answered', Append(q, m)) BY <1>1, <1>2, AppendOf DEF AnswerOk
<1>10. unsynced # NoScene /\ writer = t => Carries(ph, f, s, Append(q, m), unsynced)
  <2>1. Carries("open", found[t], s, q, unsynced) => Carries(ph, f, s, q, unsynced)
    BY <1>3 DEF Carries, Running, Loading
  <2> QED BY <1>1, <1>2, <2>1, CarriesMore
<1>11. ~discarded BY <1>1 DEF Quiet
<1>12. Append(q, m) \in Seq(Messages) BY <1>1, <1>2, AppendOf
<1> QED BY <1>1, <1>3, <1>4, <1>6, <1>8, <1>9, <1>10, <1>11, <1>12, TabStepInv

\* A page leaves without a word to its worker.
LEMMA Leaving ==
    ASSUME DraftInv, NEW t \in Tabs, phase[t] = "open",
           phase' = [phase EXCEPT ![t] = "leaving"], found' = [found EXCEPT ![t].local = NoRecord],
           UNCHANGED <<scene, exit, queue, answered, record, historyVars>>
    PROVE  DraftInv'
<1> DEFINE f == [found[t] EXCEPT !.local = NoRecord]
           s == scene[t]
           q == queue[t]
<1>1. /\ s \in AllScenes /\ exit[t] \in Exitings /\ q \in Seq(Messages) /\ found[t] \in Finds
      /\ QueueOk("open", found[t], s, q) /\ AnswerOk(t \in answered, q)
      /\ unsynced # NoScene /\ writer = t => Carries("open", found[t], s, q, unsynced)
      /\ discarded => Quiet("open", exit[t], q)
  BY AtTab
<1>2. found' = [found EXCEPT ![t] = f] BY DEF DraftInv, PageShape
<1>3. TabStep(t, "leaving", f, s, exit[t], q) BY <1>2, SamePage DEF DraftInv, TabStep
<1>4. f \in Finds /\ f.confirmed = found[t].confirmed BY <1>1 DEF Finds
<1> HIDE DEF f, s, q
<1>5. FoundOk("leaving", f, s) BY DEF FoundOk
<1>6. QueueOk("leaving", f, s, q) BY <1>1, <1>4 DEF QueueOk, Running
<1>7. Carries("open", found[t], s, q, unsynced) => Carries("leaving", f, s, q, unsynced)
  BY DEF Carries, Running, Loading
<1>8. discarded => Quiet("leaving", exit[t], q) BY <1>1 DEF Quiet, Loading
<1>9. "leaving" \in Phases BY DEF Phases
<1> QED BY <1>1, <1>3, <1>4, <1>5, <1>6, <1>7, <1>8, <1>9, TabStepInv

\* A page commits itself to a reload, or comes closer to it.
LEMMA Reloads ==
    ASSUME DraftInv, NEW t \in Tabs, NEW ex \in Exitings, ex # "no",
           exit' = [exit EXCEPT ![t] = ex],
           UNCHANGED <<phase, found, scene, queue, answered, record, historyVars>>
    PROVE  DraftInv'
<1>1. /\ phase[t] \in Phases /\ found[t] \in Finds /\ scene[t] \in AllScenes /\ queue[t] \in Seq(Messages)
      /\ FoundOk(phase[t], found[t], scene[t]) /\ QueueOk(phase[t], found[t], scene[t], queue[t])
      /\ AnswerOk(t \in answered, queue[t])
      /\ unsynced # NoScene /\ writer = t => Carries(phase[t], found[t], scene[t], queue[t], unsynced)
      /\ discarded => Quiet(phase[t], exit[t], queue[t])
  BY AtTab
<1>2. TabStep(t, phase[t], found[t], scene[t], ex, queue[t]) BY SamePage DEF DraftInv, TabStep
<1>3. discarded => Quiet(phase[t], ex, queue[t]) BY <1>1 DEF Quiet
<1>4. AnswerOk(t \in answered', queue[t]) BY <1>1
<1> QED BY <1>1, <1>2, <1>3, <1>4, TabStepInv

\* A PUT under way is served.
LEMMA ServePutInv == ASSUME DraftInv, NEW t \in Tabs, ServePut(t) PROVE DraftInv'
<1>1. /\ phase[t] \in Phases /\ found[t] \in Finds /\ scene[t] \in AllScenes /\ queue[t] \in Seq(Messages)
      /\ exit[t] \in Exitings
      /\ FoundOk(phase[t], found[t], scene[t]) /\ QueueOk(phase[t], found[t], scene[t], queue[t])
      /\ unsynced # NoScene /\ writer = t => Carries(phase[t], found[t], scene[t], queue[t], unsynced)
      /\ discarded => Quiet(phase[t], exit[t], queue[t])
  BY AtTab
<1>2. /\ queue[t] # <<>> /\ Head(queue[t]).kind = "put" /\ answered' = answered \cup {t}
      /\ UNCHANGED <<phase, found, scene, exit, queue, record, historyVars>>
  BY DEF ServePut, Putting, pageVars
<1>3. TabStep(t, phase[t], found[t], scene[t], exit[t], queue[t])
  BY <1>2, SamePage DEF DraftInv, TabStep
<1>4. AnswerOk(t \in answered', queue[t]) BY <1>1, <1>2, TailOf DEF AnswerOk
<1> QED BY <1>1, <1>2, <1>3, <1>4, TabStepInv

\* A PUT has failed; the page goes on with what is in its queue behind it.
LEMMA FailPutInv == ASSUME DraftInv, NEW t \in Tabs, FailPut(t) PROVE DraftInv'
<1> DEFINE q == queue[t]
<1>1. /\ phase[t] \in Phases /\ found[t] \in Finds /\ scene[t] \in AllScenes /\ q \in Seq(Messages)
      /\ exit[t] \in Exitings
      /\ FoundOk(phase[t], found[t], scene[t]) /\ QueueOk(phase[t], found[t], scene[t], q)
      /\ unsynced # NoScene /\ writer = t => Carries(phase[t], found[t], scene[t], q, unsynced)
      /\ discarded => Quiet(phase[t], exit[t], q)
  BY AtTab
<1>2. /\ q # <<>> /\ t \notin answered /\ queue' = [queue EXCEPT ![t] = Tail(@)] /\ phase[t] \in Running
      /\ UNCHANGED <<phase, found, scene, exit, answered, record, historyVars>>
  BY DEF FailPut, Putting, pageVars, Alive, Running
<1>3. TabStep(t, phase[t], found[t], scene[t], exit[t], Tail(q))
  BY <1>2, SamePage DEF DraftInv, TabStep
<1> HIDE DEF q
<1>4. AnswerOk(t \in answered', Tail(q)) BY <1>2 DEF AnswerOk
<1>5. QueueOk(phase[t], found[t], scene[t], Tail(q)) BY <1>1, <1>2, QueueLess
<1>6. unsynced # NoScene /\ writer = t => Carries(phase[t], found[t], scene[t], Tail(q), unsynced)
  BY <1>1, <1>2, CarriesLess
<1>7. discarded => Quiet(phase[t], exit[t], Tail(q)) BY <1>1, <1>2, QuietLess
<1>8. Tail(q) \in Seq(Messages) BY <1>1, <1>2, TailOf
<1> QED BY <1>1, <1>2, <1>3, <1>4, <1>5, <1>6, <1>7, <1>8, TabStepInv

\* Nothing a load has found.
LEMMA NothingIsFound == NothingFound \in Finds /\ ~Pending(NothingFound.local)
BY EmptyIsScene DEF NothingFound, Finds, Pending

\* The document is gone, and with it the worker and its messages.
LEMMA GoneInv == ASSUME DraftInv, NEW t \in Tabs, Gone(t) PROVE DraftInv'
<1>1. /\ answered' = answered \ {t} /\ UNCHANGED <<record, historyVars>>
      /\ TabStep(t, "closed", NothingFound, EmptyScene, "no", <<>>)
  BY DEF Gone, Terminated, TabStep
<1>2. "closed" \in Phases /\ "no" \in Exitings /\ <<>> \in Seq(Messages)
  BY EmptySeq DEF Phases, Exitings
<1>3. FoundOk("closed", NothingFound, EmptyScene) BY DEF FoundOk
<1>4. DOMAIN <<>> = {} OBVIOUS
<1>5. QueueOk("closed", NothingFound, EmptyScene, <<>>) BY <1>4 DEF QueueOk
<1>6. AnswerOk(t \in answered', <<>>) BY <1>1 DEF AnswerOk
<1>7. Carries("closed", NothingFound, EmptyScene, <<>>, unsynced) BY <1>4 DEF Carries, Loading, Running
<1>8. Quiet("closed", "no", <<>>) BY <1>4 DEF Quiet, Loading
<1> QED BY <1>1, <1>2, <1>3, <1>5, <1>6, <1>7, <1>8, NothingIsFound, EmptyIsScene, TabStepInv

\* A load begins: it reads the record, with what is pending in it.
LEMMA OpenInv == ASSUME DraftInv, NEW t \in Tabs, Open(t) PROVE DraftInv'
<1> DEFINE f == [NothingFound EXCEPT !.local = record]
           s == scene[t]
           q == queue[t]
<1>1. /\ phase[t] = "closed" /\ s \in AllScenes /\ exit[t] \in Exitings /\ q \in Seq(Messages)
      /\ QueueOk("closed", found[t], s, q) /\ AnswerOk(t \in answered, q)
  BY AtTab DEF Open
<1>2. /\ discarded' = FALSE /\ UNCHANGED <<answered, record, unsynced, writer>>
      /\ TabStep(t, "reading", f, s, exit[t], q)
  BY SamePage DEF Open, TabStep, storeVars, DraftInv
<1>3. f \in Finds /\ f.local = record
  BY NothingIsFound DEF Finds, DraftInv, StoreShape
<1> HIDE DEF f, s, q
<1>4. q = <<>> BY <1>1 DEF QueueOk, Running
<1>5. "reading" \in Phases /\ DOMAIN <<>> = {} BY DEF Phases
<1>6. FoundOk("reading", f, s) BY DEF FoundOk
<1>7. QueueOk("reading", f, s, q) BY <1>4, <1>5 DEF QueueOk
<1>8. AnswerOk(t \in answered', q) BY <1>1, <1>2
<1>9. unsynced # NoScene /\ writer = t => Carries("reading", f, s, q, unsynced)
  BY <1>3, <1>4, <1>5 DEF Carries, Running, DraftInv, UnsyncedOk
<1>10. PageShape' BY <1>1, <1>2, <1>3, <1>5, TabStepShape DEF DraftInv
<1>11. PagesOk' BY <1>1, <1>2, <1>3, <1>5, <1>6, <1>7, <1>8, TabStepPages DEF DraftInv
<1>12. UnsyncedOk' BY <1>1, <1>2, <1>3, <1>5, <1>9, TabStepUnsynced DEF DraftInv
<1>13. DiscardOk' BY <1>2 DEF DiscardOk
<1>14. StoreShape' BY <1>2 DEF DraftInv, StoreShape
<1> QED BY <1>10, <1>11, <1>12, <1>13, <1>14 DEF DraftInv

\* getLocalBoardDataPolicy: a load that finds pending edits shows them, and
\* writes back as pending what it merged them into.
LEMMA ResolutionOk ==
    ASSUME NEW server \in Kept, NEW local \in Records \cup {NoRecord}, NEW failed \in BOOLEAN, NEW s
    PROVE  /\ Resolution(server, local, failed) \in Finds
           /\ Resolution(server, local, failed).local = local
           /\ FoundOk("fetched", Resolution(server, local, failed), s)
<1> DEFINE r == Resolution(server, local, failed)
<1>1. CASE server # NoScene /\ Pending(local)
  <2>1. r = [local |-> local, scene |-> Merge(local.scene, server), keep |-> "pending", confirmed |-> TRUE]
    BY <1>1 DEF Resolution
  <2>2. server \in AllScenes /\ local.scene \in AllScenes BY <1>1, LocalScene DEF Kept
  <2>3. Merge(local.scene, server) \in AllScenes /\ Covers(Merge(local.scene, server), local.scene)
    BY <2>2, MergeIsScene, MergeCovers
  <2> QED BY <1>1, <2>1, <2>3 DEF Finds, FoundOk
<1>2. CASE server # NoScene /\ ~Pending(local)
  <2>1. r = [local |-> local, scene |-> server, keep |-> "clean", confirmed |-> TRUE]
    BY <1>2 DEF Resolution
  <2> QED BY <1>2, <2>1 DEF Finds, FoundOk, Kept
<1>3. CASE server = NoScene /\ local # NoRecord
  <2>1. r = [local |-> local, scene |-> local.scene, keep |-> "no", confirmed |-> TRUE]
    BY <1>3 DEF Resolution
  <2>2. local.scene \in AllScenes BY <1>3 DEF Records
  <2> QED BY <2>1, <2>2, CoversItself DEF Finds, FoundOk
<1>4. CASE server = NoScene /\ local = NoRecord
  <2>1. r = [local |-> local, scene |-> EmptyScene, keep |-> "no", confirmed |-> ~failed]
    BY <1>4 DEF Resolution
  <2>2. ~Pending(local) BY <1>4 DEF Pending
  <2>3. (~failed) \in BOOLEAN OBVIOUS
  <2> QED BY <2>1, <2>2, <2>3, EmptyIsScene DEF Finds, FoundOk
<1> QED BY <1>1, <1>2, <1>3, <1>4

\* The load has the server's answer, or its failure.
LEMMA FetchInv ==
    ASSUME DraftInv, BoardShape, NEW t \in Tabs, Fetch(t)
    PROVE  DraftInv'
<1> DEFINE s == scene[t]
           q == queue[t]
<1>1. /\ phase[t] = "reading" /\ s \in AllScenes /\ exit[t] \in Exitings /\ q \in Seq(Messages)
      /\ found[t].local \in Records \cup {NoRecord}
      /\ QueueOk("reading", found[t], s, q) /\ AnswerOk(t \in answered, q)
      /\ unsynced # NoScene /\ writer = t => Carries("reading", found[t], s, q, unsynced)
      /\ discarded => Quiet("reading", exit[t], q)
  BY AtTab DEF Fetch
<1>2. Served \in Kept /\ NoScene \in Kept BY DEF Served, BoardShape, Kept
<1>3. PICK server \in Kept, failed \in BOOLEAN :
          found' = [found EXCEPT ![t] = Resolution(server, found[t].local, failed)]
  <2>1. \/ found' = [found EXCEPT ![t] = Resolution(Served, @.local, FALSE)]
        \/ found' = [found EXCEPT ![t] = Resolution(NoScene, @.local, TRUE)]
    BY DEF Fetch
  <2>2. found \in [Tabs -> Finds] BY DEF DraftInv, PageShape
  <2> QED BY <1>2, <2>1, <2>2
<1> DEFINE f == Resolution(server, found[t].local, failed)
<1>4. /\ UNCHANGED <<answered, record, historyVars>>
      /\ TabStep(t, "fetched", f, s, exit[t], q)
  BY <1>3, SamePage DEF Fetch, TabStep, storeVars, DraftInv
<1>5. f \in Finds /\ f.local = found[t].local /\ FoundOk("fetched", f, s) BY <1>1, ResolutionOk
<1> HIDE DEF f, s, q
<1>6. q = <<>> /\ ~discarded BY <1>1 DEF QueueOk, Quiet, Running, Loading
<1>7. "fetched" \in Phases /\ DOMAIN <<>> = {} BY DEF Phases
<1>8. QueueOk("fetched", f, s, q) BY <1>6, <1>7 DEF QueueOk
<1>9. AnswerOk(t \in answered', q) BY <1>1, <1>4
<1>10. unsynced # NoScene /\ writer = t => Carries("fetched", f, s, q, unsynced)
  BY <1>1, <1>5 DEF Carries, Running, Loading
<1> QED BY <1>1, <1>4, <1>5, <1>6, <1>7, <1>8, <1>9, <1>10, TabStepInv

\* The editor mounts on what the load found. If the record is still the one it
\* read, the edits pending in it are pending in what is written back.
LEMMA ResolveInv == ASSUME DraftInv, NEW t \in Tabs, Resolve(t) PROVE DraftInv'
<1> DEFINE g == found[t]
           local == IF Pending(g.local) THEN g.local ELSE NoRecord
           f == [NothingFound EXCEPT !.confirmed = g.confirmed, !.local = local]
           q == queue[t]
<1>1. /\ phase[t] = "fetched" /\ exit[t] \in Exitings /\ q \in Seq(Messages) /\ g \in Finds
      /\ g.local \in Records \cup {NoRecord}
      /\ FoundOk("fetched", g, scene[t]) /\ QueueOk("fetched", g, scene[t], q) /\ AnswerOk(t \in answered, q)
      /\ unsynced # NoScene /\ writer = t => Carries("fetched", g, scene[t], q, unsynced)
      /\ discarded => Quiet("fetched", exit[t], q)
  BY AtTab DEF Resolve
<1>2. TabStep(t, "open", f, g.scene, exit[t], q) /\ answered' = answered /\ discarded' = discarded
  BY SamePage DEF Resolve, TabStep, DraftInv
<1>3. IF g.keep = "no" THEN UNCHANGED <<record, unsynced, writer>>
      ELSE /\ record' = [scene |-> g.scene, pending |-> g.keep = "pending"]
           /\ IF record = g.local THEN UNCHANGED <<unsynced, writer>> ELSE Forget
  BY DEF Resolve
<1>4. g.scene \in AllScenes /\ f \in Finds /\ f.local = local /\ f.confirmed = g.confirmed
  BY <1>1, NothingIsFound DEF Finds
<1>5. Pending(local) => local = g.local /\ Pending(g.local) BY DEF Pending
<1> HIDE DEF g, local, f, q
<1>6. q = <<>> /\ ~discarded BY <1>1 DEF QueueOk, Quiet, Running, Loading
<1>7. "open" \in Phases /\ DOMAIN <<>> = {} BY DEF Phases
<1>8. FoundOk("open", f, g.scene) BY <1>1, <1>4, <1>5 DEF FoundOk
<1>9. QueueOk("open", f, g.scene, q) BY <1>6, <1>7 DEF QueueOk
<1>10. AnswerOk(t \in answered', q) BY <1>1, <1>2
<1>11. PageShape' BY <1>1, <1>2, <1>4, <1>7, TabStepShape DEF DraftInv
<1>12. PagesOk' BY <1>1, <1>2, <1>4, <1>7, <1>8, <1>9, <1>10, TabStepPages DEF DraftInv
<1>13. DiscardOk' BY <1>2, <1>6 DEF DiscardOk
<1>14. unsynced # NoScene => unsynced \in AllScenes BY DEF DraftInv, StoreShape, Kept
<1>15. ASSUME unsynced # NoScene, writer = t PROVE Carries("open", f, g.scene, q, unsynced)
  <2>1. Pending(g.local) /\ Covers(g.local.scene, unsynced) BY <1>1, <1>15 DEF Carries, Loading
  <2>2. Covers(g.scene, g.local.scene) BY <1>1, <2>1 DEF FoundOk
  <2>3. Covers(g.scene, unsynced) BY <1>1, <1>4, <1>14, <1>15, <2>1, <2>2, LocalScene, CoversIsTransitive
  <2> QED BY <1>6, <1>7, <2>3 DEF Carries, Loading
<1>16. record' \in Records \cup {NoRecord}
  <2>1. (g.keep = "pending") \in BOOLEAN OBVIOUS
  <2>2. [scene |-> g.scene, pending |-> g.keep = "pending"] \in Records BY <1>4, <2>1 DEF Records
  <2> QED BY <1>3, <2>2 DEF DraftInv, StoreShape
<1>17. StoreShape' BY <1>2, <1>3, <1>16 DEF DraftInv, StoreShape, Forget, Kept
<1>18. UnsyncedOk'
  <2>1. CASE g.keep = "no"
    BY <1>1, <1>2, <1>3, <1>4, <1>7, <1>15, <2>1, TabStepUnsynced DEF DraftInv
  <2>2. CASE g.keep # "no" /\ record # g.local BY <1>3, <2>2 DEF UnsyncedOk, Forget
  <2>3. CASE g.keep # "no" /\ record = g.local
    <3>1. /\ record' = [scene |-> g.scene, pending |-> g.keep = "pending"]
          /\ UNCHANGED <<unsynced, writer>>
      BY <1>3, <2>3
    <3>2. ASSUME unsynced # NoScene PROVE Pending(record') /\ Covers(record'.scene, unsynced)
      <4>1. Pending(g.local) /\ Covers(g.local.scene, unsynced) BY <2>3, <3>2 DEF DraftInv, UnsyncedOk
      <4>2. g.keep = "pending" /\ Covers(g.scene, g.local.scene) BY <1>1, <2>3, <4>1 DEF FoundOk
      <4>3. Covers(g.scene, unsynced)
        BY <1>1, <1>4, <1>14, <3>2, <4>1, <4>2, LocalScene, CoversIsTransitive
      <4>4. record' = [scene |-> g.scene, pending |-> TRUE] BY <3>1, <4>2
      <4>5. record' \in Records BY <1>4, <4>4 DEF Records
      <4> QED BY <4>3, <4>4, <4>5, DraftAssumption DEF Pending
    <3>3. ASSUME unsynced # NoScene, NEW u \in Tabs, writer = u
          PROVE  Carries(phase'[u], found'[u], scene'[u], queue'[u], unsynced)
      <4>1. CASE u = t BY <1>1, <1>2, <1>4, <1>7, <1>15, <3>3, <4>1, TabStepShape DEF DraftInv
      <4>2. CASE u # t
        BY <1>1, <1>2, <1>4, <1>7, <3>3, <4>2, TabStepShape, AtTab DEF DraftInv
      <4> QED BY <4>1, <4>2
    <3> QED BY <3>1, <3>2, <3>3 DEF UnsyncedOk
  <2> QED BY <2>1, <2>2, <2>3
<1> QED BY <1>11, <1>12, <1>13, <1>17, <1>18 DEF DraftInv

\* handleSyncToLocal: what is stored, the rest of the queue and the page have
\* grown beyond.
LEMMA StoreLocalInv == ASSUME DraftInv, NEW t \in Tabs, StoreLocal(t) PROVE DraftInv'
<1> DEFINE f == found[t]
           s == scene[t]
           q == queue[t]
<1>1. /\ phase[t] \in Phases /\ f \in Finds /\ s \in AllScenes /\ q \in Seq(Messages)
      /\ exit[t] \in Exitings
      /\ FoundOk(phase[t], f, s) /\ QueueOk(phase[t], f, s, q) /\ AnswerOk(t \in answered, q)
      /\ discarded => Quiet(phase[t], exit[t], q)
  BY AtTab
<1>2. /\ 1 \in DOMAIN q /\ q[1].kind = "store" /\ queue' = [queue EXCEPT ![t] = RemoveAt(@, 1)]
      /\ record' = [scene |-> q[1].scene, pending |-> TRUE] /\ unsynced' = q[1].scene /\ writer' = t
      /\ phase[t] \in Running
      /\ UNCHANGED <<phase, found, scene, exit, answered, discarded>>
  BY DEF StoreLocal, Startable, pageVars, Alive, Running
<1>3. q # <<>> BY <1>2
<1>4. TabStep(t, phase[t], f, s, exit[t], Tail(q))
  <2>1. queue' = [queue EXCEPT ![t] = Tail(q)] BY <1>1, <1>2, <1>3, WithoutFirst
  <2> QED BY <1>2, <2>1, SamePage DEF DraftInv, TabStep
<1> HIDE DEF f, s, q
<1>5. q[1] \in Messages /\ Tail(q) \in Seq(Messages) BY <1>1, <1>3, TailOf
<1>6. t \notin answered /\ ~discarded BY <1>1, <1>2 DEF AnswerOk, Quiet
<1>7. AnswerOk(t \in answered', Tail(q)) BY <1>2, <1>6 DEF AnswerOk
<1>8. QueueOk(phase[t], f, s, Tail(q)) BY <1>1, <1>2, <1>3, QueueLess
<1>9. PageShape' BY <1>1, <1>4, <1>5, TabStepShape DEF DraftInv
<1>10. PagesOk' BY <1>1, <1>2, <1>4, <1>5, <1>7, <1>8, TabStepPages DEF DraftInv
<1>11. DiscardOk' BY <1>2, <1>6 DEF DiscardOk
<1>12. q[1].scene \in AllScenes BY <1>5 DEF Messages
<1>13. record' \in Records BY <1>2, <1>12 DEF Records
<1>14. StoreShape' BY <1>2, <1>12, <1>13 DEF DraftInv, StoreShape, Kept
<1>15. Carries(phase[t], f, s, Tail(q), q[1].scene)
  <2>1. Covers(s, q[1].scene) BY <1>1, <1>2 DEF QueueOk
  <2>2. \A i \in DOMAIN Tail(q) : Covers(Tail(q)[i].scene, q[1].scene)
    BY <1>1, <1>2, <1>3, TailOf DEF QueueOk
  <2> QED BY <1>2, <2>1, <2>2 DEF Carries, Loading, Running
<1>16. UnsyncedOk'
  <2>1. Pending(record') /\ Covers(record'.scene, unsynced')
    BY <1>2, <1>12, <1>13, CoversItself, DraftAssumption DEF Pending
  <2>2. Carries(phase'[t], found'[t], scene'[t], queue'[t], unsynced')
    <3>1. phase'[t] = phase[t] /\ found'[t] = f /\ scene'[t] = s /\ queue'[t] = Tail(q)
      BY <1>4 DEF TabStep, DraftInv, PageShape
    <3> QED BY <1>2, <1>15, <3>1
  <2> QED BY <1>2, <2>1, <2>2 DEF UnsyncedOk
<1> QED BY <1>9, <1>10, <1>11, <1>14, <1>16 DEF DraftInv

\* handleSyncToServer: if the page itself stored what is not synced, its PUT
\* covers it; if another tab did, the record has become this page's.
LEMMA RecordPutInv == ASSUME DraftInv, NEW t \in Tabs, RecordPut(t) PROVE DraftInv'
<1> DEFINE f == found[t]
           s == scene[t]
           q == queue[t]
<1>1. /\ phase[t] \in Phases /\ f \in Finds /\ s \in AllScenes /\ q \in Seq(Messages)
      /\ exit[t] \in Exitings
      /\ FoundOk(phase[t], f, s) /\ QueueOk(phase[t], f, s, q) /\ AnswerOk(t \in answered, q)
      /\ unsynced # NoScene /\ writer = t => Carries(phase[t], f, s, q, unsynced)
      /\ discarded => Quiet(phase[t], exit[t], q)
  BY AtTab
<1>2. /\ t \in answered /\ queue' = [queue EXCEPT ![t] = Tail(@)] /\ answered' = answered \ {t}
      /\ record' = [scene |-> Head(q).scene, pending |-> FALSE]
      /\ IF unsynced # NoScene /\ (Covers(Head(q).scene, unsynced) \/ writer # t)
         THEN Forget ELSE UNCHANGED <<unsynced, writer>>
      /\ phase[t] \in Running
      /\ UNCHANGED <<phase, found, scene, exit, discarded>>
  BY DEF RecordPut, pageVars, Alive, Running
<1>3. TabStep(t, phase[t], f, s, exit[t], Tail(q)) BY <1>2, SamePage DEF DraftInv, TabStep
<1> HIDE DEF f, s, q
<1>4. q # <<>> BY <1>1, <1>2 DEF AnswerOk
<1>5. Head(q) = q[1] /\ q[1] \in Messages /\ Tail(q) \in Seq(Messages) /\ 1 \in DOMAIN q
  BY <1>1, <1>4, TailOf
<1>6. unsynced' = NoScene /\ writer' \in Tabs \cup {NoTab}
  <2>1. unsynced # NoScene /\ writer = t => Covers(Head(q).scene, unsynced)
    BY <1>1, <1>5 DEF Carries
  <2> QED BY <1>2, <2>1 DEF Forget, DraftInv, StoreShape
<1>7. AnswerOk(t \in answered', Tail(q)) BY <1>2 DEF AnswerOk
<1>8. QueueOk(phase[t], f, s, Tail(q)) BY <1>1, <1>2, <1>4, QueueLess
<1>9. PageShape' BY <1>1, <1>3, <1>5, TabStepShape DEF DraftInv
<1>10. PagesOk' BY <1>1, <1>2, <1>3, <1>5, <1>7, <1>8, TabStepPages DEF DraftInv
<1>11. discarded => ~Pending(record') /\ Quiet(phase[t], exit[t], Tail(q))
  BY <1>1, <1>2, <1>4, QuietLess DEF Pending
<1>12. DiscardOk' BY <1>1, <1>2, <1>3, <1>5, <1>11, TabStepDiscard DEF DraftInv
<1>13. record' \in Records BY <1>2, <1>5 DEF Records, Messages
<1>14. StoreShape' BY <1>2, <1>6, <1>13 DEF DraftInv, StoreShape, Kept
<1> QED BY <1>6, <1>9, <1>10, <1>12, <1>14 DEF DraftInv, UnsyncedOk

\* clearPendingLocalChanges: nothing is pending, and if the page is alone and
\* its worker idle nothing is about to be.
LEMMA ClearPendingInv == ASSUME DraftInv, NEW t \in Tabs, ClearPending(t) PROVE DraftInv'
<1>1. /\ phase[t] \in Phases /\ found[t] \in Finds /\ scene[t] \in AllScenes /\ queue[t] \in Seq(Messages)
      /\ FoundOk(phase[t], found[t], scene[t]) /\ QueueOk(phase[t], found[t], scene[t], queue[t])
      /\ AnswerOk(t \in answered, queue[t])
  BY AtTab
<1>2. /\ exit' = [exit EXCEPT ![t] = "cleared"]
      /\ record' = IF record = NoRecord THEN record ELSE [record EXCEPT !.pending = FALSE]
      /\ unsynced' = NoScene /\ writer' = NoTab
      /\ discarded' = (Alone(t) /\ phase[t] = "open" /\ queue[t] = <<>>)
      /\ UNCHANGED <<phase, found, scene, queue, answered>>
  BY DEF ClearPending, Forget
<1>3. TabStep(t, phase[t], found[t], scene[t], "cleared", queue[t])
  BY <1>2, SamePage DEF DraftInv, TabStep
<1>4. "cleared" \in Exitings /\ DOMAIN <<>> = {} BY DEF Exitings
<1>5. AnswerOk(t \in answered', queue[t]) BY <1>1, <1>2
<1>6. PageShape' BY <1>1, <1>3, <1>4, TabStepShape DEF DraftInv
<1>7. PagesOk' BY <1>1, <1>2, <1>3, <1>4, <1>5, TabStepPages DEF DraftInv
<1>8. record' \in Records \cup {NoRecord} /\ ~Pending(record')
  <2>1. record \in Records \cup {NoRecord} BY DEF DraftInv, StoreShape
  <2> QED BY <1>2, <2>1 DEF Records, Pending
<1>9. StoreShape'
  <2>1. discarded' \in BOOLEAN BY <1>2
  <2> QED BY <1>2, <1>8, <2>1 DEF DraftInv, StoreShape, Kept
<1>10. ASSUME discarded', NEW u \in Tabs PROVE Quiet(phase'[u], exit'[u], queue'[u])
  <2>1. Alone(t) /\ phase[t] = "open" /\ queue[t] = <<>> BY <1>2, <1>10
  <2>2. CASE u = t
    <3>1. exit'[t] = "cleared" BY <1>2 DEF DraftInv, PageShape
    <3> QED BY <1>2, <1>4, <2>1, <2>2, <3>1 DEF Quiet, Loading
  <2>3. CASE u # t
    <3>1. phase[u] = "closed" BY <2>1, <2>3 DEF Alone
    <3>2. queue[u] = <<>> BY <3>1, AtTab DEF QueueOk, Running
    <3> QED BY <1>2, <1>4, <3>1, <3>2 DEF Quiet, Loading
  <2> QED BY <2>2, <2>3
<1>11. DiscardOk' BY <1>8, <1>10 DEF DiscardOk
<1> QED BY <1>2, <1>6, <1>7, <1>9, <1>11 DEF DraftInv, UnsyncedOk

-----------------------------------------------------------------------------
(***************************************************************************)
(* Every step, and what follows.                                           *)
(***************************************************************************)
\* The board, as the pages leave it, is a scene or none.
LEMMA BoardStep ==
    ASSUME BoardShape, DraftInv, DraftNext
    PROVE  BoardShape'
<1>1. \A t \in Tabs : scene[t] \in AllScenes BY AtTab
<1>2. ASSUME NEW t \in Tabs, queue[t] # <<>> PROVE Head(queue[t]).scene \in AllScenes
  BY <1>2, AtTab, TailOf DEF Messages
<1>3. ASSUME NEW t \in Tabs, Load(t) PROVE BoardShape'
  BY <1>3 DEF Load, Open, Fetch, Resolve, BoardShape, boardVars
<1>4. ASSUME NEW t \in Tabs, Page(t) PROVE BoardShape'
  <2>1. CASE Edit(t) BY <2>1 DEF Edit, BoardShape, boardVars
  <2>2. CASE Hear(t) \/ SyncLocal(t) \/ SyncServer(t)
    BY <2>2 DEF Hear, SyncLocal, SyncServer, BoardShape, boardVars
  <2>3. CASE Close(t) BY <1>1, <2>3 DEF Close, BoardShape, Kept
  <2>4. CASE Gone(t) BY <1>2, <2>4 DEF Gone, Putting, BoardShape
  <2> QED BY <1>4, <2>1, <2>2, <2>3, <2>4 DEF Page
<1>5. ASSUME NEW t \in Tabs, Worker(t) PROVE BoardShape'
  <2>1. CASE StoreLocal(t) \/ RecordPut(t)
    BY <2>1 DEF StoreLocal, RecordPut, BoardShape, boardVars, pageVars
  <2>2. CASE ServePut(t) \/ FailPut(t)
    BY <1>2, <2>2 DEF ServePut, FailPut, Putting, BoardShape, Kept, pageVars
  <2> QED BY <1>5, <2>1, <2>2 DEF Worker
<1>6. ASSUME NEW t \in Tabs, Exits(t) PROVE BoardShape'
  <2>1. CASE Learn(t) BY <2>1 DEF Learn, BoardShape, boardVars
  <2>2. CASE ClickReload(t) \/ OnReloadRequired(t) \/ ClearPending(t)
    BY <2>2 DEF ClickReload, OnReloadRequired, ClearPending, BoardShape, boardVars
  <2>3. CASE ResolveReload(t) BY <2>3 DEF ResolveReload, DropScene, BoardShape, Kept
  <2>4. CASE Overwrite(t) BY <2>4 DEF Overwrite, BoardShape
  <2> QED BY <1>6, <2>1, <2>2, <2>3, <2>4 DEF Exits
<1>7. CASE Stray BY <1>7 DEF Stray, BoardShape, Kept, pageVars
<1>8. CASE Stranger BY <1>8, EmptyIsScene DEF Stranger, BoardShape, Kept, pageVars
<1>9. CASE OthersSave
  <2>1. IF retained = NoScene THEN EmptyScene \in AllScenes ELSE retained \in AllScenes
    BY EmptyIsScene DEF BoardShape, Kept
  <2> QED BY <1>9, <2>1, EditedCovers DEF OthersSave, BoardShape, Kept, pageVars
<1>10. CASE OthersResolve BY <1>10 DEF OthersResolve, DropScene, BoardShape, Kept
<1> QED BY <1>3, <1>4, <1>5, <1>6, <1>7, <1>8, <1>9, <1>10 DEF DraftNext

\* Nothing is stored and no page is open at first.
LEMMA DraftAtFirst == DraftInit => BoardShape /\ DraftInv
<1> SUFFICES ASSUME DraftInit PROVE BoardShape /\ DraftInv OBVIOUS
<1>1. spare \in Nat BY DraftAssumption DEF DraftInit
<1>2. BoardShape BY <1>1 DEF DraftInit, BoardShape, Kept
<1>3. <<>> \in Seq(Messages) /\ DOMAIN <<>> = {} BY EmptySeq
<1>4. PageShape
  BY <1>3, NothingIsFound, EmptyIsScene DEF DraftInit, PageShape, Phases
<1>5. StoreShape BY DEF DraftInit, StoreShape, Kept
<1>6. ASSUME NEW t \in Tabs
      PROVE  /\ FoundOk(phase[t], found[t], scene[t])
             /\ QueueOk(phase[t], found[t], scene[t], queue[t])
             /\ AnswerOk(t \in answered, queue[t])
  <2>1. phase[t] = "closed" /\ queue[t] = <<>> /\ t \notin answered BY DEF DraftInit
  <2> QED BY <1>3, <2>1 DEF FoundOk, QueueOk, AnswerOk
<1>7. PagesOk BY <1>6 DEF PagesOk
<1> QED BY <1>2, <1>4, <1>5, <1>7 DEF DraftInit, DraftInv, UnsyncedOk, DiscardOk

\* The steps of a load.
LEMMA LoadInv == ASSUME BoardShape, DraftInv, NEW t \in Tabs, Load(t) PROVE DraftInv'
BY OpenInv, FetchInv, ResolveInv DEF Load

\* The steps of a page.
LEMMA PageInv == ASSUME BoardShape, DraftInv, NEW t \in Tabs, Page(t) PROVE DraftInv'
<1>1. found[t] \in Finds /\ scene[t] \in AllScenes /\ exit[t] \in Exitings BY AtTab
<1>2. CASE Edit(t)
  <2>1. PICK e \in Elements : scene' = [scene EXCEPT ![t] = Edited(@, e, spare)] BY <1>2 DEF Edit
  <2>2. scene' = [scene EXCEPT ![t] = Edited(scene[t], e, spare)] BY <2>1 DEF DraftInv, PageShape
  <2>3. /\ phase[t] = "open"
        /\ UNCHANGED <<phase, found, exit, queue, answered, record, historyVars>>
    BY <1>2 DEF Edit, storeVars
  <2>4. Edited(scene[t], e, spare) \in AllScenes /\ Covers(Edited(scene[t], e, spare), scene[t])
    BY <1>1, EditedCovers DEF BoardShape
  <2> QED BY <2>2, <2>3, <2>4, SceneGrows
<1>3. CASE Hear(t)
  <2>1. PICK s \in {scene[u] : u \in Tabs} \cup ({retained} \ {NoScene}) :
            scene' = [scene EXCEPT ![t] = Merge(@, s)]
    BY <1>3 DEF Hear
  <2>2. s \in AllScenes BY AtTab DEF BoardShape, Kept
  <2>3. scene' = [scene EXCEPT ![t] = Merge(scene[t], s)] BY <2>1 DEF DraftInv, PageShape
  <2>4. /\ phase[t] = "open"
        /\ UNCHANGED <<phase, found, exit, queue, answered, record, historyVars>>
    BY <1>3 DEF Hear, storeVars
  <2>5. Merge(scene[t], s) \in AllScenes /\ Covers(Merge(scene[t], s), scene[t])
    BY <1>1, <2>2, MergeIsScene, MergeCovers
  <2> QED BY <2>3, <2>4, <2>5, SceneGrows
<1>4. "open" \in Running /\ "leaving" \in Running BY DEF Running
<1>5. /\ phase = [phase EXCEPT ![t] = phase[t]] /\ found = [found EXCEPT ![t] = found[t]]
  BY SamePage DEF DraftInv
<1>6. CASE SyncLocal(t)
  <2>1. /\ phase[t] = "open"
        /\ UNCHANGED <<phase, found, scene, exit, answered, record, historyVars>>
        /\ \/ exit[t] = "no" /\ queue' = [queue EXCEPT ![t] = Append(@, Message("store", t))]
           \/ UNCHANGED queue
    BY <1>6 DEF SyncLocal, MayStore, Reloading
  <2>2. CASE UNCHANGED queue BY <2>1, <2>2, ElsewhereStep
  <2> QED BY <1>1, <1>4, <1>5, <2>1, <2>2, Posting
<1>7. CASE SyncServer(t)
  <2>1. /\ phase[t] = "open"
        /\ UNCHANGED <<phase, found, scene, exit, answered, record, historyVars>>
        /\ \/ /\ exit[t] = "no" /\ found[t].confirmed
              /\ queue' = [queue EXCEPT ![t] = Append(@, Message("put", t))]
           \/ UNCHANGED queue
    BY <1>7 DEF SyncServer, MayPut, Reloading
  <2>2. CASE UNCHANGED queue BY <2>1, <2>2, ElsewhereStep
  <2> QED BY <1>1, <1>4, <1>5, <2>1, <2>2, Posting
<1>8. CASE Close(t)
  <2> DEFINE f == [found[t] EXCEPT !.local = NoRecord]
  <2>1. /\ phase[t] = "open" /\ phase' = [phase EXCEPT ![t] = "leaving"]
        /\ found' = [found EXCEPT ![t].local = NoRecord]
        /\ UNCHANGED <<scene, exit, answered, record, historyVars>>
        /\ \/ exit[t] = "no" /\ queue' = [queue EXCEPT ![t] = Append(@, Message("store", t))]
           \/ UNCHANGED queue
    BY <1>8 DEF Close, MayStore, Reloading
  <2>2. CASE UNCHANGED queue BY <2>1, <2>2, Leaving
  <2>3. found' = [found EXCEPT ![t] = f] BY <2>1 DEF DraftInv, PageShape
  <2>4. f \in Finds BY <1>1 DEF Finds
  <2> QED BY <1>4, <2>1, <2>2, <2>3, <2>4, Posting
<1> QED BY <1>2, <1>3, <1>6, <1>7, <1>8, GoneInv DEF Page

\* The steps of a worker.
LEMMA WorkerInv == ASSUME DraftInv, NEW t \in Tabs, Worker(t) PROVE DraftInv'
BY StoreLocalInv, ServePutInv, FailPutInv, RecordPutInv DEF Worker

\* The two ways out of a conflict.
LEMMA ExitsInv == ASSUME DraftInv, NEW t \in Tabs, Exits(t) PROVE DraftInv'
<1>1. CASE Learn(t) \/ Overwrite(t)
  <2>1. UNCHANGED <<phase, found, scene, exit, queue, answered, record, historyVars>>
    BY <1>1 DEF Learn, Overwrite, storeVars
  <2> QED BY <2>1, ElsewhereStep
<1>2. CASE ClickReload(t) \/ ResolveReload(t) \/ OnReloadRequired(t)
  <2>1. UNCHANGED <<phase, found, scene, queue, answered, record, historyVars>>
    BY <1>2 DEF ClickReload, ResolveReload, OnReloadRequired, storeVars
  <2>2. PICK ex \in Exitings : ex # "no" /\ exit' = [exit EXCEPT ![t] = ex]
    <3>1. exit[t] \in Exitings /\ exit \in [Tabs -> Exitings] BY AtTab DEF DraftInv, PageShape, Exitings
    <3>2. exit' = [exit EXCEPT ![t] = IF exit[t] = "no" THEN "resolved" ELSE exit[t]]
          \/ exit' = [exit EXCEPT ![t] = "resolving"] \/ exit' = [exit EXCEPT ![t] = "resolved"]
      BY <1>2, <3>1 DEF ClickReload, ResolveReload, OnReloadRequired
    <3> QED BY <3>1, <3>2 DEF Exitings
  <2> QED BY <2>1, <2>2, Reloads
<1> QED BY <1>1, <1>2, ClearPendingInv DEF Exits

\* Every step keeps the invariant.
LEMMA DraftStep ==
    ASSUME BoardShape, DraftInv, [DraftNext]_draftVars
    PROVE  BoardShape' /\ DraftInv'
<1>1. CASE UNCHANGED draftVars
  <2>1. UNCHANGED <<phase, found, scene, exit, queue, answered, record, historyVars>>
    BY <1>1 DEF draftVars, pageVars, storeVars
  <2> QED BY <1>1, <2>1, ElsewhereStep DEF draftVars, boardVars, pageVars, BoardShape
<1>2. CASE Stray \/ Stranger \/ OthersSave \/ OthersResolve
  <2>1. UNCHANGED <<phase, found, scene, exit, queue, answered, record, historyVars>>
    BY <1>2 DEF Stray, Stranger, OthersSave, OthersResolve, pageVars, storeVars
  <2>2. DraftNext BY <1>2 DEF DraftNext
  <2> QED BY <2>1, <2>2, ElsewhereStep, BoardStep
<1>3. CASE \E t \in Tabs : Load(t) \/ Page(t) \/ Worker(t) \/ Exits(t)
  <2>1. DraftNext BY <1>3 DEF DraftNext
  <2> QED BY <1>3, <2>1, BoardStep, LoadInv, PageInv, WorkerInv, ExitsInv
<1> QED BY <1>1, <1>2, <1>3 DEF DraftNext

\* The invariant of the drafts holds throughout.
LEMMA DraftIsInv == DraftSpec => [](BoardShape /\ DraftInv)
<1>1. DraftInit => BoardShape /\ DraftInv BY DraftAtFirst
<1>2. BoardShape /\ DraftInv /\ [DraftNext]_draftVars => (BoardShape /\ DraftInv)' BY DraftStep
<1> QED BY <1>1, <1>2, PTL DEF DraftSpec

\* The board, the pages, their workers and the browser's record stay in their
\* types: only a page that runs has a worker with messages, and only a PUT is
\* answered.
THEOREM DraftsAreTyped == DraftSpec => []DraftTypes
<1>1. ASSUME BoardShape, DraftInv PROVE DraftTypes
  <2>1. ASSUME NEW t \in Tabs
        PROVE  /\ phase[t] \in Phases /\ exit[t] \in Exitings /\ scene[t] \in AllScenes
               /\ ~Alive(t) => queue[t] = <<>>
               /\ t \in answered => queue[t] # <<>> /\ Head(queue[t]).kind = "put"
    <3>1. /\ phase[t] \in Phases /\ exit[t] \in Exitings /\ scene[t] \in AllScenes
          /\ queue[t] \in Seq(Messages) /\ AnswerOk(t \in answered, queue[t])
          /\ QueueOk(phase[t], found[t], scene[t], queue[t])
      BY <1>1, AtTab
    <3>2. ~Alive(t) => queue[t] = <<>> BY <3>1 DEF QueueOk, Alive, Running
    <3>3. t \in answered => queue[t] # <<>> /\ Head(queue[t]).kind = "put"
      BY <3>1, TailOf DEF AnswerOk
    <3> QED BY <3>1, <3>2, <3>3
  <2>2. record # NoRecord => record.scene \in AllScenes /\ record.pending \in BOOLEAN
    <3>1. record # NoRecord => record \in Records BY <1>1 DEF DraftInv, StoreShape
    <3> QED BY <3>1 DEF Records
  <2> QED BY <1>1, <2>1, <2>2 DEF DraftTypes, BoardShape, Phases, Exitings
<1> QED BY <1>1, DraftIsInv, PTL

\* Whatever a page of the browser stored last stays in its record and marked
\* pending until an answer of the server covers it, whichever messages fail,
\* come late or die with their page, and whatever loads write back meanwhile.
THEOREM StoredIsKept == DraftSpec => []UnsyncedStaysPending
<1>1. DraftInv => UnsyncedStaysPending BY DEF DraftInv, UnsyncedOk, Pending, UnsyncedStaysPending
<1> QED BY <1>1, DraftIsInv, PTL

\* A page that found pending edits in its load shows all of them.
THEOREM PendingIsShown == DraftSpec => []PageShowsPending
<1>1. DraftInv => PageShowsPending BY DEF DraftInv, PagesOk, FoundOk, PageShowsPending
<1> QED BY <1>1, DraftIsInv, PTL

\* Edits discarded by a page with nothing under way are not pending again.
THEOREM DiscardedIsGone == DraftSpec => []DiscardStaysDiscarded
<1>1. DraftInv => DiscardStaysDiscarded BY DEF DraftInv, DiscardOk, Pending, DiscardStaysDiscarded
<1> QED BY <1>1, DraftIsInv, PTL

-----------------------------------------------------------------------------
(***************************************************************************)
(* The pages whose load had nothing to go by, and the record they write.   *)
(***************************************************************************)
\* It takes a failed request to show an unread scene or to write it into the
\* record, and a second one to take that record for the board.
UnreadOk ==
    /\ unread \subseteq Tabs /\ failures \in Nat
    /\ unreadRecord => failures >= 1 /\ record # NoRecord
    /\ \A t \in unread :
          /\ failures >= 1
          /\ phase[t] = "reading" => found[t].local # NoRecord
          /\ phase[t] \in {"fetched", "open", "leaving"} /\ found[t].confirmed => failures >= 2

\* A load may read such a record, and the request that follows may fail too.
LEMMA LoadUnread == ASSUME DraftInv, UnreadOk, NEW t \in Tabs, Load(t) PROVE UnreadOk'
<1>1. PageShape /\ record \in Records \cup {NoRecord} BY DEF DraftInv, StoreShape
<1>2. CASE Open(t)
  <2>1. /\ found' = [found EXCEPT ![t] = [NothingFound EXCEPT !.local = record]]
        /\ phase' = [phase EXCEPT ![t] = "reading"]
        /\ unread' = IF unreadRecord THEN unread \cup {t} ELSE unread \ {t}
        /\ UNCHANGED <<unreadRecord, failures, record>>
    BY <1>2 DEF Open, storeVars
  <2>2. found'[t].local = record /\ phase'[t] = "reading" BY <1>1, <2>1 DEF PageShape, NothingFound
  <2>3. \A u \in Tabs \ {t} : found'[u] = found[u] /\ phase'[u] = phase[u] BY <1>1, <2>1 DEF PageShape
  <2> QED BY <2>1, <2>2, <2>3 DEF UnreadOk
<1>3. CASE Fetch(t)
  <2>1. /\ phase[t] = "reading" /\ phase' = [phase EXCEPT ![t] = "fetched"]
        /\ UNCHANGED <<unreadRecord, record>>
        /\ \/ /\ found' = [found EXCEPT ![t] = Resolution(Served, @.local, FALSE)]
              /\ unread' = unread \ {t} /\ UNCHANGED failures
           \/ /\ found' = [found EXCEPT ![t] = Resolution(NoScene, @.local, TRUE)]
              /\ unread' = IF found[t].local = NoRecord THEN unread \cup {t} ELSE unread
              /\ failures' = failures + 1
    BY <1>3 DEF Fetch, storeVars
  <2>2. phase'[t] = "fetched"
        /\ \A u \in Tabs \ {t} : found'[u] = found[u] /\ phase'[u] = phase[u]
    BY <1>1, <2>1 DEF PageShape
  <2>3. CASE unread' = unread \ {t} /\ UNCHANGED failures BY <2>1, <2>2, <2>3 DEF UnreadOk
  <2>4. CASE /\ found' = [found EXCEPT ![t] = Resolution(NoScene, @.local, TRUE)]
             /\ unread' = IF found[t].local = NoRecord THEN unread \cup {t} ELSE unread
             /\ failures' = failures + 1
    <3>1. found'[t] = Resolution(NoScene, found[t].local, TRUE) BY <1>1, <2>4 DEF PageShape
    <3>2. found[t].local = NoRecord => ~found'[t].confirmed
      <4>1. ~TRUE = FALSE OBVIOUS
      <4>2. Resolution(NoScene, NoRecord, TRUE)
            = [local |-> NoRecord, scene |-> EmptyScene, keep |-> "no", confirmed |-> FALSE]
        BY <4>1, Zenon DEF Resolution
      <4>3. ASSUME found[t].local = NoRecord PROVE ~found'[t].confirmed
        <5>1. found'[t] = [local |-> NoRecord, scene |-> EmptyScene, keep |-> "no", confirmed |-> FALSE]
          BY <3>1, <4>2, <4>3
        <5> QED BY <5>1
      <4> QED BY <4>3
    <3>3. found[t].local # NoRecord /\ t \in unread => failures >= 1 BY DEF UnreadOk
    <3>4. failures \in Nat /\ failures' = failures + 1 BY <2>4 DEF UnreadOk
    <3>5. ASSUME t \in unread' PROVE failures' >= 1 /\ (found'[t].confirmed => failures' >= 2)
      <4>1. CASE found[t].local = NoRecord BY <3>2, <3>4, <4>1
      <4>2. CASE found[t].local # NoRecord 
        <5>1. t \in unread BY <2>4, <3>5, <4>2
        <5>2. failures >= 1 BY <3>3, <4>2, <5>1
        <5> QED BY <3>4, <5>2
      <4> QED BY <4>1, <4>2
    <3>6. ASSUME NEW u \in unread', u # t
          PROVE  /\ failures' >= 1
                 /\ phase'[u] = "reading" => found'[u].local # NoRecord
                 /\ phase'[u] \in {"fetched", "open", "leaving"} /\ found'[u].confirmed => failures' >= 2
      <4>1. u \in unread /\ u \in Tabs BY <2>4, <3>6 DEF UnreadOk
      <4>2. found'[u] = found[u] /\ phase'[u] = phase[u] BY <2>2, <3>6, <4>1
      <4> QED BY <3>4, <4>1, <4>2 DEF UnreadOk
    <3>7. unread' \subseteq Tabs /\ failures' \in Nat /\ (unreadRecord' => failures' >= 1 /\ record' # NoRecord)
      BY <2>1, <2>4, <3>4 DEF UnreadOk
    <3> QED BY <2>2, <3>5, <3>6, <3>7 DEF UnreadOk
  <2> QED BY <2>1, <2>3, <2>4
<1>4. CASE Resolve(t)
  <2>1. /\ phase[t] = "fetched" /\ phase' = [phase EXCEPT ![t] = "open"]
        /\ found' = [found EXCEPT ![t] = [NothingFound EXCEPT
                !.confirmed = found[t].confirmed,
                !.local = IF Pending(found[t].local) THEN found[t].local ELSE NoRecord]]
        /\ UNCHANGED <<unread, failures>>
        /\ UNCHANGED <<record, unreadRecord>> \/ ~unreadRecord'
    BY <1>4 DEF Resolve
  <2>2. /\ phase'[t] = "open" /\ found'[t].confirmed = found[t].confirmed
        /\ \A u \in Tabs \ {t} : found'[u] = found[u] /\ phase'[u] = phase[u]
    BY <1>1, <2>1 DEF PageShape, NothingFound
  <2> QED BY <2>1, <2>2 DEF UnreadOk
<1> QED BY <1>2, <1>3, <1>4 DEF Load

\* A page or its worker writes the record as what its load has made of it.
LEMMA PageUnread ==
    ASSUME DraftInv, UnreadOk, NEW t \in Tabs, Page(t) \/ Worker(t)
    PROVE  UnreadOk'
<1>1. PageShape BY DEF DraftInv
<1>2. CASE Edit(t) \/ Hear(t) \/ SyncLocal(t) \/ SyncServer(t) \/ ServePut(t) \/ FailPut(t)
  <2>1. UNCHANGED <<phase, found, record, readVars>>
    BY <1>2 DEF Edit, Hear, SyncLocal, SyncServer, ServePut, FailPut, storeVars, pageVars
  <2> QED BY <2>1 DEF UnreadOk, readVars
<1>3. CASE Close(t)
  <2>1. /\ phase[t] = "open" /\ phase' = [phase EXCEPT ![t] = "leaving"]
        /\ found' = [found EXCEPT ![t].local = NoRecord] /\ UNCHANGED <<record, readVars>>
    BY <1>3 DEF Close
  <2>2. /\ phase'[t] = "leaving" /\ found'[t] = [found[t] EXCEPT !.local = NoRecord]
        /\ \A u \in Tabs \ {t} : found'[u] = found[u] /\ phase'[u] = phase[u]
    BY <1>1, <2>1 DEF PageShape
  <2>3. found'[t].confirmed = found[t].confirmed
    <3>1. found[t] \in Finds BY <1>1 DEF PageShape
    <3> QED BY <2>2, <3>1 DEF Finds
  <2> QED BY <2>1, <2>2, <2>3 DEF UnreadOk, readVars
<1>4. CASE Gone(t)
  <2>1. /\ unread' = unread \ {t} /\ UNCHANGED <<record, unreadRecord, failures>>
        /\ phase' = [phase EXCEPT ![t] = "closed"]
        /\ found' = [found EXCEPT ![t] = NothingFound]
    BY <1>4 DEF Gone
  <2>2. \A u \in Tabs \ {t} : found'[u] = found[u] /\ phase'[u] = phase[u]
    BY <1>1, <2>1 DEF PageShape
  <2> QED BY <2>1, <2>2 DEF UnreadOk
<1>5. CASE StoreLocal(t) \/ RecordPut(t)
  <2>1. /\ unreadRecord' = (t \in unread) /\ UNCHANGED <<phase, found, unread, failures>>
        /\ \E s, p : record' = [scene |-> s, pending |-> p]
    BY <1>5 DEF StoreLocal, RecordPut, pageVars
  <2>2. record' \in Records
    <3>1. CASE StoreLocal(t)
      <4>1. PICK i \in DOMAIN queue[t] : record' = [scene |-> queue[t][i].scene, pending |-> TRUE]
        BY <3>1 DEF StoreLocal, Startable
      <4>2. queue[t] \in Seq(Messages) BY AtTab
      <4>3. queue[t][i] \in Messages BY <4>2, LenProperties, ElementOfSeq
      <4> QED BY <4>1, <4>3 DEF Records, Messages
    <3>2. CASE RecordPut(t)
      <4>1. record' = [scene |-> Head(queue[t]).scene, pending |-> FALSE] /\ t \in answered
        BY <3>2 DEF RecordPut
      <4>2. Head(queue[t]).scene \in AllScenes BY <4>1, AtTab, TailOf DEF AnswerOk, Messages
      <4> QED BY <4>1, <4>2 DEF Records
    <3> QED BY <1>5, <3>1, <3>2
  <2>3. record' # NoRecord BY <2>2, DraftAssumption
  <2> QED BY <2>1, <2>3 DEF UnreadOk
<1> QED BY <1>2, <1>3, <1>4, <1>5 DEF Page, Worker

\* Nothing else writes the record but a discard, which leaves its scene.
LEMMA ExitsUnread == ASSUME DraftInv, UnreadOk, NEW t \in Tabs, Exits(t) PROVE UnreadOk'
<1>1. CASE ClearPending(t)
  <2>1. /\ record' = IF record = NoRecord THEN record ELSE [record EXCEPT !.pending = FALSE]
        /\ UNCHANGED <<phase, found, readVars>>
    BY <1>1 DEF ClearPending
  <2>2. record # NoRecord => record' # NoRecord
    <3>1. record # NoRecord => record \in Records BY DEF DraftInv, StoreShape
    <3>2. record # NoRecord => record' \in Records BY <2>1, <3>1 DEF Records
    <3> QED BY <3>2, DraftAssumption
  <2> QED BY <2>1, <2>2 DEF UnreadOk, readVars
<1>2. CASE Learn(t) \/ ClickReload(t) \/ ResolveReload(t) \/ OnReloadRequired(t) \/ Overwrite(t)
  <2>1. UNCHANGED <<phase, found, record, readVars>>
    BY <1>2 DEF Learn, ClickReload, ResolveReload, OnReloadRequired, Overwrite, storeVars
  <2> QED BY <2>1 DEF UnreadOk, readVars
<1> QED BY <1>1, <1>2 DEF Exits

\* No single failed request of a load, among any number of loads of any number
\* of tabs, lets a scene that had nothing to go by be put over the board, by
\* the tab that shows it or by way of the record it wrote.
THEOREM OneFailureIsHarmless == DraftSpec => []OneFailedLoadIsHarmless
<1>1. DraftInit => UnreadOk BY DEF DraftInit, UnreadOk
<1>2. ASSUME DraftInv, UnreadOk, [DraftNext]_draftVars PROVE UnreadOk'
  <2>1. CASE UNCHANGED draftVars
    <3>1. UNCHANGED <<phase, found, record, readVars>> BY <2>1 DEF draftVars, pageVars, storeVars
    <3> QED BY <1>2, <3>1 DEF UnreadOk, readVars
  <2>2. CASE Stray \/ Stranger \/ OthersSave \/ OthersResolve
    <3>1. UNCHANGED <<phase, found, record, readVars>>
      BY <2>2 DEF Stray, Stranger, OthersSave, OthersResolve, pageVars, storeVars
    <3> QED BY <1>2, <3>1 DEF UnreadOk, readVars
  <2>3. CASE \E t \in Tabs : Load(t) \/ Page(t) \/ Worker(t) \/ Exits(t)
    BY <1>2, <2>3, LoadUnread, PageUnread, ExitsUnread
  <2> QED BY <1>2, <2>1, <2>2, <2>3 DEF DraftNext
<1>3. ASSUME DraftInv, UnreadOk PROVE OneFailedLoadIsHarmless
  <2>1. ASSUME failures <= 1, NEW t \in unread, phase[t] \in {"open", "leaving"}
        PROVE  ~found[t].confirmed
    BY <1>3, <2>1 DEF UnreadOk
  <2>2. ASSUME failures <= 1, NEW t \in unread
        PROVE  /\ phase[t] = "open" => ~MayPut(t)
               /\ \A i \in DOMAIN queue[t] : queue[t][i].kind # "put"
    <3>1. t \in Tabs BY <1>3 DEF UnreadOk
    <3>2. QueueOk(phase[t], found[t], scene[t], queue[t]) BY <1>3, <3>1 DEF DraftInv, PagesOk
    <3>3. DOMAIN <<>> = {} OBVIOUS
    <3> QED BY <2>1, <2>2, <3>2, <3>3 DEF MayPut, QueueOk, Running
  <2> QED BY <2>2 DEF OneFailedLoadIsHarmless
<1> QED BY <1>1, <1>2, <1>3, DraftIsInv, PTL DEF DraftSpec

=============================================================================
