----------------------------- MODULE ScenesProofs -----------------------------
(***************************************************************************)
(* What the merge of two scenes is, for any elements: the least scene that *)
(* covers both. So pages agree whatever the order in which the broadcasts  *)
(* reach them, however often they come, and an incremental broadcast is as *)
(* good as a full one.                                                     *)
(***************************************************************************)
EXTENDS Scenes, TLAPS

\* Two elements that are not newer than each other are the same one.
LEMMA NewerIsTotal ==
    ASSUME NEW a \in Stamps, NEW b \in Stamps, ~Newer(a, b), ~Newer(b, a)
    PROVE  a = b
<1>1. a.version = b.version /\ a.nonce = b.nonce BY DEF Newer, Stamps
<1> QED BY <1>1 DEF Stamps

\* Not to be newer is transitive.
LEMMA NewerIsTransitive ==
    ASSUME NEW a \in Stamps, NEW b \in Stamps, NEW c \in Stamps, ~Newer(a, b), ~Newer(b, c)
    PROVE  ~Newer(a, c)
BY DEF Newer, Stamps

\* Of two elements at most one is newer.
LEMMA NewerIsAsymmetric ==
    ASSUME NEW a \in Stamps, NEW b \in Stamps, Newer(a, b)
    PROVE  ~Newer(b, a)
BY DEF Newer, Stamps

\* Scenes are compared element by element.
LEMMA SceneOf ==
    ASSUME NEW s \in AllScenes, NEW e \in Elements
    PROVE  s[e] \in Stamps
BY DEF AllScenes

\* Two scenes with the same elements are the same scene.
LEMMA SameScene ==
    ASSUME NEW s \in AllScenes, NEW t \in AllScenes, \A e \in Elements : s[e] = t[e]
    PROVE  s = t
BY DEF AllScenes

\* mergeSceneElements of two scenes is a scene.
THEOREM MergeIsScene ==
    ASSUME NEW s \in AllScenes, NEW t \in AllScenes
    PROVE  Merge(s, t) \in AllScenes
BY SceneOf DEF Merge, AllScenes

\* What mergeSceneElements keeps of an element: shouldDiscardRemoteElement.
LEMMA MergeAt ==
    ASSUME NEW s \in AllScenes, NEW t \in AllScenes, NEW e \in Elements
    PROVE  Merge(s, t)[e] = IF Newer(s[e], t[e]) THEN s[e] ELSE t[e]
BY DEF Merge

\* The merge loses nothing of either side.
THEOREM MergeCovers ==
    ASSUME NEW s \in AllScenes, NEW t \in AllScenes
    PROVE  Covers(Merge(s, t), s) /\ Covers(Merge(s, t), t)
<1> SUFFICES ASSUME NEW e \in Elements
             PROVE  ~Newer(s[e], Merge(s, t)[e]) /\ ~Newer(t[e], Merge(s, t)[e])
  BY DEF Covers
<1>1. s[e] \in Stamps /\ t[e] \in Stamps BY SceneOf
<1>2. ~Newer(s[e], s[e]) /\ ~Newer(t[e], t[e]) BY <1>1 DEF Newer, Stamps
<1> QED BY <1>1, <1>2, MergeAt, NewerIsAsymmetric

\* The merge invents nothing: whatever covers both sides covers it.
THEOREM MergeIsLeast ==
    ASSUME NEW s \in AllScenes, NEW t \in AllScenes, NEW u \in AllScenes,
           Covers(u, s), Covers(u, t)
    PROVE  Covers(u, Merge(s, t))
BY MergeAt DEF Covers

\* Two scenes that cover each other are the same scene.
THEOREM CoversIsAntisymmetric ==
    ASSUME NEW s \in AllScenes, NEW t \in AllScenes, Covers(s, t), Covers(t, s)
    PROVE  s = t
<1>1. \A e \in Elements : s[e] = t[e] BY SceneOf, NewerIsTotal DEF Covers
<1> QED BY <1>1, SameScene

\* A page that has all another has, has all that one has of a third.
THEOREM CoversIsTransitive ==
    ASSUME NEW s \in AllScenes, NEW t \in AllScenes, NEW u \in AllScenes,
           Covers(u, t), Covers(t, s)
    PROVE  Covers(u, s)
BY SceneOf, NewerIsTransitive DEF Covers

\* Two pages that merge each other's scene show the same one.
THEOREM MergeCommutes ==
    ASSUME NEW s \in AllScenes, NEW t \in AllScenes
    PROVE  Merge(s, t) = Merge(t, s)
<1>1. Merge(s, t) \in AllScenes /\ Merge(t, s) \in AllScenes BY MergeIsScene
<1>2. Covers(Merge(s, t), Merge(t, s)) BY <1>1, MergeCovers, MergeIsLeast
<1>3. Covers(Merge(t, s), Merge(s, t)) BY <1>1, MergeCovers, MergeIsLeast
<1> QED BY <1>1, <1>2, <1>3, CoversIsAntisymmetric

\* The order in which broadcasts are merged is of no account.
THEOREM MergeAssociates ==
    ASSUME NEW s \in AllScenes, NEW t \in AllScenes, NEW u \in AllScenes
    PROVE  Merge(Merge(s, t), u) = Merge(s, Merge(t, u))
<1> DEFINE left == Merge(Merge(s, t), u)
           right == Merge(s, Merge(t, u))
<1>1. Merge(s, t) \in AllScenes /\ Merge(t, u) \in AllScenes BY MergeIsScene
<1>2. left \in AllScenes /\ right \in AllScenes BY <1>1, MergeIsScene
<1> HIDE DEF left, right
<1>3. Covers(left, Merge(s, t)) /\ Covers(left, u) BY <1>1, MergeCovers DEF left
<1>4. Covers(right, s) /\ Covers(right, Merge(t, u)) BY <1>1, MergeCovers DEF right
<1>5. Covers(left, s) /\ Covers(left, t)
  BY <1>1, <1>2, <1>3, MergeCovers, CoversIsTransitive
<1>6. Covers(right, t) /\ Covers(right, u)
  BY <1>1, <1>2, <1>4, MergeCovers, CoversIsTransitive
<1>7. Covers(left, right)
  <2>1. Covers(left, Merge(t, u)) BY <1>2, <1>3, <1>5, MergeIsLeast
  <2> QED BY <2>1, <1>1, <1>2, <1>5, MergeIsLeast DEF right
<1>8. Covers(right, left)
  <2>1. Covers(right, Merge(s, t)) BY <1>2, <1>4, <1>6, MergeIsLeast
  <2> QED BY <2>1, <1>1, <1>2, <1>6, MergeIsLeast DEF left
<1>9. left = right BY <1>2, <1>7, <1>8, CoversIsAntisymmetric
<1> QED BY <1>9 DEF left, right

\* A broadcast that comes twice changes nothing the second time.
THEOREM MergeIsIdempotent ==
    ASSUME NEW s \in AllScenes, NEW t \in AllScenes
    PROVE  Merge(Merge(s, t), t) = Merge(s, t)
<1>1. Merge(s, t) \in AllScenes BY MergeIsScene
<1>2. Merge(Merge(s, t), t) \in AllScenes BY <1>1, MergeIsScene
<1>3. Covers(Merge(s, t), Merge(s, t))
  <2> SUFFICES ASSUME NEW e \in Elements
               PROVE  ~Newer(Merge(s, t)[e], Merge(s, t)[e])
    BY DEF Covers
  <2>1. Merge(s, t)[e] \in Stamps BY <1>1, SceneOf
  <2> QED BY <2>1 DEF Newer, Stamps
<1>4. Covers(Merge(s, t), Merge(Merge(s, t), t)) BY <1>1, <1>3, MergeCovers, MergeIsLeast
<1>5. Covers(Merge(Merge(s, t), t), Merge(s, t)) BY <1>1, MergeCovers
<1> QED BY <1>1, <1>2, <1>4, <1>5, CoversIsAntisymmetric

\* An element a scene has is of version 1 or more.
Versioned(s) == \A e \in Elements : s[e].version = 0 => s[e] = Absent

\* getIncrementalSceneElements: a page that has what was sent before gets to
\* the same scene by the increment as by the whole scene.
THEOREM IncrementSuffices ==
    ASSUME NEW s \in AllScenes, NEW sent \in AllScenes, NEW page \in AllScenes,
           Versioned(page), Covers(page, sent)
    PROVE  Merge(page, Incremental(s, sent)) = Merge(page, s)
<1>1. Incremental(s, sent) \in AllScenes
  BY SceneOf DEF Incremental, AllScenes, Absent, Stamps
<1>2. Merge(page, Incremental(s, sent)) \in AllScenes /\ Merge(page, s) \in AllScenes
  BY <1>1, MergeIsScene
<1> SUFFICES ASSUME NEW e \in Elements
             PROVE  Merge(page, Incremental(s, sent))[e] = Merge(page, s)[e]
  BY <1>2, SameScene
<1>3. CASE s[e] # sent[e]
  <2>1. Incremental(s, sent)[e] = s[e] BY <1>3 DEF Incremental
  <2> QED BY <2>1, <1>1, MergeAt
<1>4. CASE s[e] = sent[e]
  <2>1. Incremental(s, sent)[e] = Absent BY <1>4 DEF Incremental
  <2>2. page[e] \in Stamps /\ s[e] \in Stamps /\ Absent \in Stamps
    BY SceneOf DEF Absent, Stamps
  <2>3. Newer(page[e], Absent) \/ page[e] = Absent
    BY <2>2 DEF Versioned, Newer, Absent, Stamps
  <2>4. Merge(page, Incremental(s, sent))[e] = page[e] BY <2>1, <2>3, <1>1, MergeAt
  <2>5. ~Newer(s[e], page[e]) BY <1>4 DEF Covers
  <2>6. Merge(page, s)[e] = page[e] BY <2>2, <2>5, MergeAt, NewerIsTotal
  <2> QED BY <2>4, <2>6
<1> QED BY <1>3, <1>4

\* A scene covers itself.
LEMMA CoversItself ==
    ASSUME NEW s \in AllScenes
    PROVE  Covers(s, s)
BY SceneOf DEF Covers, Newer, Stamps

\* A page without elements has a scene too.
LEMMA EmptyIsScene == EmptyScene \in AllScenes
BY DEF EmptyScene, AllScenes, Absent, Stamps

\* An edit gives an element its next version, so it covers what was there.
LEMMA EditedCovers ==
    ASSUME NEW s \in AllScenes, NEW e \in Elements, NEW n \in Nat
    PROVE  Edited(s, e, n) \in AllScenes /\ Covers(Edited(s, e, n), s)
<1>1. s[e] \in Stamps BY SceneOf
<1>2. [version |-> s[e].version + 1, nonce |-> n] \in Stamps BY <1>1 DEF Stamps
<1>3. Edited(s, e, n) \in AllScenes BY <1>2 DEF Edited, AllScenes
<1>4. \A d \in Elements : Edited(s, e, n)[d] =
          IF d = e THEN [version |-> s[e].version + 1, nonce |-> n] ELSE s[d]
  BY DEF Edited, AllScenes
<1>5. ASSUME NEW d \in Elements PROVE ~Newer(s[d], Edited(s, e, n)[d])
  <2>1. s[d] \in Stamps BY SceneOf
  <2>2. CASE d = e BY <2>2, <1>4, <2>1 DEF Newer, Stamps
  <2>3. CASE d # e BY <2>3, <1>4, <2>1 DEF Newer, Stamps
  <2> QED BY <2>2, <2>3
<1> QED BY <1>3, <1>5 DEF Covers

=============================================================================
