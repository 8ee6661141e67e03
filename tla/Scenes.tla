------------------------------- MODULE Scenes -------------------------------
(***************************************************************************)
(* Scenes of the drawing board and how two of them become one              *)
(* (web/src/utils/syncSceneData.ts). An element is known by the pair that  *)
(* decides every comparison the client makes, its version and its          *)
(* versionNonce; a scene is the pair of every element, Absent for the      *)
(* elements it lacks. A deleted element stays in the scene with a higher   *)
(* version, so deletion needs nothing of its own.                          *)
(***************************************************************************)
EXTENDS Naturals

CONSTANTS Elements, NoScene

Stamps == [version : Nat, nonce : Nat]
Absent == [version |-> 0, nonce |-> 0]
AllScenes == [Elements -> Stamps]
EmptyScene == [e \in Elements |-> Absent]
Kept == AllScenes \cup {NoScene}

ASSUME NoSceneAssumption == NoScene \notin AllScenes

\* An element is changed in the editor: the next version, a nonce of its own.
Edited(s, e, nonce) == [s EXCEPT ![e] = [version |-> @.version + 1, nonce |-> nonce]]

\* shouldDiscardRemoteElement: the local element is newer, or wins the tie of
\* two edits of one version.
Newer(local, remote) ==
    \/ local.version > remote.version
    \/ local.version = remote.version /\ local.nonce < remote.nonce

\* mergeSceneElements: element by element, what one side lacks comes from the
\* other.
Merge(local, remote) ==
    [e \in Elements |-> IF Newer(local[e], remote[e]) THEN local[e] ELSE remote[e]]

\* Nothing of the scene of is missing from, or newer than, the scene s.
Covers(s, of) == \A e \in Elements : ~Newer(of[e], s[e])

\* getIncrementalSceneElements: the elements that are not as they were last
\* sent.
Incremental(s, sent) ==
    [e \in Elements |-> IF s[e] = sent[e] THEN Absent ELSE s[e]]

=============================================================================
