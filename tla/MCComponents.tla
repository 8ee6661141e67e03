------------------------------ MODULE MCComponents ------------------------------
(***************************************************************************)
(* The web client, the replicas and the end of a process, checked side by  *)
(* side: a behaviour is one of Drafts, of Collab, of ConflictNews, of      *)
(* Replicas or of Shutdown. They share no variable.                        *)
(***************************************************************************)
EXTENDS Drafts, Collab, ConflictNews, Replicas, Shutdown

CONSTANTS a, b, r1, r2, alice, bob, carol, e1, e2

VARIABLE part

McTabs == {a, b}
McUsers == {alice, bob, carol}
McElements == {e1, e2}

NoLoads == [t \in McTabs |-> 0]

OneTab(n, changes, mishaps) ==
    [loads : {[t \in McTabs |-> IF t = u THEN n ELSE 0] : u \in McTabs},
     edits : {changes}, troubles : {mishaps}]

\* Nothing; one tab with two loads and a trouble, or two changes and a trouble,
\* or two loads and two changes, or two loads and two troubles; two tabs of a
\* browser and one change.
McPlans ==
    {[loads |-> NoLoads, edits |-> 0, troubles |-> 0]}
    \cup OneTab(2, 1, 1) \cup OneTab(1, 2, 1) \cup OneTab(2, 2, 0)
    \cup OneTab(2, 0, 2)
    \cup {[loads |-> [t \in McTabs |-> 1], edits |-> 1, troubles |-> 0]}

\* Two users, with a change and a fault or with two changes; a user with two
\* tabs and a change.
McStarts ==
    [user : {a :> alice @@ b :> bob}, draws : {1}, faults : {1}]
    \cup [user : {a :> alice @@ b :> bob}, draws : {2}, faults : {0}]
    \cup [user : {[p \in McTabs |-> carol]}, draws : {1}, faults : {0}]

McRank == r1 :> 1 @@ r2 :> 2

\* The parts a behaviour leaves alone start in one way, a symmetric one.
Init ==
    /\ DraftInit /\ CollabInit /\ NewsInit /\ ReplicaInit /\ ShutdownInit
    /\ part \in {"drafts", "collab", "news", "replicas", "shutdown"}
    /\ part = "drafts" \/ loads = NoLoads
    /\ part = "collab" \/ (faults = 0 /\ draws = 1)

Next ==
    /\ UNCHANGED part
    /\ \/ /\ part = "drafts" /\ DraftNext
          /\ UNCHANGED <<collabVars, newsVars, replicaVars, shutdownVars>>
       \/ /\ part = "collab" /\ CollabNext
          /\ UNCHANGED <<draftVars, newsVars, replicaVars, shutdownVars>>
       \/ /\ part = "news" /\ NewsNext
          /\ UNCHANGED <<draftVars, collabVars, replicaVars, shutdownVars>>
       \/ /\ part = "replicas" /\ ReplicaNext
          /\ UNCHANGED <<draftVars, collabVars, newsVars, shutdownVars>>
       \/ /\ part = "shutdown" /\ ShutdownNext
          /\ UNCHANGED <<draftVars, collabVars, newsVars, replicaVars>>

Spec ==
    Init /\ [][Next]_<<part, draftVars, collabVars, newsVars, replicaVars, shutdownVars>>

\* The two tabs change places, with their users; so do the two elements.
Swaps ==
    {a :> b @@ b :> a @@ alice :> bob @@ bob :> alice @@ carol :> carol @@ e1 :> e1 @@ e2 :> e2,
     a :> a @@ b :> b @@ alice :> alice @@ bob :> bob @@ carol :> carol @@ e1 :> e2 @@ e2 :> e1}
Symmetry == Swaps

=============================================================================
