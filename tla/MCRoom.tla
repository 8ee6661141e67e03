------------------------------- MODULE MCRoom -------------------------------
(***************************************************************************)
(* Small instances of Room for TLC.                                        *)
(***************************************************************************)
EXTENDS Room, TLC

CONSTANTS alice, bob, a1, a2, b1, s1, s2

\* Bob has one token; alice may come back with another.
MCOwner == [t \in Tokens |-> IF t = b1 THEN bob ELSE alice]

\* Scenes are interchangeable, and so are two users with their tokens.
SceneSymmetry == Permutations({s1, s2})
UserSymmetry == {f \in Permutations({alice, bob, a1, b1}) :
                    \A t \in {a1, b1} : f[t] \in {a1, b1} /\ f[MCOwner[t]] = MCOwner[f[t]]}
=============================================================================
