------------------------------- MODULE MCRelay -------------------------------
(***************************************************************************)
(* Instances of Relay: two users, one with a tab that can write and one    *)
(* that cannot, and the users' other tabs.                                 *)
(***************************************************************************)
EXTENDS Relay, TLC

CONSTANTS u1, u2, a, b, c, e1, e2, e3

McUsers == {u1, u2}
McSockets == {a, b, c}
McUserOf == (a :> u1) @@ (b :> u2) @@ (c :> u2)
McTwo == (a :> u1) @@ (b :> u2)
McOneUser == (b :> u2) @@ (c :> u2)
McWriters == {a, b}
EntrySymmetry == Permutations({e1, e2, e3})

=============================================================================
