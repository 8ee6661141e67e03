------------------------------ MODULE RoomMutex ------------------------------
(***************************************************************************)
(* What the emit lock of a room promises: at most one handler at a time    *)
(* changes the room's membership and tells its members about it.           *)
(***************************************************************************)
CONSTANT Callers

VARIABLE holders        \* the callers between lock() and Unlock()

Init == holders = {}

Take(c) == holders = {} /\ holders' = {c}

Give(c) == holders = {c} /\ holders' = {}

Next == \E c \in Callers : Take(c) \/ Give(c)

Spec == Init /\ [][Next]_holders

=============================================================================
