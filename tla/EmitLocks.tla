------------------------------ MODULE EmitLocks ------------------------------
(***************************************************************************)
(* The emit lock of one room (internal/relay/emitlocks.go): a mutex that   *)
(* exists only while somebody holds it or waits for it.  Rooms share       *)
(* nothing but the mutex of the map, so one room is enough.                *)
(*                                                                         *)
(* lock() takes its reference under the map's mutex and locks the entry    *)
(* after it; Unlock drops the reference under the map's mutex and unlocks  *)
(* the entry after it.  Each of these four is a step.                      *)
(***************************************************************************)
EXTENDS Naturals, FiniteSets

CONSTANTS
    Callers,        \* the goroutines that lock the room: the queues of its sockets
    Entries,        \* the refcountedMutex values the service may allocate
    NoEntry

ASSUME LockConstants == NoEntry \notin Entries /\ IsFiniteSet(Callers)

VARIABLES
    entry,          \* locks[roomID], NoEntry while there is none
    refs,           \* the refs field of each entry
    locked,         \* the entries whose mutex is locked
    at,             \* where each caller is
    mine            \* the entry each caller has a reference to

emitVars == <<entry, refs, locked, at, mine>>

\* An entry nobody can reach any more may be the next one allocated.
Fresh == {e \in Entries \ {entry} : \A c \in Callers : mine[c] # e}

\* A new entry counts its first caller.
LaterReferences(e) == IF entry = NoEntry THEN 0 ELSE refs[e] + 1     \* mutant: it does not
References(e) == IF entry = NoEntry THEN 1 ELSE refs[e] + 1

TakeReference(c) ==
    /\ at[c] = "out"
    /\ entry' \in IF entry = NoEntry THEN Fresh ELSE {entry}
    /\ refs' = [refs EXCEPT ![entry'] = References(entry')]
    /\ mine' = [mine EXCEPT ![c] = entry']
    /\ at' = [at EXCEPT ![c] = "waiting"]
    /\ UNCHANGED locked

\* Mutant: the lock is not waited for.
AcquireAtOnce(c) ==
    /\ at[c] = "waiting"
    /\ locked' = locked \cup {mine[c]}
    /\ at' = [at EXCEPT ![c] = "in"]
    /\ UNCHANGED <<entry, refs, mine>>

Acquire(c) ==
    /\ at[c] = "waiting"
    /\ mine[c] \notin locked
    /\ locked' = locked \cup {mine[c]}
    /\ at' = [at EXCEPT ![c] = "in"]
    /\ UNCHANGED <<entry, refs, mine>>

LastUser(c) == entry = mine[c]                          \* mutant: whoever leaves drops it
LastReference(c) == entry = mine[c] /\ refs[mine[c]] = 1

DropReference(c) ==
    /\ at[c] = "in"
    /\ refs' = [refs EXCEPT ![mine[c]] = @ - 1]
    /\ entry' = IF LastReference(c) THEN NoEntry ELSE entry
    /\ at' = [at EXCEPT ![c] = "leaving"]
    /\ UNCHANGED <<locked, mine>>

Release(c) ==
    /\ at[c] = "leaving"
    /\ locked' = locked \ {mine[c]}
    /\ mine' = [mine EXCEPT ![c] = NoEntry]
    /\ at' = [at EXCEPT ![c] = "out"]
    /\ UNCHANGED <<entry, refs>>

EmitInit ==
    /\ entry = NoEntry
    /\ refs = [e \in Entries |-> 0]
    /\ locked = {}
    /\ at = [c \in Callers |-> "out"]
    /\ mine = [c \in Callers |-> NoEntry]

EmitNext ==
    \E c \in Callers : TakeReference(c) \/ Acquire(c) \/ DropReference(c) \/ Release(c)

EmitSpec == EmitInit /\ [][EmitNext]_emitVars

-----------------------------------------------------------------------------
EmitTypes ==
    /\ entry \in Entries \cup {NoEntry}
    /\ refs \in [Entries -> Nat]
    /\ locked \subseteq Entries
    /\ at \in [Callers -> {"out", "waiting", "in", "leaving"}]
    /\ mine \in [Callers -> Entries \cup {NoEntry}]

Holders == {c \in Callers : at[c] = "in"}

\* Two handlers never hold the room's lock at once, whichever entry each of
\* them got it through: an entry is not dropped from the map while a caller
\* still waits for its mutex.
Mutex == INSTANCE RoomMutex WITH holders <- Holders
OneHolderAtATime == Mutex!Spec

\* What the mutual exclusion rests on: a caller that waits for the lock or has
\* it refers to the entry in the map, whose count is of these callers; and the
\* mutex of an entry is locked for one caller.
Referrers == {c \in Callers : at[c] \in {"waiting", "in"}}
Locking(c) == at[c] \in {"in", "leaving"}

LockInv ==
    /\ EmitTypes
    /\ \A c \in Callers : at[c] # "out" => mine[c] # NoEntry
    /\ \A c \in Referrers : mine[c] = entry
    /\ \A c \in Callers : Locking(c) => mine[c] \in locked
    /\ \A c, d \in Callers : Locking(c) /\ Locking(d) /\ mine[c] = mine[d] => c = d
    /\ entry # NoEntry => refs[entry] = Cardinality(Referrers) /\ Referrers # {}

\* The map holds an entry exactly while somebody has the room's lock or waits
\* for it, so it does not grow with the rooms a server has ever seen.
EntryWhileReferenced == (entry # NoEntry) <=> (Referrers # {})

=============================================================================
