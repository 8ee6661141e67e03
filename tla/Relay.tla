-------------------------------- MODULE Relay --------------------------------
(***************************************************************************)
(* One room of internal/relay: the registry of its members, the election   *)
(* of its syncer, and what its sockets are told.                           *)
(*                                                                         *)
(* Every socket has a queue of tasks that run one after the other; the     *)
(* queues of different sockets run concurrently.  A task that changes the  *)
(* membership holds the room's emit lock from the change to the last emit  *)
(* about it.  An action is one call of the task: on the registry, on the   *)
(* lock, one emit, or one hook.                                            *)
(*                                                                         *)
(* A socket is used once: a client that reconnects gets another.  The      *)
(* broadcasts of scenes and cursors are forwarded and change nothing, the  *)
(* user-joined event repeats the other two: they are left out.             *)
(***************************************************************************)
EXTENDS EmitLocks, Integers, Sequences

CONSTANTS
    Users,
    UserOf,         \* UserOf[s]: the user of the session socket s was opened with
    Writers,        \* the sockets whose session claims CanWrite
    NoUser,
    MaxQueue        \* bound on the tasks waiting in one queue

Sockets == Callers

ASSUME RelayConstants ==
    /\ UserOf \in [Sockets -> Users]
    /\ Writers \subseteq Sockets
    /\ NoUser \notin Users
    /\ MaxQueue \in Nat

VARIABLES
    members,        \* rooms[roomID]: the members in join order
    syncer,         \* syncers[roomID], NoUser for ""
    conn,           \* the life of each connection; it is closed once Connected() is false
    queue,          \* the tasks waiting on each socket's queue
    joined,         \* the sockets whose state.roomID is set
    step,           \* where the task each queue is running is
    told,           \* the locals of that task: what it is going to tell
    live,           \* the hook's count: its OnJoin calls less its OnLeave calls
    room,           \* the sockets in the room of the socket.io adapter
    heard,          \* the last room-user-change each socket was sent
    belief          \* the sockets whose last sync-designate said true

registryVars == <<members, syncer>>
clientVars == <<heard, belief>>
relayVars == <<registryVars, conn, queue, joined, step, told, live, room, clientVars>>
vars == <<emitVars, relayVars>>

-----------------------------------------------------------------------------
(***************************************************************************)
(* The registry.                                                           *)
(***************************************************************************)
Elements(ms) == {ms[i] : i \in DOMAIN ms}

Without(ms, s) ==
    LET idx == CHOOSE i \in DOMAIN ms : ms[i] = s
    IN  [i \in 1 .. Len(ms) - 1 |-> IF i < idx THEN ms[i] ELSE ms[i + 1]]

SocketsOf(ms, u) == {s \in Elements(ms) : UserOf[s] = u}

\* hasSocket: a read-only socket does not count.
HasAnySocket(ms, u) == SocketsOf(ms, u) # {}             \* mutant: it does
HasSocket(ms, u) == SocketsOf(ms, u) \cap Writers # {}

\* electNext looks at the first socket of each user only.
Ranked(ms) == {i \in DOMAIN ms : \A j \in 1 .. i - 1 : UserOf[ms[j]] # UserOf[ms[i]]}
Eligible(ms) == {i \in Ranked(ms) : ms[i] \in Writers}

ElectNext(ms) ==
    IF Eligible(ms) = {} THEN NoUser
    ELSE UserOf[ms[CHOOSE i \in Eligible(ms) : \A j \in Eligible(ms) : i <= j]]

\* electSyncer: the syncer keeps the role while it holds a socket.
Elect(ms, current) ==
    IF current # NoUser /\ HasSocket(ms, current) THEN current ELSE ElectNext(ms)

\* leave re-elects, or forgets the room with its last member.
StaleSyncer(ms) == IF ms = <<>> THEN NoUser ELSE syncer      \* mutant: no election
SyncerAfter(ms) == IF ms = <<>> THEN NoUser ELSE Elect(ms, syncer)

\* The sockets that are told of an election.
Nobody(ms, next) == {}                                       \* mutant
Promoted(ms, next) == IF next = syncer THEN {} ELSE SocketsOf(ms, next)
Demoted(ms, next) == IF next = syncer THEN {} ELSE SocketsOf(ms, syncer)

-----------------------------------------------------------------------------
(***************************************************************************)
(* The connection of a socket.                                             *)
(***************************************************************************)
JoinRequested(s) ==
    /\ conn[s] = "open"
    /\ Len(queue[s]) < MaxQueue
    /\ queue' = [queue EXCEPT ![s] = Append(@, "join")]
    /\ UNCHANGED <<emitVars, registryVars, conn, joined, step, told, live, room, clientVars>>

\* The transport goroutine closes the connection: it emits "disconnecting",
\* whose handler queues the rest of itself behind what is queued already, and
\* then lets the socket go.  It is the goroutine that reads the connection's
\* packets, so no join is queued in between.
Overtaking(tasks) == <<"leave">> \o tasks                    \* mutant: the leave runs first
Queued(tasks) == Append(tasks, "leave")

Disconnecting(s) ==
    /\ conn[s] = "open"
    /\ conn' = [conn EXCEPT ![s] = "closing"]
    /\ queue' = [queue EXCEPT ![s] = Queued(@)]
    /\ UNCHANGED <<emitVars, registryVars, joined, step, told, live, room, clientVars>>

Disconnected(s) ==
    /\ conn[s] = "closing"
    /\ conn' = [conn EXCEPT ![s] = "closed"]
    /\ room' = room \ {s}
    /\ heard' = [heard EXCEPT ![s] = {}]
    /\ belief' = belief \ {s}
    /\ UNCHANGED <<emitVars, registryVars, queue, joined, step, told, live>>

-----------------------------------------------------------------------------
(***************************************************************************)
(* The tasks.                                                              *)
(***************************************************************************)
NothingTold == [roster |-> {}, isSyncer |-> {}, notSyncer |-> {}]

Goes(s, label) == step' = [step EXCEPT ![s] = label]

\* The next task of a queue asks for the room's lock, except that a leave
\* that finds no room joined has nothing to do.
NextTask(s) ==
    /\ step[s] = "idle"
    /\ queue[s] # <<>>
    /\ queue' = [queue EXCEPT ![s] = Tail(@)]
    /\ IF Head(queue[s]) = "leave" /\ s \notin joined
       THEN UNCHANGED <<step, emitVars>>
       ELSE Goes(s, Head(queue[s])) /\ TakeReference(s)
    /\ UNCHANGED <<registryVars, conn, joined, told, live, room, clientVars>>

\* A join looks again whether the socket is still there, once it has the lock.
\* Every path that has taken the lock gives it back.
CheckedKeepingLock(s) == IF conn[s] = "closed" THEN "idle" ELSE "add"     \* mutant
Checked(s) == IF conn[s] = "closed" THEN "unlock" ELSE "add"

Locked(s) ==
    /\ step[s] \in {"join", "leave"}
    /\ Acquire(s)
    /\ Goes(s, IF step[s] = "leave" THEN "remove" ELSE Checked(s))
    /\ UNCHANGED <<registryVars, conn, queue, joined, told, live, room, clientVars>>

\* registry.join; the joiner is told whether it is the syncer, and the result
\* of the election is used for nothing else.
Join(s) ==
    LET ms == Append(members, s)
        next == Elect(ms, syncer)
        isSyncer == next = UserOf[s] /\ s \in Writers
    IN
    /\ step[s] = "add"
    /\ IF s \notin Elements(members)
       THEN /\ members' = ms
            /\ syncer' = next
            /\ joined' = joined \cup {s}
            /\ room' = room \cup {s}
            /\ told' = [told EXCEPT ![s] =
                           [roster |-> Elements(ms),
                            isSyncer |-> IF isSyncer THEN {s} ELSE {},
                            notSyncer |-> IF isSyncer THEN {} ELSE {s}]]
            /\ Goes(s, "joinPresence")
       ELSE /\ Goes(s, "unlock")
            /\ UNCHANGED <<registryVars, joined, room, told>>
    /\ UNCHANGED <<emitVars, conn, queue, live, clientVars>>

\* registry.leave
Leave(s) ==
    LET ms == Without(members, s)
        next == SyncerAfter(ms)
    IN
    /\ step[s] = "remove"
    /\ members' = ms
    /\ syncer' = next
    /\ told' = [told EXCEPT ![s] = [roster |-> Elements(ms),
                                    isSyncer |-> Promoted(ms, next),
                                    notSyncer |-> Demoted(ms, next)]]
    /\ Goes(s, "onLeave")
    /\ UNCHANGED <<emitVars, conn, queue, joined, live, room, clientVars>>

\* room-user-change; a leaver is not told.
Presence(s) ==
    /\ step[s] \in {"joinPresence", "leavePresence"}
    /\ LET receivers == IF step[s] = "joinPresence" THEN room ELSE room \ {s}
       IN  heard' = [r \in Sockets |-> IF r \in receivers THEN told[s].roster ELSE heard[r]]
    /\ Goes(s, IF step[s] = "joinPresence" THEN "joinDesignate" ELSE "promote")
    /\ UNCHANGED <<emitVars, registryVars, conn, queue, joined, told, live, room, belief>>

\* sync-designate: the joiner gets one answer, an election up to two emits.
JoinDesignate(s) ==
    /\ step[s] = "joinDesignate"
    /\ belief' = (belief \cup told[s].isSyncer) \ told[s].notSyncer
    /\ Goes(s, "onJoin")
    /\ UNCHANGED <<emitVars, registryVars, conn, queue, joined, told, live, room, heard>>

Promote(s) ==
    /\ step[s] = "promote"
    /\ belief' = belief \cup told[s].isSyncer
    /\ Goes(s, "demote")
    /\ UNCHANGED <<emitVars, registryVars, conn, queue, joined, told, live, room, heard>>

Demote(s) ==
    /\ step[s] = "demote"
    /\ belief' = belief \ told[s].notSyncer
    /\ Goes(s, "unlock")
    /\ UNCHANGED <<emitVars, registryVars, conn, queue, joined, told, live, room, heard>>

\* The hooks of RoomEvents.
OnJoin(s) ==
    /\ step[s] = "onJoin"
    /\ live' = live + 1
    /\ Goes(s, "unlock")
    /\ UNCHANGED <<emitVars, registryVars, conn, queue, joined, told, room, clientVars>>

\* Mutant: the hook is called after the early return of an empty room.
UnlessLast(s) == IF told[s].roster = {} THEN live ELSE live - 1
OneLess(s) == live - 1

OnLeave(s) ==
    /\ step[s] = "onLeave"
    /\ live' = OneLess(s)
    /\ Goes(s, IF told[s].roster = {} THEN "unlock" ELSE "leavePresence")
    /\ UNCHANGED <<emitVars, registryVars, conn, queue, joined, told, room, clientVars>>

\* The deferred Unlock.
Unlock(s) ==
    /\ step[s] = "unlock"
    /\ DropReference(s)
    /\ Goes(s, "release")
    /\ UNCHANGED <<registryVars, conn, queue, joined, told, live, room, clientVars>>

Unlocked(s) ==
    /\ step[s] = "release"
    /\ Release(s)
    /\ Goes(s, "idle")
    /\ told' = [told EXCEPT ![s] = NothingTold]
    /\ UNCHANGED <<registryVars, conn, queue, joined, live, room, clientVars>>

-----------------------------------------------------------------------------
Init ==
    /\ EmitInit
    /\ members = <<>> /\ syncer = NoUser
    /\ conn = [s \in Sockets |-> "open"]
    /\ queue = [s \in Sockets |-> <<>>]
    /\ joined = {} /\ room = {} /\ belief = {}
    /\ step = [s \in Sockets |-> "idle"]
    /\ told = [s \in Sockets |-> NothingTold]
    /\ live = 0
    /\ heard = [s \in Sockets |-> {}]

\* What the task of s does next.
TaskStep(s) ==
    \/ NextTask(s)
    \/ Join(s) \/ Leave(s)
    \/ Presence(s) \/ JoinDesignate(s) \/ Promote(s) \/ Demote(s)
    \/ OnJoin(s) \/ OnLeave(s)
    \/ Unlock(s) \/ Unlocked(s)

Network(s) == JoinRequested(s) \/ Disconnecting(s) \/ Disconnected(s)

Next == \E s \in Sockets : Network(s) \/ TaskStep(s) \/ Locked(s)

Spec == Init /\ [][Next]_vars

(***************************************************************************)
(* A queue runs its tasks, a closing connection is closed, and a mutex of  *)
(* Go lets no waiter starve.                                               *)
(***************************************************************************)
Fairness ==
    \A s \in Sockets :
        /\ WF_vars(TaskStep(s))
        /\ WF_vars(Disconnected(s))
        /\ SF_vars(Locked(s))

FairSpec == Spec /\ Fairness

-----------------------------------------------------------------------------
Steps == {"idle", "join", "leave", "add", "remove", "joinPresence", "joinDesignate", "onJoin",
          "onLeave", "leavePresence", "promote", "demote", "unlock", "release"}

SocketTypes ==
    /\ conn \in [Sockets -> {"open", "closing", "closed"}]
    /\ queue \in [Sockets -> Seq({"join", "leave"})]
    /\ joined \subseteq Sockets /\ room \subseteq Sockets /\ belief \subseteq Sockets
    /\ step \in [Sockets -> Steps]
    /\ told \in [Sockets -> [roster : SUBSET Sockets, isSyncer : SUBSET Sockets,
                             notSyncer : SUBSET Sockets]]
    /\ live \in Int
    /\ heard \in [Sockets -> SUBSET Sockets]

\* Every variable stays in its type: the lock's, the registry's, the sockets'.
RelayTypes ==
    /\ EmitTypes
    /\ members \in Seq(Sockets)
    /\ syncer \in Users \cup {NoUser}
    /\ SocketTypes

Present == Elements(members)
Idle(s) == step[s] = "idle" /\ queue[s] = <<>>

\* No handler is between a change of the membership and the last emit about it.
Quiet == Holders = {}

\* A socket that is gone does not stay a member: it would be listed, elected
\* and counted for ever.
NoGhostMember == \A s \in Sockets : (conn[s] = "closed" /\ Idle(s)) => s \notin Present

\* Why there is no ghost: the leave of a socket is its last task, and a socket
\* whose leave has started is a member until registry.leave and never again.
LeaveToCome(s) ==
    \/ conn[s] = "open"
    \/ queue[s] # <<>> /\ queue[s][Len(queue[s])] = "leave"
IsLeaving(s) == step[s] \in {"leave", "remove"}

MemberInv ==
    /\ \A i, j \in DOMAIN members : members[i] = members[j] => i = j
    /\ \A s \in Sockets :
          /\ \A i \in DOMAIN queue[s] :
                queue[s][i] = "leave" => i = Len(queue[s]) /\ conn[s] # "open"
          /\ LeaveToCome(s) => (s \in Present <=> s \in joined) /\ ~IsLeaving(s)
          /\ ~LeaveToCome(s) => /\ queue[s] = <<>>
                                /\ step[s] \notin {"join", "add"}
                                /\ s \in Present <=> IsLeaving(s)

\* The syncer has a socket that can save.
SyncerCanWrite ==
    syncer # NoUser => \E s \in Present \cap Writers : UserOf[s] = syncer

\* What an election leaves, and what the next one starts from: a room without
\* a syncer has nobody electNext would take.
SyncerInv ==
    /\ members \in Seq(Sockets)
    /\ syncer \in Users \cup {NoUser}
    /\ SyncerCanWrite
    /\ syncer = NoUser => Eligible(members) = {}

\* A join elects nobody but the joiner, and takes the role from nobody: it
\* tells only the joiner, so anyone else it elected would never know.
JoinElectsOnlyJoiner ==
    [][\A s \in Sockets : (Join(s) /\ syncer' # syncer) =>
            (syncer = NoUser /\ syncer' = UserOf[s])]_vars

\* What a member was last told of who is there is who is there: emits about
\* two changes never arrive in the opposite order.
RosterIsFresh == Quiet => \A s \in Present \cap room : heard[s] = Present

\* Nobody takes itself for the syncer after another user took over.
NoStaleSyncer == Quiet => \A s \in Present \cap belief : UserOf[s] = syncer

\* The syncer knows: every socket it can save with was told so.
SyncerKnows ==
    Quiet => \A s \in Present \cap room \cap Writers : UserOf[s] = syncer => s \in belief

\* The hooks have told the room's Manager of exactly the sockets that are
\* there: its count neither drifts nor goes below zero.
LiveIsExact == Quiet => live = Len(members)

\* How far the hooks are behind the registry is a matter of where the handler
\* that has the room's lock is.
InLock == {"add", "remove", "joinPresence", "joinDesignate", "onJoin", "onLeave",
           "leavePresence", "promote", "demote", "unlock"}
Behind(s) ==
    IF step[s] \in {"joinPresence", "joinDesignate", "onJoin"} THEN 1
    ELSE IF step[s] = "onLeave" THEN -1 ELSE 0

LiveInv ==
    /\ \A s \in Sockets : /\ at[s] = "in" <=> step[s] \in InLock
                          /\ at[s] = "waiting" <=> step[s] \in {"join", "leave"}
                          /\ at[s] = "leaving" <=> step[s] = "release"
    /\ LiveIsExact
    /\ \A s \in Holders : live + Behind(s) = Len(members)

\* A join is answered, and a socket that is gone leaves, whatever the queues
\* of the other sockets wait for.
JoinAnswered ==
    \A s \in Sockets : (step[s] = "join") ~> (s \in Present \/ conn[s] # "open")
GoneLeaves == \A s \in Sockets : conn[s] = "closed" ~> s \notin Present

\* electSyncer: "the earliest joined CanWrite member takes over, or the room
\* goes syncer-less when no CanWrite member remains".
SyncerWhileWriters == (Quiet /\ Present \cap Writers # {}) => syncer # NoUser

=============================================================================
