------------------------------- MODULE Replicas -------------------------------
(***************************************************************************)
(* Several replicas of the service and one file (internal/peers): who      *)
(* takes a request, by what each replica last heard of DNS, and what the   *)
(* rooms of two replicas that both took requests do to the file. One       *)
(* request at a time, the PUT of a scene; a socket's handshake passes the  *)
(* same two gates. Every request carries its room hint, as the frontend's  *)
(* do.                                                                     *)
(*                                                                         *)
(* A room is what Room makes of it, without its lock, which is no obstacle *)
(* between replicas: its value is a function of the file. A conflict is    *)
(* kept for ever; Room models the ways out.                                *)
(***************************************************************************)
EXTENDS Naturals, FiniteSets

CONSTANTS Replicas,
          Rank,         \* the rendezvous scores of the file, which differ
          MaxScore,     \* the greatest score there can be, 2^64 - 1
          MaxPosts,     \* scenes, in the order in which they are put
          MaxTroubles   \* changes of the DNS answer, restarts, lost replies

ASSUME ReplicaConstants ==
    /\ Replicas # {}
    /\ MaxScore \in Nat /\ Rank \in [Replicas -> 0 .. MaxScore]
    /\ \A p, q \in Replicas : Rank[p] = Rank[q] => p = q
    /\ MaxPosts \in Nat /\ MaxTroubles \in Nat

VARIABLES
    ready,      \* the replicas DNS names
    snapshot,   \* what each replica last heard of them
    inbound,    \* the request under way or last answered
    rooms,      \* each replica's room of the file
    file,       \* the host's file
    posts, troublesLeft,
    steady      \* history: the views agreed when the request was sent, and since

replicaVars == <<ready, snapshot, inbound, rooms, file, posts, troublesLeft, steady>>

-----------------------------------------------------------------------------
NoRoom == [scene |-> 0, dirty |-> FALSE, body |-> 0, expected |-> 0, conflict |-> FALSE]
Inbound(step, r, hopped) == [step |-> step, at |-> r, hopped |-> hopped]

\* rendezvousOwner
Rendezvous(peers) == CHOOSE p \in peers : \A q \in peers : Rank[q] <= Rank[p]

\* Mutant: a replica DNS does not name yet serves by itself.
OwnerOnceReady(r) == IF r \notin snapshot[r] THEN r ELSE Rendezvous(snapshot[r])
\* Owner: a replica that has heard nothing serves by itself.
Owner(r) == IF snapshot[r] = {} THEN r ELSE Rendezvous(snapshot[r])
IsSelf(r) == Owner(r) = r

Agreed(views) == \A p, q \in Replicas : views[p] = views[q] /\ views[p] # {}

UnlessViewsChange == steady' = (steady /\ snapshot' = snapshot)

TroubleIn == troublesLeft > 0 /\ troublesLeft' = troublesLeft - 1

-----------------------------------------------------------------------------
(***************************************************************************)
(* Discovery (dns.go).                                                     *)
(***************************************************************************)
\* Replicas become ready, or cease to be.
Move ==
    /\ TroubleIn
    /\ ready' \in SUBSET Replicas /\ ready' # ready
    /\ UNCHANGED <<snapshot, inbound, rooms, file, posts, steady>>

\* resolveOnce: a name without addresses is a lookup error, which changes
\* nothing.
ResolveOnce(r) ==
    /\ ready # {}
    /\ snapshot' = [snapshot EXCEPT ![r] = ready]
    /\ UnlessViewsChange
    /\ UNCHANGED <<ready, inbound, rooms, file, posts, troublesLeft>>

\* A process ends and another takes its place, with nothing in its memory.
Restart(r) ==
    /\ TroubleIn
    /\ snapshot' = [snapshot EXCEPT ![r] = {}]
    /\ rooms' = [rooms EXCEPT ![r] = NoRoom]
    /\ inbound' = IF inbound.at = r THEN Inbound("failed", r, FALSE) ELSE inbound
    /\ UnlessViewsChange
    /\ UNCHANGED <<ready, file, posts>>

-----------------------------------------------------------------------------
(***************************************************************************)
(* A request (middleware.go, authenticate of boardapi.go).                 *)
(***************************************************************************)
Ended == inbound.step \in {"stored", "misdirected", "failed"}

Steps(step) == /\ inbound' = [inbound EXCEPT !.step = step]
               /\ UNCHANGED <<ready, snapshot, file, posts, troublesLeft, steady>>

\* A client's request comes in at any replica.
Send(r) ==
    /\ Ended
    /\ posts < MaxPosts /\ posts' = posts + 1
    /\ inbound' = Inbound("route", r, FALSE)
    /\ steady' = Agreed(snapshot)
    /\ UNCHANGED <<ready, snapshot, rooms, file, troublesLeft>>

\* Middleware: the owner serves the request.
Route ==
    /\ inbound.step = "route"
    /\ Steps(IF IsSelf(inbound.at) THEN "authenticate" ELSE "forward")
    /\ UNCHANGED rooms

\* Middleware reads the snapshot anew for the target. A request that has been
\* forwarded is not forwarded again.
Forward ==
    /\ inbound.step = "forward"
    /\ \/ inbound.hopped /\ inbound' = [inbound EXCEPT !.step = "misdirected"]
       \/ ~inbound.hopped /\ inbound' = Inbound("route", Owner(inbound.at), TRUE)
       \/ ~inbound.hopped /\ inbound' = [inbound EXCEPT !.step = "failed"]
    /\ UNCHANGED <<ready, snapshot, rooms, file, posts, troublesLeft, steady>>

\* authenticate asks again.
Authenticate ==
    /\ inbound.step = "authenticate"
    /\ Steps(IF IsSelf(inbound.at) THEN "store" ELSE "misdirected")
    /\ UNCHANGED rooms

\* PutScene
StoreScene ==
    /\ inbound.step = "store"
    /\ rooms' = [rooms EXCEPT ![inbound.at].scene = posts, ![inbound.at].dirty = TRUE]
    /\ Steps("stored")

-----------------------------------------------------------------------------
(***************************************************************************)
(* The rooms of the replicas (save.go).                                    *)
(***************************************************************************)
Changes(r, room) ==
    /\ rooms' = [rooms EXCEPT ![r] = room]
    /\ UNCHANGED <<ready, snapshot, inbound, posts, steady>>

\* performSave takes the scene and goes to the host, with a lock that another
\* replica may as well hold.
BeginSave(r) ==
    /\ rooms[r].dirty /\ ~rooms[r].conflict /\ rooms[r].body = 0
    /\ Changes(r, [rooms[r] EXCEPT !.body = rooms[r].scene])
    /\ UNCHANGED <<file, troublesLeft>>

\* recordSaveSuccess
Recorded(room, version) ==
    [room EXCEPT !.body = 0, !.expected = version, !.dirty = room.scene # room.body]

\* PutFile is served and answered; its answer is lost; or it fails.
PutFile(r) ==
    LET room == rooms[r]
        written == [scene |-> room.body, version |-> file.version + 1]
    IN  /\ room.body # 0
        /\ \/ file' = written /\ Changes(r, Recorded(room, written.version))
              /\ UNCHANGED troublesLeft
           \/ file' = written /\ Changes(r, [room EXCEPT !.body = 0]) /\ TroubleIn
           \/ Changes(r, [room EXCEPT !.body = 0]) /\ UNCHANGED <<file, troublesLeft>>

\* Mutant: a version of someone else's is taken over.
Adopted(room) == [room EXCEPT !.expected = file.version]
\* A version other than the last one this replica wrote is a conflict.
Drifted(room) == [room EXCEPT !.conflict = TRUE]

\* checkVersion, in a pass of its own or before another save.
CheckDrift(r) ==
    /\ rooms[r].expected \notin {0, file.version}
    /\ rooms[r].body = 0 /\ ~rooms[r].conflict
    /\ Changes(r, Drifted(rooms[r]))
    /\ UNCHANGED <<file, troublesLeft>>

\* The room is closed, or collected.
DropRoom(r) ==
    /\ rooms[r] # NoRoom /\ ~rooms[r].dirty
    /\ Changes(r, NoRoom)
    /\ UNCHANGED <<file, troublesLeft>>

-----------------------------------------------------------------------------
ReplicaInit ==
    /\ ready = {} /\ snapshot = [r \in Replicas |-> {}]
    /\ inbound = Inbound("failed", CHOOSE r \in Replicas : TRUE, FALSE)
    /\ rooms = [r \in Replicas |-> NoRoom]
    /\ file = [scene |-> 0, version |-> 1]
    /\ posts = 0 /\ troublesLeft = MaxTroubles /\ steady = FALSE

ReplicaNext ==
    \/ Move \/ Route \/ Forward \/ Authenticate \/ StoreScene
    \/ \E r \in Replicas :
          \/ ResolveOnce(r) \/ Restart(r) \/ Send(r)
          \/ BeginSave(r) \/ PutFile(r) \/ CheckDrift(r) \/ DropRoom(r)

ReplicaSpec == ReplicaInit /\ [][ReplicaNext]_replicaVars

-----------------------------------------------------------------------------
\* While the replicas' views agree a request is stored by the one owner they
\* name, at whichever replica it came in, one that DNS does not name
\* included: no replica keeps it, and no replica answers that they disagree.
AgreedViewsServe ==
    steady =>
        /\ inbound.step # "misdirected"
        /\ inbound.step \in {"authenticate", "store", "stored"}
              => inbound.at = Rendezvous(snapshot[inbound.at])

\* A replica whose save another one has overwritten does not take its scene
\* for the file's: it has another scene to save, is in conflict, or will find
\* the version drifted at its next check. The lock, which both hold, does not
\* keep them apart.
NoSilentLoser ==
    \A r \in Replicas :
        LET room == rooms[r]
        IN  room.scene # 0 /\ ~room.dirty /\ ~room.conflict
                => file.scene = room.scene \/ room.expected # file.version

=============================================================================
