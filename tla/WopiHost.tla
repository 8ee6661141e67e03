------------------------------ MODULE WopiHost ------------------------------
(***************************************************************************)
(* The WOPI host as this service sees it: one file with its content and    *)
(* its lock.  Every operation is a function of the file that returns the   *)
(* file after the call and the reply, translated from the reference host   *)
(* of internal/wopitest, with the status codes already classified the way  *)
(* hostadapter's MapError does.                                            *)
(*                                                                         *)
(* A version is a content hash (host.go, contentVersion), so it is         *)
(* modelled by the content itself: an identical re-put keeps the version.  *)
(***************************************************************************)

CONSTANTS
    Scenes,      \* scenes a session or a stranger can store
    Empty,       \* the content of a zero-byte file
    OurLock,     \* lockValueFor(fileID): the one value this service locks with
    OtherLocks,  \* the values other WOPI clients lock with
    NoLock       \* no lock, the empty X-WOPI-Lock header

ASSUME HostConstants ==
    /\ Empty \notin Scenes
    /\ OurLock \notin OtherLocks
    /\ NoLock \notin OtherLocks \cup {OurLock}

Contents == Scenes \cup {Empty}
Locks == OtherLocks \cup {OurLock, NoLock}

File == [content : Contents, lock : Locks]

Codes == {"none", "ok", "lockConflict", "tokenRejected", "noWriteAccess", "failed"}
Reply == [code : Codes, lock : Locks, version : Contents]

(***************************************************************************)
(* Replies.  Only a lockConflict carries a lock, only a success of PutFile *)
(* or CheckFileInfo carries a version.                                     *)
(***************************************************************************)
Answer(c) == [code |-> c, lock |-> NoLock, version |-> Empty]
NoReply == Answer("none")

Ok(f) == [file |-> f, reply |-> Answer("ok")]

WithVersion(f) ==
    [file |-> f, reply |-> [code |-> "ok", lock |-> NoLock, version |-> f.content]]

LockConflict(f) ==
    [file |-> f, reply |-> [code |-> "lockConflict", lock |-> f.lock, version |-> Empty]]

(***************************************************************************)
(* The operations.                                                         *)
(***************************************************************************)
Lock(f, new) ==
    IF f.lock \in {NoLock, new} THEN Ok([f EXCEPT !.lock = new]) ELSE LockConflict(f)

UnlockAndRelock(f, new, old) ==
    IF f.lock = old THEN Ok([f EXCEPT !.lock = new]) ELSE LockConflict(f)

RefreshLock(f, held) == IF f.lock = held THEN Ok(f) ELSE LockConflict(f)

Unlock(f, held) ==
    IF f.lock = held THEN Ok([f EXCEPT !.lock = NoLock]) ELSE LockConflict(f)

\* An unlocked put lands only on an unlocked zero-byte file; a locked put
\* must carry exactly the lock the host holds.
PutFile(f, held, body) ==
    IF f.lock = held /\ (held = NoLock => f.content = Empty)
    THEN WithVersion([f EXCEPT !.content = body])
    ELSE LockConflict(f)

CheckFileInfo(f) == WithVersion(f)

=============================================================================
