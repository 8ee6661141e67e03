----------------------------- MODULE RelayProofs -----------------------------
(***************************************************************************)
(* Theorems about EmitLocks and Relay, for any number of sockets, users    *)
(* and waiting tasks: the lock, the syncer, the types, who is a member of  *)
(* a room, what the hooks tell its Manager and what its sockets are told.  *)
(***************************************************************************)
EXTENDS Relay, FiniteSetTheorems, SequenceTheorems, WellFoundedInduction, TLAPS

-----------------------------------------------------------------------------
(***************************************************************************)
(* The emit lock.                                                          *)
(***************************************************************************)

\* Nobody locks a room at first.
LEMMA LockInit == EmitInit => LockInv
<1> SUFFICES ASSUME EmitInit PROVE LockInv OBVIOUS
<1>1. EmitTypes BY LockConstants DEF EmitInit, EmitTypes
<1>2. Referrers = {} BY DEF EmitInit, Referrers
<1> QED BY <1>1, <1>2 DEF EmitInit, LockInv, Locking

\* The callers that refer to an entry are finitely many.
LEMMA FiniteReferrers == IsFiniteSet(Referrers) /\ Cardinality(Referrers) \in Nat
<1>1. Referrers \in SUBSET Callers BY DEF Referrers
<1> QED BY <1>1, LockConstants, FS_Subset, FS_CardinalityType

\* lock() counts its caller before it lets go of the map.
LEMMA TakeLocks ==
    ASSUME LockInv, NEW c \in Callers, TakeReference(c)
    PROVE  LockInv'
<1>1. /\ at[c] = "out" /\ at' = [at EXCEPT ![c] = "waiting"]
      /\ mine' = [mine EXCEPT ![c] = entry'] /\ locked' = locked
      /\ refs' = [refs EXCEPT ![entry'] = References(entry')]
  BY DEF TakeReference
<1>2. entry' \in Entries /\ (entry # NoEntry => entry' = entry)
  BY DEF TakeReference, Fresh, LockInv, EmitTypes
<1>3. entry = NoEntry => \A d \in Callers : mine[d] # entry'
  BY DEF TakeReference, Fresh
<1>4. EmitTypes BY DEF LockInv
<1>5. Referrers' = Referrers \cup {c} /\ c \notin Referrers
  BY <1>1, <1>4 DEF Referrers, EmitTypes
<1>6. entry = NoEntry => Referrers = {}
  BY <1>4 DEF LockInv, Referrers
<1>7. entry # NoEntry => refs[entry] = Cardinality(Referrers)
  BY DEF LockInv
<1>8. Cardinality(Referrers') = Cardinality(Referrers) + 1
  BY <1>5, FiniteReferrers, FS_AddElement
<1>9. References(entry') = Cardinality(Referrers')
  <2>1. CASE entry = NoEntry
    BY <2>1, <1>6, <1>8, FS_EmptySet DEF References
  <2>2. CASE entry # NoEntry
    BY <2>2, <1>7, <1>8, <1>2 DEF References
  <2> QED BY <2>1, <2>2
<1>10. EmitTypes'
  <2>1. References(entry') \in Nat BY <1>9, <1>8, FiniteReferrers
  <2> QED BY <1>1, <1>2, <1>4, <2>1 DEF EmitTypes
<1>11. refs'[entry'] = Cardinality(Referrers')
  BY <1>1, <1>2, <1>4, <1>9 DEF EmitTypes
<1>12. \A d \in Referrers' : mine'[d] = entry'
  <2> SUFFICES ASSUME NEW d \in Referrers' PROVE mine'[d] = entry' OBVIOUS
  <2>1. CASE d = c BY <2>1, <1>1, <1>4 DEF EmitTypes
  <2>2. CASE d # c
    <3>1. d \in Referrers /\ d \in Callers BY <2>2, <1>5 DEF Referrers
    <3>2. mine[d] = entry /\ entry # NoEntry BY <3>1, <1>6 DEF LockInv
    <3> QED BY <2>2, <3>1, <3>2, <1>1, <1>2, <1>4 DEF EmitTypes
  <2> QED BY <2>1, <2>2
<1>13. \A d \in Callers : Locking(d)' => d # c /\ Locking(d) /\ mine'[d] = mine[d]
  BY <1>1, <1>4 DEF Locking, EmitTypes
<1>14. \A d \in Callers : at'[d] # "out" => mine'[d] # NoEntry
  BY <1>1, <1>2, <1>4, LockConstants DEF LockInv, EmitTypes
<1>15. \A d \in Callers : Locking(d)' => mine'[d] \in locked'
  BY <1>1, <1>13 DEF LockInv
<1>16. \A d, f \in Callers : Locking(d)' /\ Locking(f)' /\ mine'[d] = mine'[f] => d = f
  BY <1>13 DEF LockInv
<1> QED BY <1>5, <1>10, <1>11, <1>12, <1>14, <1>15, <1>16 DEF LockInv

\* Whoever gets the mutex gets it alone.
LEMMA AcquireLocks ==
    ASSUME LockInv, NEW c \in Callers, Acquire(c)
    PROVE  LockInv'
<1>1. /\ at[c] = "waiting" /\ mine[c] \notin locked
      /\ locked' = locked \cup {mine[c]} /\ at' = [at EXCEPT ![c] = "in"]
      /\ entry' = entry /\ refs' = refs /\ mine' = mine
  BY DEF Acquire
<1>2. EmitTypes BY DEF LockInv
<1>3. Referrers' = Referrers BY <1>1, <1>2 DEF Referrers, EmitTypes
<1>4. c \in Referrers BY <1>1 DEF Referrers
<1>5. mine[c] = entry /\ mine[c] # NoEntry BY <1>1, <1>4 DEF LockInv
<1>6. EmitTypes' BY <1>1, <1>2, <1>5 DEF EmitTypes
<1>7. \A d \in Callers : d # c => (Locking(d)' <=> Locking(d))
  BY <1>1, <1>2 DEF Locking, EmitTypes
<1>8. \A d \in Callers : d # c /\ Locking(d) => mine[d] # mine[c]
  BY <1>1 DEF LockInv
<1>9. \A d \in Callers : Locking(d)' => mine'[d] \in locked'
  BY <1>1, <1>7 DEF LockInv
<1>10. \A d, f \in Callers : Locking(d)' /\ Locking(f)' /\ mine'[d] = mine'[f] => d = f
  BY <1>1, <1>7, <1>8 DEF LockInv
<1>11. \A d \in Callers : at'[d] # "out" => mine'[d] # NoEntry
  BY <1>1, <1>2 DEF LockInv, EmitTypes
<1>12. \A d \in Referrers' : mine'[d] = entry' BY <1>1, <1>3 DEF LockInv
<1>13. entry' # NoEntry => refs'[entry'] = Cardinality(Referrers') /\ Referrers' # {}
  BY <1>1, <1>3 DEF LockInv
<1> QED BY <1>6, <1>9, <1>10, <1>11, <1>12, <1>13 DEF LockInv

\* Unlock forgets the entry with the last caller that refers to it, and then
\* nobody waits for its mutex.
LEMMA DropLocks ==
    ASSUME LockInv, NEW c \in Callers, DropReference(c)
    PROVE  LockInv'
<1>1. /\ at[c] = "in" /\ refs' = [refs EXCEPT ![mine[c]] = @ - 1]
      /\ entry' = (IF LastReference(c) THEN NoEntry ELSE entry)
      /\ at' = [at EXCEPT ![c] = "leaving"] /\ locked' = locked /\ mine' = mine
  BY DEF DropReference
<1>2. EmitTypes BY DEF LockInv
<1>3. Referrers' = Referrers \ {c} /\ c \in Referrers
  BY <1>1, <1>2 DEF Referrers, EmitTypes
<1>4. mine[c] = entry /\ entry \in Entries /\ entry # NoEntry
  BY <1>1, <1>2, <1>3 DEF LockInv, EmitTypes
<1>5. refs[entry] = Cardinality(Referrers) BY <1>4 DEF LockInv
<1>6. Cardinality(Referrers') = Cardinality(Referrers) - 1 /\ IsFiniteSet(Referrers')
  BY <1>3, FiniteReferrers, FS_RemoveElement
<1>7. Cardinality(Referrers') \in Nat BY <1>6, FS_CardinalityType
<1>8. refs'[entry] = Cardinality(Referrers') BY <1>1, <1>2, <1>4, <1>5, <1>6 DEF EmitTypes
<1>9. EmitTypes'
  <2>1. refs' \in [Entries -> Nat] BY <1>1, <1>2, <1>4, <1>7, <1>8 DEF EmitTypes
  <2> QED BY <1>1, <1>2, <2>1 DEF EmitTypes
<1>10. LastReference(c) => Referrers' = {}
  BY <1>4, <1>5, <1>6, FS_EmptySet DEF LastReference
<1>11. entry' # NoEntry => entry' = entry /\ Referrers' # {}
  <2> SUFFICES ASSUME entry' # NoEntry PROVE entry' = entry /\ Referrers' # {} OBVIOUS
  <2>1. ~LastReference(c) /\ entry' = entry BY <1>1
  <2>2. Cardinality(Referrers) # 1 BY <2>1, <1>4, <1>5 DEF LastReference
  <2>3. Cardinality(Referrers') # 0 BY <2>2, <1>6, FiniteReferrers
  <2> QED BY <2>1, <2>3, FS_EmptySet
<1>12. \A d \in Referrers' : mine'[d] = entry'
  BY <1>1, <1>3, <1>10 DEF LockInv
<1>13. \A d \in Callers : Locking(d)' <=> Locking(d)
  BY <1>1, <1>2 DEF Locking, EmitTypes
<1>14. \A d \in Callers : at'[d] # "out" => mine'[d] # NoEntry
  BY <1>1, <1>2 DEF LockInv, EmitTypes
<1>15. \A d \in Callers : Locking(d)' => mine'[d] \in locked'
  BY <1>1, <1>13 DEF LockInv
<1>16. \A d, f \in Callers : Locking(d)' /\ Locking(f)' /\ mine'[d] = mine'[f] => d = f
  BY <1>1, <1>13 DEF LockInv
<1> QED BY <1>8, <1>9, <1>11, <1>12, <1>14, <1>15, <1>16 DEF LockInv

\* The mutex is unlocked for nobody else.
LEMMA ReleaseLocks ==
    ASSUME LockInv, NEW c \in Callers, Release(c)
    PROVE  LockInv'
<1>1. /\ at[c] = "leaving" /\ locked' = locked \ {mine[c]}
      /\ mine' = [mine EXCEPT ![c] = NoEntry] /\ at' = [at EXCEPT ![c] = "out"]
      /\ entry' = entry /\ refs' = refs
  BY DEF Release
<1>2. EmitTypes BY DEF LockInv
<1>3. Referrers' = Referrers /\ c \notin Referrers BY <1>1, <1>2 DEF Referrers, EmitTypes
<1>4. EmitTypes' BY <1>1, <1>2 DEF EmitTypes
<1>5. \A d \in Callers : Locking(d)' => d # c /\ Locking(d) /\ mine'[d] = mine[d]
  BY <1>1, <1>2 DEF Locking, EmitTypes
<1>6. \A d \in Callers : d # c /\ Locking(d) => mine[d] # mine[c]
  BY <1>1 DEF LockInv, Locking
<1>7. \A d \in Callers : Locking(d)' => mine'[d] \in locked'
  BY <1>1, <1>5, <1>6 DEF LockInv
<1>8. \A d, f \in Callers : Locking(d)' /\ Locking(f)' /\ mine'[d] = mine'[f] => d = f
  BY <1>5 DEF LockInv
<1>9. \A d \in Callers : at'[d] # "out" => mine'[d] # NoEntry
  BY <1>1, <1>2 DEF LockInv, EmitTypes
<1>10. \A d \in Referrers' : mine'[d] = entry'
  BY <1>1, <1>2, <1>3 DEF LockInv, Referrers, EmitTypes
<1>11. entry' # NoEntry => refs'[entry'] = Cardinality(Referrers') /\ Referrers' # {}
  BY <1>1, <1>3 DEF LockInv
<1> QED BY <1>4, <1>7, <1>8, <1>9, <1>10, <1>11 DEF LockInv

LEMMA LockStep == LockInv /\ [EmitNext]_emitVars => LockInv'
<1> SUFFICES ASSUME LockInv, [EmitNext]_emitVars PROVE LockInv' OBVIOUS
<1>1. ASSUME NEW c \in Callers, TakeReference(c) PROVE LockInv' BY <1>1, TakeLocks
<1>2. ASSUME NEW c \in Callers, Acquire(c) PROVE LockInv' BY <1>2, AcquireLocks
<1>3. ASSUME NEW c \in Callers, DropReference(c) PROVE LockInv' BY <1>3, DropLocks
<1>4. ASSUME NEW c \in Callers, Release(c) PROVE LockInv' BY <1>4, ReleaseLocks
<1>5. CASE UNCHANGED emitVars
  <2>1. Referrers' = Referrers BY <1>5 DEF Referrers, emitVars
  <2>2. EmitTypes' BY <1>5 DEF LockInv, EmitTypes, emitVars
  <2> QED BY <1>5, <2>1, <2>2 DEF LockInv, Locking, emitVars
<1> QED BY <1>1, <1>2, <1>3, <1>4, <1>5 DEF EmitNext

\* Nobody holds the lock of a room beside a holder.
LEMMA OneHolder == LockInv => \A c, d \in Holders : c = d
BY DEF LockInv, Holders, Referrers, Locking

LEMMA TakeHolders ==
    ASSUME LockInv, NEW c \in Callers, TakeReference(c) \/ Release(c)
    PROVE  Holders' = Holders
<1>1. EmitTypes BY DEF LockInv
<1> QED BY <1>1 DEF TakeReference, Release, Holders, EmitTypes

LEMMA AcquireHolders ==
    ASSUME LockInv, NEW c \in Callers, Acquire(c)
    PROVE  Holders = {} /\ Holders' = {c}
<1>1. EmitTypes BY DEF LockInv
<1>2. at[c] = "waiting" /\ mine[c] \notin locked /\ at' = [at EXCEPT ![c] = "in"]
  BY DEF Acquire
<1>3. Holders = {}
  <2> SUFFICES ASSUME NEW d \in Callers, at[d] = "in" PROVE FALSE BY DEF Holders
  <2>1. c \in Referrers /\ d \in Referrers BY <1>2 DEF Referrers
  <2>2. mine[d] \in locked BY DEF LockInv, Locking
  <2> QED BY <1>2, <2>1, <2>2 DEF LockInv
<1> QED BY <1>1, <1>2, <1>3 DEF Holders, EmitTypes

LEMMA DropHolders ==
    ASSUME LockInv, NEW c \in Callers, DropReference(c)
    PROVE  Holders = {c} /\ Holders' = {}
<1>1. EmitTypes BY DEF LockInv
<1>2. at[c] = "in" /\ at' = [at EXCEPT ![c] = "leaving"] BY DEF DropReference
<1>3. Holders = {c} BY <1>2, OneHolder DEF Holders
<1> QED BY <1>1, <1>2, <1>3 DEF Holders, EmitTypes

\* One handler at a time: a step of the lock is a step of the mutex or none.
LEMMA LockIsMutex ==
    LockInv /\ [EmitNext]_emitVars => [Mutex!Next]_Holders
<1> SUFFICES ASSUME LockInv, [EmitNext]_emitVars PROVE [Mutex!Next]_Holders OBVIOUS
<1>1. ASSUME NEW c \in Callers, TakeReference(c) \/ Release(c) PROVE Holders' = Holders
  BY <1>1, TakeHolders
<1>2. ASSUME NEW c \in Callers, Acquire(c) PROVE Mutex!Take(c)
  BY <1>2, AcquireHolders DEF Mutex!Take
<1>3. ASSUME NEW c \in Callers, DropReference(c) PROVE Mutex!Give(c)
  BY <1>3, DropHolders DEF Mutex!Give
<1>4. CASE UNCHANGED emitVars BY <1>4 DEF emitVars, Holders
<1> QED BY <1>1, <1>2, <1>3, <1>4 DEF EmitNext, Mutex!Next

LEMMA LockInitIsMutex == EmitInit => Mutex!Init
BY DEF EmitInit, Mutex!Init, Holders

LEMMA LockInvMeans == LockInv => EntryWhileReferenced
<1> SUFFICES ASSUME LockInv PROVE EntryWhileReferenced OBVIOUS
<1>1. Referrers # {} => entry # NoEntry BY DEF LockInv, Referrers
<1> QED BY <1>1 DEF LockInv, EntryWhileReferenced

\* The emit locks of a room implement a mutex: with an entry dropped from the
\* map while a caller waits for it, the next caller would lock another one.
THEOREM EmitLocksExclude == EmitSpec => Mutex!Spec
<1>1. EmitSpec => []LockInv BY LockInit, LockStep, PTL DEF EmitSpec
<1> QED BY <1>1, LockInitIsMutex, LockIsMutex, PTL DEF EmitSpec, Mutex!Spec

-----------------------------------------------------------------------------
(***************************************************************************)
(* The relay goes through the lock by its four steps only.                 *)
(***************************************************************************)
LEMMA RelayLocks == [Next]_vars => [EmitNext]_emitVars
<1> SUFFICES ASSUME [Next]_vars PROVE [EmitNext]_emitVars OBVIOUS
<1>1. ASSUME NEW s \in Sockets, Network(s) PROVE UNCHANGED emitVars
  BY <1>1 DEF Network, JoinRequested, Disconnecting, Disconnected
<1>2. ASSUME NEW s \in Sockets, Locked(s) PROVE Acquire(s)
  BY <1>2 DEF Locked
<1>3. ASSUME NEW s \in Sockets, NextTask(s) PROVE TakeReference(s) \/ UNCHANGED emitVars
  BY <1>3 DEF NextTask
<1>4. ASSUME NEW s \in Sockets, Join(s) \/ Leave(s) PROVE UNCHANGED emitVars
  BY <1>4 DEF Join, Leave
<1>5. ASSUME NEW s \in Sockets,
             Presence(s) \/ JoinDesignate(s) \/ Promote(s) \/ Demote(s) \/ OnJoin(s) \/ OnLeave(s)
      PROVE  UNCHANGED emitVars
  BY <1>5 DEF Presence, JoinDesignate, Promote, Demote, OnJoin, OnLeave
<1>6. ASSUME NEW s \in Sockets, Unlock(s) PROVE DropReference(s)
  BY <1>6 DEF Unlock
<1>7. ASSUME NEW s \in Sockets, Unlocked(s) PROVE Release(s)
  BY <1>7 DEF Unlocked
<1>8. CASE UNCHANGED vars BY <1>8 DEF vars
<1>9. CASE Next
  <2> PICK s \in Sockets : Network(s) \/ TaskStep(s) \/ Locked(s) BY <1>9 DEF Next
  <2> QED BY <1>1, <1>2, <1>3, <1>4, <1>5, <1>6, <1>7 DEF TaskStep, EmitNext, Sockets
<1> QED BY <1>8, <1>9

\* The lock of a room, as its handlers use it, is a mutex, and the map holds
\* it no longer than somebody needs it.
THEOREM HandlersExclude == Spec => OneHolderAtATime
<1>1. Init => EmitInit BY DEF Init
<1>2. Spec => []LockInv BY <1>1, LockInit, LockStep, RelayLocks, PTL DEF Spec
<1> QED BY <1>1, <1>2, LockInitIsMutex, LockIsMutex, RelayLocks, PTL
        DEF Spec, OneHolderAtATime, Mutex!Spec

THEOREM EntriesAreDropped == Spec => []EntryWhileReferenced
<1>1. Init => EmitInit BY DEF Init
<1>2. Spec => []LockInv BY <1>1, LockInit, LockStep, RelayLocks, PTL DEF Spec
<1> QED BY <1>2, LockInvMeans, PTL

-----------------------------------------------------------------------------
(***************************************************************************)
(* The election.                                                           *)
(***************************************************************************)
LEMMA Least ==
    ASSUME NEW T \in SUBSET Nat, T # {}
    PROVE  \E i \in T : \A j \in T : i <= j
<1>1. PICK i \in T : \A j \in T : ~(<<j, i>> \in OpToRel(<, Nat))
  BY NatLessThanWellFounded, WFMin
<1>2. \A j \in T : ~(j < i) BY <1>1 DEF OpToRel
<1> QED BY <1>2

\* electNext takes the user of a socket that can write, or there is none.
LEMMA ElectNextTakes ==
    ASSUME NEW ms \in Seq(Sockets)
    PROVE  \/ Eligible(ms) = {} /\ ElectNext(ms) = NoUser
           \/ \E i \in Eligible(ms) : ElectNext(ms) = UserOf[ms[i]]
<1>1. CASE Eligible(ms) = {} BY <1>1 DEF ElectNext
<1>2. CASE Eligible(ms) # {}
  <2>1. Eligible(ms) \in SUBSET Nat BY DEF Eligible, Ranked
  <2> DEFINE Earliest(i) == \A j \in Eligible(ms) : i <= j
  <2>2. \E i \in Eligible(ms) : Earliest(i) BY <1>2, <2>1, Least
  <2>3. (CHOOSE i \in Eligible(ms) : Earliest(i)) \in Eligible(ms) BY <2>2
  <2> QED BY <1>2, <2>3 DEF ElectNext
<1> QED BY <1>1, <1>2

LEMMA EligibleSocket ==
    ASSUME NEW ms \in Seq(Sockets), NEW i \in Eligible(ms)
    PROVE  /\ i \in DOMAIN ms /\ ms[i] \in Writers /\ ms[i] \in Sockets
           /\ UserOf[ms[i]] \in Users
           /\ HasSocket(ms, UserOf[ms[i]])
<1>1. i \in DOMAIN ms /\ ms[i] \in Writers BY DEF Eligible, Ranked
<1>2. ms[i] \in Sockets BY <1>1
<1>3. ms[i] \in SocketsOf(ms, UserOf[ms[i]]) BY <1>1 DEF SocketsOf, Elements
<1> QED BY <1>1, <1>2, <1>3, RelayConstants DEF HasSocket

\* What an election returns.
LEMMA Elected ==
    ASSUME NEW ms \in Seq(Sockets), NEW current \in Users \cup {NoUser}
    PROVE  /\ Elect(ms, current) \in Users \cup {NoUser}
           /\ Elect(ms, current) # NoUser => HasSocket(ms, Elect(ms, current))
           /\ Elect(ms, current) = NoUser => Eligible(ms) = {}
<1>1. CASE current # NoUser /\ HasSocket(ms, current) BY <1>1 DEF Elect
<1>2. CASE ~(current # NoUser /\ HasSocket(ms, current))
  <2>1. Elect(ms, current) = ElectNext(ms) BY <1>2 DEF Elect
  <2>2. CASE Eligible(ms) = {} /\ ElectNext(ms) = NoUser BY <2>1, <2>2
  <2>3. CASE \E i \in Eligible(ms) : ElectNext(ms) = UserOf[ms[i]]
    <3> PICK i \in Eligible(ms) : ElectNext(ms) = UserOf[ms[i]] BY <2>3
    <3> QED BY <2>1, EligibleSocket, RelayConstants
  <2> QED BY <2>2, <2>3, ElectNextTakes
<1> QED BY <1>1, <1>2

\* The syncer can write: a restatement of the invariant.
LEMMA CanWrite == SyncerCanWrite <=> (syncer # NoUser => HasSocket(members, syncer))
BY DEF SyncerCanWrite, HasSocket, SocketsOf, Present

LEMMA WithoutSeq ==
    ASSUME NEW ms \in Seq(Sockets), NEW s
    PROVE  Without(ms, s) \in Seq(Sockets)
<1> DEFINE idx == CHOOSE i \in DOMAIN ms : ms[i] = s
<1> DEFINE f == [i \in 1 .. Len(ms) - 1 |-> IF i < idx THEN ms[i] ELSE ms[i + 1]]
<1>1. Without(ms, s) = f BY DEF Without
<1>2. Len(ms) \in Nat OBVIOUS
<1>3. ASSUME NEW i \in 1 .. Len(ms) - 1 PROVE f[i] \in Sockets
  <2>1. i \in 1 .. Len(ms) /\ i + 1 \in 1 .. Len(ms) BY <1>2
  <2>2. ms[i] \in Sockets /\ ms[i + 1] \in Sockets BY <2>1
  <2> HIDE DEF idx
  <2> QED BY <2>2
<1> HIDE DEF idx
<1>4. CASE Len(ms) = 0
  <2>1. 1 .. Len(ms) - 1 = 1 .. 0 BY <1>4
  <2>2. f \in [1 .. 0 -> Sockets] BY <1>3, <2>1
  <2> QED BY <1>1, <2>2
<1>5. CASE Len(ms) # 0
  <2>1. Len(ms) - 1 \in Nat BY <1>2, <1>5
  <2>2. f \in [1 .. Len(ms) - 1 -> Sockets] BY <1>3
  <2> HIDE DEF f
  <2> QED BY <1>1, <2>1, <2>2
<1> QED BY <1>4, <1>5

LEMMA AppendElements ==
    ASSUME NEW ms \in Seq(Sockets), NEW s \in Sockets
    PROVE  /\ Append(ms, s) \in Seq(Sockets)
           /\ Elements(Append(ms, s)) = Elements(ms) \cup {s}
           /\ Eligible(Append(ms, s)) \subseteq Eligible(ms) \cup {Len(ms) + 1}
           /\ Append(ms, s)[Len(ms) + 1] = s
<1> DEFINE more == Append(ms, s)
<1>1. /\ more \in Seq(Sockets) /\ DOMAIN more = 1 .. Len(ms) + 1
      /\ DOMAIN ms = 1 .. Len(ms) /\ Len(ms) \in Nat
      /\ \A i \in 1 .. Len(ms) : more[i] = ms[i]
      /\ more[Len(ms) + 1] = s
  OBVIOUS
<1> HIDE DEF more
<1>2. DOMAIN more = DOMAIN ms \cup {Len(ms) + 1} BY <1>1
<1>3. Elements(more) = Elements(ms) \cup {s} BY <1>1, <1>2 DEF Elements
<1>4. ASSUME NEW i \in Eligible(more), i # Len(ms) + 1 PROVE i \in Eligible(ms)
  <2>1. /\ i \in DOMAIN more /\ more[i] \in Writers
        /\ \A j \in 1 .. i - 1 : UserOf[more[j]] # UserOf[more[i]]
    BY <1>4 DEF Eligible, Ranked
  <2>2. i \in 1 .. Len(ms) BY <1>1, <1>2, <1>4, <2>1
  <2>3. \A j \in 1 .. i - 1 : j \in 1 .. Len(ms) BY <1>1, <2>2
  <2>4. \A j \in 1 .. i - 1 : UserOf[ms[j]] # UserOf[ms[i]] BY <1>1, <2>1, <2>2, <2>3
  <2> QED BY <1>1, <2>1, <2>2, <2>4 DEF Eligible, Ranked
<1> QED BY <1>1, <1>3, <1>4 DEF more

-----------------------------------------------------------------------------
(***************************************************************************)
(* The syncer.                                                             *)
(***************************************************************************)
LEMMA SyncerInit == Init => SyncerInv
<1> SUFFICES ASSUME Init PROVE SyncerInv OBVIOUS
<1>1. members = <<>> /\ syncer = NoUser BY DEF Init
<1>2. Eligible(<<>>) = {} BY DEF Eligible, Ranked
<1> QED BY <1>1, <1>2 DEF SyncerInv, SyncerCanWrite

LEMMA JoinSyncer ==
    ASSUME SyncerInv, NEW s \in Sockets, Join(s)
    PROVE  /\ SyncerInv'
           /\ syncer' # syncer => syncer = NoUser /\ syncer' = UserOf[s]
<1> DEFINE ms == Append(members, s)
<1>1. CASE s \in Elements(members)
  <2>1. members' = members /\ syncer' = syncer
    BY <1>1 DEF Join, registryVars
  <2> QED BY <2>1 DEF SyncerInv, SyncerCanWrite, Present
<1>2. CASE s \notin Elements(members)
  <2>1. members' = ms /\ syncer' = Elect(ms, syncer) BY <1>2 DEF Join
  <2>2. members \in Seq(Sockets) /\ syncer \in Users \cup {NoUser} BY DEF SyncerInv
  <2>3. ms \in Seq(Sockets) /\ Elements(ms) = Elements(members) \cup {s}
        /\ Eligible(ms) \subseteq Eligible(members) \cup {Len(members) + 1}
        /\ ms[Len(members) + 1] = s
    BY <2>2, AppendElements
  <2> HIDE DEF ms
  <2>4. SyncerInv'
    <3>1. /\ syncer' \in Users \cup {NoUser}
          /\ syncer' # NoUser => HasSocket(ms, syncer')
          /\ syncer' = NoUser => Eligible(ms) = {}
      BY <2>1, <2>2, <2>3, Elected
    <3>2. SyncerCanWrite' BY <2>1, <3>1 DEF SyncerCanWrite, HasSocket, SocketsOf, Present
    <3> QED BY <2>1, <2>3, <3>1, <3>2 DEF SyncerInv
  <2>5. ASSUME syncer' # syncer PROVE syncer = NoUser /\ syncer' = UserOf[s]
    <3>1. \A u : HasSocket(members, u) => HasSocket(ms, u)
      BY <2>3 DEF HasSocket, SocketsOf
    <3>2. syncer = NoUser
      BY <2>1, <2>5, <3>1, CanWrite DEF SyncerInv, Elect
    <3>3. Eligible(ms) \subseteq {Len(members) + 1} BY <2>3, <3>2 DEF SyncerInv
    <3>4. syncer' = ElectNext(ms) BY <2>1, <3>2 DEF Elect
    <3>5. \E i \in Eligible(ms) : ElectNext(ms) = UserOf[ms[i]]
      BY <2>3, <2>5, <3>2, <3>4, ElectNextTakes
    <3> QED BY <2>3, <3>2, <3>3, <3>4, <3>5
  <2> QED BY <2>4, <2>5
<1> QED BY <1>1, <1>2

LEMMA LeaveSyncer ==
    ASSUME SyncerInv, NEW s \in Sockets, Leave(s)
    PROVE  SyncerInv'
<1> DEFINE ms == Without(members, s)
<1>1. members' = ms /\ syncer' = SyncerAfter(ms) BY DEF Leave
<1>2. members \in Seq(Sockets) /\ syncer \in Users \cup {NoUser} BY DEF SyncerInv
<1>3. ms \in Seq(Sockets) BY <1>2, WithoutSeq
<1> HIDE DEF ms
<1>4. CASE ms = <<>>
  <2>1. syncer' = NoUser BY <1>1, <1>4 DEF SyncerAfter
  <2>2. Eligible(<<>>) = {} BY DEF Eligible, Ranked
  <2> QED BY <1>1, <1>3, <1>4, <2>1, <2>2 DEF SyncerInv, SyncerCanWrite
<1>5. CASE ms # <<>>
  <2>1. syncer' = Elect(ms, syncer) BY <1>1, <1>5 DEF SyncerAfter
  <2>2. /\ syncer' \in Users \cup {NoUser}
        /\ syncer' # NoUser => HasSocket(ms, syncer')
        /\ syncer' = NoUser => Eligible(ms) = {}
    BY <1>2, <1>3, <2>1, Elected
  <2>3. SyncerCanWrite' BY <1>1, <2>2 DEF SyncerCanWrite, HasSocket, SocketsOf, Present
  <2> QED BY <1>1, <1>3, <2>2, <2>3 DEF SyncerInv
<1> QED BY <1>4, <1>5

\* Only a join and a leave write the registry.
LEMMA RegistryWriters ==
    ASSUME [Next]_vars, \A s \in Sockets : ~Join(s) /\ ~Leave(s)
    PROVE  UNCHANGED registryVars
<1>1. ASSUME NEW s \in Sockets, Network(s) PROVE UNCHANGED registryVars
  BY <1>1 DEF Network, JoinRequested, Disconnecting, Disconnected
<1>2. ASSUME NEW s \in Sockets, Locked(s) \/ NextTask(s) \/ Unlock(s) \/ Unlocked(s)
      PROVE  UNCHANGED registryVars
  BY <1>2 DEF Locked, NextTask, Unlock, Unlocked
<1>3. ASSUME NEW s \in Sockets,
             Presence(s) \/ JoinDesignate(s) \/ Promote(s) \/ Demote(s) \/ OnJoin(s) \/ OnLeave(s)
      PROVE  UNCHANGED registryVars
  BY <1>3 DEF Presence, JoinDesignate, Promote, Demote, OnJoin, OnLeave
<1>4. CASE UNCHANGED vars BY <1>4 DEF vars, relayVars
<1>5. CASE Next
  <2> PICK s \in Sockets : Network(s) \/ TaskStep(s) \/ Locked(s) BY <1>5 DEF Next
  <2> QED BY <1>1, <1>2, <1>3 DEF TaskStep
<1> QED BY <1>4, <1>5

LEMMA SyncerStep == SyncerInv /\ [Next]_vars => SyncerInv'
<1> SUFFICES ASSUME SyncerInv, [Next]_vars PROVE SyncerInv' OBVIOUS
<1>1. CASE \E s \in Sockets : Join(s) BY <1>1, JoinSyncer
<1>2. CASE \E s \in Sockets : Leave(s) BY <1>2, LeaveSyncer
<1>3. CASE \A s \in Sockets : ~Join(s) /\ ~Leave(s)
  <2>1. members' = members /\ syncer' = syncer BY <1>3, RegistryWriters DEF registryVars
  <2> QED BY <2>1 DEF SyncerInv, SyncerCanWrite, Present
<1> QED BY <1>1, <1>2, <1>3

\* The syncer always has a socket that can save.
THEOREM SyncerWrites == Spec => []SyncerCanWrite
<1>1. SyncerInv => SyncerCanWrite BY DEF SyncerInv
<1> QED BY <1>1, SyncerInit, SyncerStep, PTL DEF Spec

\* A join elects nobody but the joiner, and takes the role from nobody.
THEOREM JoinTakesNoRole == Spec => JoinElectsOnlyJoiner
<1> DEFINE Fair == \A s \in Sockets : (Join(s) /\ syncer' # syncer) =>
                       (syncer = NoUser /\ syncer' = UserOf[s])
<1>1. SyncerInv /\ [Next]_vars => [Fair]_vars BY JoinSyncer
<1>2. Spec => [][Fair]_vars
  <2> HIDE DEF Fair
  <2> QED BY <1>1, SyncerInit, SyncerStep, PTL DEF Spec
<1> QED BY <1>2 DEF JoinElectsOnlyJoiner

-----------------------------------------------------------------------------
(***************************************************************************)
(* Types.                                                                  *)
(***************************************************************************)
LEMMA SocketTypesInit == Init => SocketTypes
BY DEF Init, SocketTypes, Steps, NothingTold

LEMMA NetworkTypes ==
    ASSUME SocketTypes, NEW s \in Sockets, Network(s)
    PROVE  SocketTypes'
<1>1. CASE JoinRequested(s)
  <2>1. queue' \in [Sockets -> Seq({"join", "leave"})]
    BY <1>1 DEF JoinRequested, SocketTypes
  <2> QED BY <1>1, <2>1 DEF JoinRequested, SocketTypes, clientVars
<1>2. CASE Disconnecting(s)
  <2>1. queue' \in [Sockets -> Seq({"join", "leave"})]
    BY <1>2 DEF Disconnecting, Queued, SocketTypes
  <2> QED BY <1>2, <2>1 DEF Disconnecting, SocketTypes, clientVars
<1>3. CASE Disconnected(s) BY <1>3 DEF Disconnected, SocketTypes
<1> QED BY <1>1, <1>2, <1>3 DEF Network

LEMMA TaskTypes ==
    ASSUME SocketTypes, SyncerInv, NEW s \in Sockets, TaskStep(s) \/ Locked(s)
    PROVE  SocketTypes'
<1>1. CASE NextTask(s)
  <2>1. Head(queue[s]) \in {"join", "leave"} /\ Tail(queue[s]) \in Seq({"join", "leave"})
    BY <1>1 DEF NextTask, SocketTypes
  <2> QED BY <1>1, <2>1 DEF NextTask, Goes, SocketTypes, Steps, clientVars
<1>2. CASE Locked(s)
  BY <1>2 DEF Locked, Checked, Goes, SocketTypes, Steps, clientVars
<1>3. CASE Join(s)
  <2> DEFINE ms == Append(members, s)
  <2>1. Elements(ms) \subseteq Sockets
    BY AppendElements DEF SyncerInv, Elements
  <2>2. CASE s \in Elements(members)
    BY <1>3, <2>2 DEF Join, Goes, SocketTypes, Steps, clientVars
  <2>3. CASE s \notin Elements(members)
    <3>1. PICK yes, no \in SUBSET Sockets :
            told' = [told EXCEPT ![s] = [roster |-> Elements(ms), isSyncer |-> yes,
                                         notSyncer |-> no]]
      BY <1>3, <2>3 DEF Join
    <3>2. /\ step' = [step EXCEPT ![s] = "joinPresence"]
          /\ joined' = joined \cup {s} /\ room' = room \cup {s}
          /\ UNCHANGED <<conn, queue, live, heard, belief>>
      BY <1>3, <2>3 DEF Join, Goes, clientVars
    <3> HIDE DEF ms
    <3> QED BY <2>1, <3>1, <3>2 DEF SocketTypes, Steps
  <2> QED BY <2>2, <2>3
<1>4. CASE Leave(s)
  <2> DEFINE ms == Without(members, s)
  <2>1. ms \in Seq(Sockets) BY WithoutSeq DEF SyncerInv
  <2>2. /\ told' = [told EXCEPT ![s] = [roster |-> Elements(ms),
                                        isSyncer |-> Promoted(ms, syncer'),
                                        notSyncer |-> Demoted(ms, syncer')]]
        /\ step' = [step EXCEPT ![s] = "onLeave"]
        /\ UNCHANGED <<conn, queue, joined, live, room, heard, belief>>
    BY <1>4 DEF Leave, Goes, clientVars
  <2> HIDE DEF ms
  <2>3. /\ Elements(ms) \subseteq Sockets /\ Promoted(ms, syncer') \subseteq Sockets
        /\ Demoted(ms, syncer') \subseteq Sockets
    BY <2>1 DEF Elements, Promoted, Demoted, SocketsOf
  <2> QED BY <2>2, <2>3 DEF SocketTypes, Steps
<1>5. CASE Presence(s) BY <1>5 DEF Presence, Goes, SocketTypes, Steps
<1>6. CASE JoinDesignate(s) BY <1>6 DEF JoinDesignate, Goes, SocketTypes, Steps
<1>7. CASE Promote(s) BY <1>7 DEF Promote, Goes, SocketTypes, Steps
<1>8. CASE Demote(s) BY <1>8 DEF Demote, Goes, SocketTypes, Steps
<1>9. CASE OnJoin(s) BY <1>9 DEF OnJoin, Goes, SocketTypes, Steps, clientVars
<1>10. CASE OnLeave(s) BY <1>10 DEF OnLeave, OneLess, Goes, SocketTypes, Steps, clientVars
<1>11. CASE Unlock(s) BY <1>11 DEF Unlock, Goes, SocketTypes, Steps, clientVars
<1>12. CASE Unlocked(s)
  BY <1>12 DEF Unlocked, Goes, SocketTypes, Steps, NothingTold, clientVars
<1> QED BY <1>1, <1>2, <1>3, <1>4, <1>5, <1>6, <1>7, <1>8, <1>9, <1>10, <1>11, <1>12 DEF TaskStep

LEMMA SocketTypesStep == SocketTypes /\ SyncerInv /\ [Next]_vars => SocketTypes'
<1> SUFFICES ASSUME SocketTypes, SyncerInv, [Next]_vars PROVE SocketTypes' OBVIOUS
<1>1. CASE Next BY <1>1, NetworkTypes, TaskTypes DEF Next
<1>2. CASE UNCHANGED vars BY <1>2 DEF vars, relayVars, clientVars, SocketTypes
<1> QED BY <1>1, <1>2

\* What every reachable state of a room satisfies, so far.
LEMMA RelayBasics == Spec => [](LockInv /\ SyncerInv /\ SocketTypes)
<1>1. Init => EmitInit BY DEF Init
<1> QED BY <1>1, LockInit, LockStep, RelayLocks, SyncerInit, SyncerStep,
           SocketTypesInit, SocketTypesStep, PTL DEF Spec

\* Every variable of a room stays in its type.
THEOREM RelayTypeCorrect == Spec => []RelayTypes
<1>1. LockInv /\ SyncerInv /\ SocketTypes => RelayTypes
  BY DEF LockInv, SyncerInv, RelayTypes
<1> QED BY <1>1, RelayBasics, PTL

-----------------------------------------------------------------------------
(***************************************************************************)
(* Members.                                                                *)
(***************************************************************************)
Distinct(ms) == \A i, j \in DOMAIN ms : ms[i] = ms[j] => i = j

LEMMA AppendDistinct ==
    ASSUME NEW ms \in Seq(Sockets), Distinct(ms), NEW s \in Sockets, s \notin Elements(ms)
    PROVE  Distinct(Append(ms, s))
BY DEF Distinct, Elements

\* Taking one of its sockets out of a list takes out that one.
LEMMA WithoutElements ==
    ASSUME NEW ms \in Seq(Sockets), Distinct(ms), NEW s \in Elements(ms)
    PROVE  /\ Distinct(Without(ms, s))
           /\ Len(Without(ms, s)) = Len(ms) - 1
           /\ Elements(Without(ms, s)) = Elements(ms) \ {s}
<1> DEFINE n == Len(ms)
           idx == CHOOSE i \in DOMAIN ms : ms[i] = s
           less == Without(ms, s)
<1>1. idx \in 1 .. n /\ ms[idx] = s /\ n \in Nat BY DEF Elements
<1>2. less = [i \in 1 .. n - 1 |-> IF i < idx THEN ms[i] ELSE ms[i + 1]] BY DEF Without
<1>3. less \in Seq(Sockets) BY WithoutSeq
<1>4. DOMAIN less = 1 .. n - 1 BY <1>2
<1>5. Len(less) = n - 1 BY <1>1, <1>3, <1>4
<1> DEFINE at0(i) == IF i < idx THEN i ELSE i + 1
<1>6. \A i \in 1 .. n - 1 : at0(i) \in 1 .. n /\ at0(i) # idx /\ less[i] = ms[at0(i)]
  <2> HIDE DEF idx, less
  <2> QED BY <1>1, <1>2
<1>7. \A i, j \in 1 .. n - 1 : at0(i) = at0(j) => i = j BY <1>1
<1>8. \A j \in 1 .. n : j # idx => \E i \in 1 .. n - 1 : at0(i) = j
  <2> SUFFICES ASSUME NEW j \in 1 .. n, j # idx PROVE \E i \in 1 .. n - 1 : at0(i) = j
    OBVIOUS
  <2> HIDE DEF idx
  <2>1. CASE j < idx
    <3>1. j \in 1 .. n - 1 /\ at0(j) = j BY <1>1, <2>1
    <3> QED BY <3>1
  <2>2. CASE j > idx
    <3>1. j - 1 \in 1 .. n - 1 /\ at0(j - 1) = j BY <1>1, <2>2
    <3> QED BY <3>1
  <2> QED BY <1>1, <2>1, <2>2
<1>9. DOMAIN ms = 1 .. n OBVIOUS
<1> HIDE DEF idx, less, at0, n
<1>10. Distinct(less) BY <1>4, <1>6, <1>7, <1>9 DEF Distinct
<1>11. Elements(less) \subseteq Elements(ms) \ {s}
  BY <1>1, <1>4, <1>6, <1>9 DEF Elements, Distinct
<1>12. Elements(ms) \ {s} \subseteq Elements(less)
  <2> SUFFICES ASSUME NEW j \in 1 .. n, ms[j] # s PROVE ms[j] \in Elements(less)
    BY <1>9 DEF Elements
  <2>1. PICK i \in 1 .. n - 1 : at0(i) = j BY <1>1, <1>8
  <2> QED BY <1>4, <1>6, <2>1 DEF Elements
<1> QED BY <1>5, <1>10, <1>11, <1>12 DEF less, n

\* The part of MemberInv that is about one socket.
Member(s) ==
    /\ \A i \in DOMAIN queue[s] :
          queue[s][i] = "leave" => i = Len(queue[s]) /\ conn[s] # "open"
    /\ LeaveToCome(s) => (s \in Present <=> s \in joined) /\ ~IsLeaving(s)
    /\ ~LeaveToCome(s) => /\ queue[s] = <<>>
                          /\ step[s] \notin {"join", "add"}
                          /\ s \in Present <=> IsLeaving(s)

LEMMA MemberParts == MemberInv <=> (Distinct(members) /\ \A s \in Sockets : Member(s))
BY DEF MemberInv, Distinct, Member

LEMMA MemberInit == Init => MemberInv
<1> SUFFICES ASSUME Init PROVE MemberInv OBVIOUS
<1>1. members = <<>> /\ joined = {} BY DEF Init
<1>2. Present = {} BY <1>1 DEF Present, Elements
<1>3. \A s \in Sockets : queue[s] = <<>> /\ conn[s] = "open" /\ step[s] = "idle" BY DEF Init
<1> QED BY <1>1, <1>2, <1>3 DEF MemberInv, LeaveToCome, IsLeaving

\* A step of a socket that changes no membership but its own leaves the
\* others as they were.
LEMMA OtherMembers ==
    ASSUME SocketTypes, NEW s \in Sockets, NEW t \in Sockets, t # s, Member(t),
           queue'[t] = queue[t], conn'[t] = conn[t], step'[t] = step[t],
           t \in Present' <=> t \in Present, t \in joined' <=> t \in joined
    PROVE  Member(t)'
BY DEF Member, LeaveToCome, IsLeaving

\* The tasks that wait, and the connection.
LEMMA QueueMembers ==
    ASSUME SocketTypes, MemberInv, NEW s \in Sockets,
           JoinRequested(s) \/ Disconnecting(s) \/ Disconnected(s) \/ NextTask(s)
    PROVE  MemberInv'
<1>0. Distinct(members) /\ \A t \in Sockets : Member(t) BY MemberParts
<1>1. members' = members /\ joined' = joined
  BY DEF JoinRequested, Disconnecting, Disconnected, NextTask, registryVars
<1>2. Present' = Present BY <1>1 DEF Present
<1>3. \A t \in Sockets : t # s =>
        queue'[t] = queue[t] /\ conn'[t] = conn[t] /\ step'[t] = step[t]
  BY DEF JoinRequested, Disconnecting, Disconnected, NextTask, Goes, SocketTypes
<1>4. \A t \in Sockets : t # s => Member(t)'
  BY <1>0, <1>1, <1>2, <1>3, OtherMembers
<1>5. queue[s] \in Seq({"join", "leave"}) /\ Member(s) BY <1>0 DEF SocketTypes
<1>6. ASSUME JoinRequested(s) PROVE Member(s)'
  <2>1. /\ conn[s] = "open" /\ conn'[s] = "open" /\ step'[s] = step[s]
        /\ queue'[s] = Append(queue[s], "join")
    BY <1>6 DEF JoinRequested, SocketTypes
  <2>2. \A i \in DOMAIN queue'[s] : queue'[s][i] # "leave"
    BY <1>5, <2>1 DEF Member
  <2> QED BY <1>1, <1>2, <1>5, <2>1, <2>2 DEF Member, LeaveToCome, IsLeaving
<1>7. ASSUME Disconnecting(s) PROVE Member(s)'
  <2>1. /\ conn[s] = "open" /\ conn'[s] = "closing" /\ step'[s] = step[s]
        /\ queue'[s] = Append(queue[s], "leave")
    BY <1>7 DEF Disconnecting, Queued, SocketTypes
  <2>2. \A i \in DOMAIN queue[s] : queue[s][i] # "leave" BY <1>5, <2>1 DEF Member
  <2>3. /\ Len(queue'[s]) = Len(queue[s]) + 1 /\ queue'[s] # <<>>
        /\ queue'[s][Len(queue'[s])] = "leave"
        /\ \A i \in DOMAIN queue'[s] : queue'[s][i] = "leave" => i = Len(queue'[s])
    BY <1>5, <2>1, <2>2
  <2> QED BY <1>1, <1>2, <1>5, <2>1, <2>3 DEF Member, LeaveToCome, IsLeaving
<1>8. ASSUME Disconnected(s) PROVE Member(s)'
  <2>1. /\ conn[s] = "closing" /\ conn'[s] = "closed" /\ step'[s] = step[s]
        /\ queue'[s] = queue[s]
    BY <1>8 DEF Disconnected, SocketTypes
  <2> QED BY <1>1, <1>2, <1>5, <2>1 DEF Member, LeaveToCome, IsLeaving
<1>9. ASSUME NextTask(s) PROVE Member(s)'
  <2>1. /\ step[s] = "idle" /\ queue[s] # <<>> /\ queue'[s] = Tail(queue[s])
        /\ conn'[s] = conn[s]
        /\ IF Head(queue[s]) = "leave" /\ s \notin joined THEN step'[s] = "idle"
           ELSE step'[s] = Head(queue[s])
    BY <1>9 DEF NextTask, Goes, SocketTypes
  <2>2. LeaveToCome(s) BY <1>5, <2>1 DEF Member
  <2>3. s \in Present <=> s \in joined BY <1>5, <2>2 DEF Member
  <2>4. CASE Head(queue[s]) = "leave"
    <3> DEFINE q == queue[s]
    <3>1. q \in Seq({"join", "leave"}) /\ q # <<>> BY <1>5, <2>1
    <3> HIDE DEF q
    <3>2. 1 \in DOMAIN q /\ Head(q) = q[1] BY <3>1
    <3>3. Len(queue[s]) = 1 /\ conn[s] # "open" BY <1>5, <2>4, <3>2 DEF Member, q
    <3>4. Len(q) = 1 => Tail(q) = <<>>
      <4> SUFFICES ASSUME Len(q) = 1 PROVE Tail(q) = <<>> OBVIOUS
      <4> DEFINE t == Tail(q)
      <4>1. t \in Seq({"join", "leave"}) /\ Len(t) = Len(q) - 1 BY <3>1, HeadTailProperties
      <4> HIDE DEF t
      <4>2. Len(t) = 0 BY <4>1
      <4>3. t = <<>> BY <4>1, <4>2, EmptySeq
      <4> QED BY <4>3 DEF t
    <3>5. queue'[s] = <<>> BY <2>1, <3>3, <3>4 DEF q
    <3> QED BY <1>1, <1>2, <2>1, <2>3, <2>4, <3>3, <3>5 DEF Member, LeaveToCome, IsLeaving
  <2>5. CASE Head(queue[s]) = "join"
    <3> DEFINE q == queue[s]
               r == queue'[s]
    <3>1. /\ Len(r) = Len(q) - 1 /\ Len(q) \in Nat /\ Len(r) \in Nat
          /\ \A i \in 1 .. Len(r) : r[i] = q[i + 1] /\ i + 1 \in 1 .. Len(q)
          /\ DOMAIN r = 1 .. Len(r) /\ DOMAIN q = 1 .. Len(q) /\ q[1] = "join"
      BY <1>5, <2>1, <2>5
    <3>2. \A i \in DOMAIN r : r[i] = "leave" => i = Len(r) /\ conn'[s] # "open"
      BY <1>5, <2>1, <3>1 DEF Member
    <3> HIDE DEF q, r
    <3>3. conn[s] # "open" => Len(q) # 0 /\ Len(q) # 1 /\ q[Len(q)] = "leave"
      BY <2>2, <3>1 DEF LeaveToCome, q
    <3>4. conn[s] # "open" => r # <<>> /\ r[Len(r)] = "leave"
      <4> SUFFICES ASSUME conn[s] # "open" PROVE r # <<>> /\ r[Len(r)] = "leave" OBVIOUS
      <4>1. Len(q) \in Nat /\ Len(q) # 1 /\ Len(q) # 0 BY <3>1, <3>3
      <4>2. Len(r) \in 1 .. Len(r) BY <3>1, <4>1
      <4> QED BY <3>1, <3>3, <4>2
    <3>5. LeaveToCome(s)' BY <2>1, <3>4 DEF LeaveToCome, r
    <3>6. ~IsLeaving(s)' BY <2>1, <2>5 DEF IsLeaving
    <3> QED BY <1>1, <1>2, <2>3, <3>2, <3>5, <3>6 DEF Member, r
  <2>6. Head(queue[s]) \in {"join", "leave"} BY <1>5, <2>1
  <2> QED BY <2>4, <2>5, <2>6
<1>10. Member(s)' BY <1>6, <1>7, <1>8, <1>9
<1>11. Distinct(members)' BY <1>0, <1>1 DEF Distinct
<1> QED BY <1>4, <1>10, <1>11, MemberParts DEF MemberInv, Distinct, Member

\* The calls of a task that leave the registry alone.
LEMMA QuietMembers ==
    ASSUME SocketTypes, MemberInv, NEW s \in Sockets,
           UNCHANGED <<members, joined, conn, queue>>,
           \E label : step' = [step EXCEPT ![s] = label],
           step'[s] \in {"leave", "remove"} <=> step[s] \in {"leave", "remove"},
           step'[s] \in {"join", "add"} => step[s] \in {"join", "add"}
    PROVE  MemberInv'
<1>0. Distinct(members) /\ \A t \in Sockets : Member(t) BY MemberParts
<1>2. Present' = Present BY DEF Present
<1>3. \A t \in Sockets : t # s => step'[t] = step[t] BY DEF SocketTypes
<1>4. \A t \in Sockets : t # s => Member(t)'
  BY <1>0, <1>2, <1>3, OtherMembers
<1>5. Member(s) BY <1>0
<1>6. LeaveToCome(s)' <=> LeaveToCome(s) BY DEF LeaveToCome
<1>7. IsLeaving(s)' <=> IsLeaving(s) BY DEF IsLeaving
<1>8. Member(s)' BY <1>2, <1>5, <1>6, <1>7 DEF Member
<1>9. Distinct(members)' BY <1>0 DEF Distinct
<1> QED BY <1>4, <1>8, <1>9, MemberParts DEF MemberInv, Distinct, Member

\* registry.join adds a socket whose leave is to come.
LEMMA JoinMembers ==
    ASSUME SocketTypes, SyncerInv, MemberInv, NEW s \in Sockets, Join(s)
    PROVE  MemberInv'
<1>1. CASE s \in Elements(members)
  <2>1. /\ step[s] = "add" /\ step' = [step EXCEPT ![s] = "unlock"]
        /\ UNCHANGED <<members, joined, conn, queue>>
    BY <1>1 DEF Join, Goes, registryVars
  <2>2. step'[s] = "unlock" BY <2>1 DEF SocketTypes
  <2> QED BY <2>1, <2>2, QuietMembers
<1>2. CASE s \notin Elements(members)
  <2>1. /\ step[s] = "add" /\ step' = [step EXCEPT ![s] = "joinPresence"]
        /\ members' = Append(members, s) /\ joined' = joined \cup {s}
        /\ conn' = conn /\ queue' = queue
    BY <1>2 DEF Join, Goes
  <2>2. members \in Seq(Sockets) BY DEF SyncerInv
  <2>3. Distinct(members) /\ \A t \in Sockets : Member(t) BY MemberParts
  <2>4. Distinct(members') BY <1>2, <2>1, <2>2, <2>3, AppendDistinct
  <2>5. Present' = Present \cup {s} BY <2>1, <2>2, AppendElements DEF Present
  <2>6. \A t \in Sockets : t # s => step'[t] = step[t] BY <2>1 DEF SocketTypes
  <2>7. \A t \in Sockets : t # s => Member(t)'
    BY <2>1, <2>3, <2>5, <2>6, OtherMembers
  <2>8. Member(s)'
    <3>1. LeaveToCome(s) BY <2>1, <2>3 DEF Member
    <3>2. LeaveToCome(s)' BY <2>1, <3>1 DEF LeaveToCome
    <3>3. step'[s] = "joinPresence" BY <2>1 DEF SocketTypes
    <3> QED BY <2>1, <2>3, <2>5, <3>2, <3>3 DEF Member, IsLeaving
  <2> QED BY <2>4, <2>7, <2>8, MemberParts DEF MemberInv, Distinct, Member
<1> QED BY <1>1, <1>2

\* registry.leave takes out the socket that leaves, and no other.
LEMMA LeaveMembers ==
    ASSUME SocketTypes, SyncerInv, MemberInv, NEW s \in Sockets, Leave(s)
    PROVE  MemberInv' /\ Len(members') = Len(members) - 1
<1>1. /\ step[s] = "remove" /\ step' = [step EXCEPT ![s] = "onLeave"]
      /\ members' = Without(members, s)
      /\ joined' = joined /\ conn' = conn /\ queue' = queue
  BY DEF Leave, Goes
<1>2. members \in Seq(Sockets) BY DEF SyncerInv
<1>3. Distinct(members) /\ \A t \in Sockets : Member(t) BY MemberParts
<1>4. ~LeaveToCome(s) /\ s \in Present BY <1>1, <1>3 DEF Member, IsLeaving
<1>5. /\ Distinct(members') /\ Len(members') = Len(members) - 1
      /\ Present' = Present \ {s}
  BY <1>1, <1>2, <1>3, <1>4, WithoutElements DEF Present
<1>6. \A t \in Sockets : t # s => step'[t] = step[t] BY <1>1 DEF SocketTypes
<1>7. \A t \in Sockets : t # s => Member(t)'
  BY <1>1, <1>3, <1>5, <1>6, OtherMembers
<1>8. Member(s)'
  <2>1. ~LeaveToCome(s)' BY <1>1, <1>4 DEF LeaveToCome
  <2>2. step'[s] = "onLeave" BY <1>1 DEF SocketTypes
  <2> QED BY <1>1, <1>3, <1>4, <1>5, <2>1, <2>2 DEF Member, IsLeaving
<1> QED BY <1>5, <1>7, <1>8, MemberParts DEF MemberInv, Distinct, Member

LEMMA MemberStep ==
    SocketTypes /\ SyncerInv /\ MemberInv /\ [Next]_vars => MemberInv'
<1> SUFFICES ASSUME SocketTypes, SyncerInv, MemberInv, [Next]_vars PROVE MemberInv' OBVIOUS
<1>1. ASSUME NEW s \in Sockets, Network(s) \/ NextTask(s) PROVE MemberInv'
  BY <1>1, QueueMembers DEF Network
<1>2. ASSUME NEW s \in Sockets, Join(s) PROVE MemberInv' BY <1>2, JoinMembers
<1>3. ASSUME NEW s \in Sockets, Leave(s) PROVE MemberInv' BY <1>3, LeaveMembers
<1>4. ASSUME NEW s \in Sockets, Locked(s) PROVE MemberInv'
  <2>1. /\ UNCHANGED <<members, joined, conn, queue>>
        /\ step' = [step EXCEPT ![s] = IF step[s] = "leave" THEN "remove" ELSE Checked(s)]
        /\ step[s] \in {"join", "leave"}
    BY <1>4 DEF Locked, Goes, registryVars
  <2>2. step'[s] = IF step[s] = "leave" THEN "remove" ELSE Checked(s)
    BY <2>1 DEF SocketTypes
  <2>3. Checked(s) \in {"unlock", "add"} BY DEF Checked
  <2>4. \E label : step' = [step EXCEPT ![s] = label] BY <2>1
  <2>5. UNCHANGED <<members, joined, conn, queue>> BY <2>1
  <2>6. step'[s] \in {"leave", "remove"} <=> step[s] \in {"leave", "remove"}
    BY <2>1, <2>2, <2>3
  <2>7. step'[s] \in {"join", "add"} => step[s] \in {"join", "add"} BY <2>1, <2>2
  <2> QED BY <2>4, <2>5, <2>6, <2>7, QuietMembers
<1>5. ASSUME NEW s \in Sockets,
             Presence(s) \/ JoinDesignate(s) \/ Promote(s) \/ Demote(s)
             \/ OnJoin(s) \/ OnLeave(s) \/ Unlock(s) \/ Unlocked(s)
      PROVE  MemberInv'
  <2> DEFINE After == {"joinPresence", "joinDesignate", "onJoin", "onLeave", "leavePresence",
                       "promote", "demote", "unlock", "release", "idle"}
  <2>1. /\ UNCHANGED <<members, joined, conn, queue>>
        /\ step[s] \in After
        /\ \E label \in After : step' = [step EXCEPT ![s] = label]
    BY <1>5 DEF Presence, JoinDesignate, Promote, Demote, OnJoin, OnLeave, Unlock, Unlocked,
                Goes, registryVars
  <2>2. step'[s] \in After BY <2>1 DEF SocketTypes
  <2>3. \E label : step' = [step EXCEPT ![s] = label] BY <2>1
  <2>4. /\ step[s] \notin {"leave", "remove"} /\ step'[s] \notin {"leave", "remove"}
        /\ step'[s] \notin {"join", "add"}
    BY <2>1, <2>2
  <2>5. UNCHANGED <<members, joined, conn, queue>> BY <2>1
  <2>6. step'[s] \in {"leave", "remove"} <=> step[s] \in {"leave", "remove"} BY <2>4
  <2>7. step'[s] \in {"join", "add"} => step[s] \in {"join", "add"} BY <2>4
  <2> QED BY <2>3, <2>5, <2>6, <2>7, QuietMembers
<1>6. CASE UNCHANGED vars
  <2>1. UNCHANGED <<members, joined, conn, queue, step>>
    BY <1>6 DEF vars, relayVars, registryVars
  <2> QED BY <2>1 DEF MemberInv, LeaveToCome, IsLeaving, Present
<1>7. CASE Next
  <2> PICK s \in Sockets : Network(s) \/ TaskStep(s) \/ Locked(s) BY <1>7 DEF Next
  <2> QED BY <1>1, <1>2, <1>3, <1>4, <1>5 DEF TaskStep
<1> QED BY <1>6, <1>7

LEMMA MembersSpec == Spec => [](LockInv /\ SyncerInv /\ SocketTypes /\ MemberInv)
BY RelayBasics, MemberInit, MemberStep, PTL DEF Spec

\* A socket that is gone does not stay a member.
THEOREM NoGhosts == Spec => []NoGhostMember
<1>1. MemberInv => NoGhostMember
  <2> SUFFICES ASSUME MemberInv, NEW s \in Sockets, conn[s] = "closed", Idle(s)
               PROVE  s \notin Present
    BY DEF NoGhostMember
  <2>1. ~LeaveToCome(s) /\ ~IsLeaving(s) BY DEF LeaveToCome, IsLeaving, Idle
  <2> QED BY <2>1 DEF MemberInv
<1> QED BY <1>1, MembersSpec, PTL

-----------------------------------------------------------------------------
(***************************************************************************)
(* What the hooks have told the Manager.                                   *)
(***************************************************************************)

\* The part of LiveInv that is about one socket.
Agree(s) ==
    /\ at[s] = "in" <=> step[s] \in InLock
    /\ at[s] = "waiting" <=> step[s] \in {"join", "leave"}
    /\ at[s] = "leaving" <=> step[s] = "release"

LEMMA LiveParts ==
    LiveInv <=> /\ \A s \in Sockets : Agree(s)
                /\ Holders = {} => live = Len(members)
                /\ \A s \in Holders : live + Behind(s) = Len(members)
BY DEF LiveInv, LiveIsExact, Quiet, Agree

LEMMA LiveInit == Init => LiveInv
<1> SUFFICES ASSUME Init PROVE LiveInv OBVIOUS
<1>1. \A s \in Sockets : at[s] = "out" /\ step[s] = "idle"
  BY DEF Init, EmitInit, Sockets
<1>2. live = 0 /\ members = <<>> BY DEF Init
<1>3. Holders = {} BY <1>1 DEF Holders, Sockets
<1>4. Len(<<>>) = 0 OBVIOUS
<1> QED BY <1>1, <1>2, <1>3, <1>4, LiveParts DEF Agree, InLock

\* A step of a socket that is not in the lock, and stays out of it.
LEMMA LiveOutside ==
    ASSUME LiveInv, SocketTypes, NEW s \in Sockets,
           s \notin Holders, Holders' = Holders,
           live' = live, members' = members,
           \A t \in Sockets : t # s => at'[t] = at[t] /\ step'[t] = step[t],
           Agree(s)'
    PROVE  LiveInv'
<1>1. /\ \A t \in Sockets : Agree(t)
      /\ Holders = {} => live = Len(members)
      /\ \A t \in Holders : live + Behind(t) = Len(members)
  BY LiveParts
<1>2. \A t \in Sockets : Agree(t)' BY <1>1 DEF Agree
<1>3. \A t \in Holders : t \in Sockets /\ t # s BY DEF Holders, Sockets
<1>4. \A t \in Holders : Behind(t)' = Behind(t) BY <1>3 DEF Behind
<1> QED BY <1>1, <1>2, <1>4, LiveParts DEF LiveInv, LiveIsExact, Quiet, Agree

\* A call of the handler in the lock.
LEMMA LiveInside ==
    ASSUME LiveInv, LockInv, SocketTypes, NEW s \in Sockets, s \in Holders,
           at' = at,
           NEW label \in InLock, step' = [step EXCEPT ![s] = label],
           live + Behind(s) = Len(members) => live' + Behind(s)' = Len(members')
    PROVE  LiveInv'
<1>1. /\ \A t \in Sockets : Agree(t)
      /\ \A t \in Holders : live + Behind(t) = Len(members)
  BY LiveParts
<1>2. step'[s] = label /\ \A t \in Sockets : t # s => step'[t] = step[t]
  BY DEF SocketTypes
<1>3. at[s] = "in" BY DEF Holders
<1>4. Agree(s)' BY <1>2, <1>3 DEF Agree, InLock
<1>5. \A t \in Sockets : Agree(t)' BY <1>1, <1>2, <1>4 DEF Agree
<1>6. Holders' = Holders BY DEF Holders
<1>7. \A t \in Holders : t = s BY OneHolder
<1>8. live' + Behind(s)' = Len(members') BY <1>1
<1> QED BY <1>5, <1>6, <1>7, <1>8, LiveParts DEF LiveInv, LiveIsExact, Quiet, Agree

LEMMA InLockHolds ==
    ASSUME LiveInv, NEW s \in Sockets, step[s] \in InLock
    PROVE  s \in Holders
BY LiveParts DEF Agree, Holders, Sockets

\* The registry's calls put the hooks behind by one.
LEMMA LiveRegistry ==
    ASSUME LiveInv, LockInv, SocketTypes, SyncerInv, MemberInv, NEW s \in Sockets,
           Join(s) \/ Leave(s)
    PROVE  LiveInv'
<1>0. /\ members \in Seq(Sockets) /\ Len(members) \in Nat /\ live \in Int
      /\ s \in DOMAIN step
  BY DEF SyncerInv, SocketTypes
<1>1. CASE Join(s)
  <2>1. /\ step[s] = "add" /\ at' = at /\ live' = live
        /\ \/ members' = members /\ step' = [step EXCEPT ![s] = "unlock"]
           \/ /\ members' = Append(members, s)
              /\ step' = [step EXCEPT ![s] = "joinPresence"]
    BY <1>1 DEF Join, Goes, emitVars, registryVars
  <2>2. s \in Holders BY <2>1, InLockHolds DEF InLock
  <2>3. Behind(s) = 0 BY <2>1 DEF Behind
  <2>4. CASE members' = members /\ step' = [step EXCEPT ![s] = "unlock"]
    <3>1. Behind(s)' = 0 BY <1>0, <2>4 DEF Behind
    <3>2. live + Behind(s) = Len(members) => live' + Behind(s)' = Len(members')
      BY <2>1, <2>3, <2>4, <3>1
    <3>3. "unlock" \in InLock BY DEF InLock
    <3> QED BY <2>1, <2>2, <2>4, <3>2, <3>3, LiveInside
  <2>5. CASE members' = Append(members, s) /\ step' = [step EXCEPT ![s] = "joinPresence"]
    <3>1. Behind(s)' = 1 BY <1>0, <2>5 DEF Behind
    <3>2. Len(members') = Len(members) + 1 BY <1>0, <2>5
    <3>3. live + Behind(s) = Len(members) => live' + Behind(s)' = Len(members')
      BY <1>0, <2>1, <2>3, <3>1, <3>2
    <3>4. "joinPresence" \in InLock BY DEF InLock
    <3> QED BY <2>1, <2>2, <2>5, <3>3, <3>4, LiveInside
  <2> QED BY <2>1, <2>4, <2>5
<1>2. CASE Leave(s)
  <2>1. /\ step[s] = "remove" /\ at' = at /\ live' = live
        /\ step' = [step EXCEPT ![s] = "onLeave"]
    BY <1>2 DEF Leave, Goes, emitVars
  <2>2. s \in Holders BY <2>1, InLockHolds DEF InLock
  <2>3. Behind(s) = 0 BY <2>1 DEF Behind
  <2>4. Behind(s)' = -1 BY <1>0, <2>1 DEF Behind
  <2>5. Len(members') = Len(members) - 1 BY <1>2, LeaveMembers
  <2>6. live + Behind(s) = Len(members) => live' + Behind(s)' = Len(members')
    BY <1>0, <2>1, <2>3, <2>4, <2>5
  <2>7. "onLeave" \in InLock BY DEF InLock
  <2> QED BY <2>1, <2>2, <2>6, <2>7, LiveInside
<1> QED BY <1>1, <1>2

\* The emits change nothing of it, and a hook catches up.
LEMMA LiveCalls ==
    ASSUME LiveInv, LockInv, SocketTypes, NEW s \in Sockets,
           Presence(s) \/ JoinDesignate(s) \/ Promote(s) \/ Demote(s)
           \/ OnJoin(s) \/ OnLeave(s)
    PROVE  LiveInv'
<1>0. live \in Int /\ s \in DOMAIN step BY DEF SocketTypes
<1>1. /\ step[s] \in InLock /\ at' = at /\ members' = members
      /\ \E label \in InLock :
            /\ step' = [step EXCEPT ![s] = label]
            /\ \/ /\ step[s] = "joinPresence" /\ label = "joinDesignate" /\ live' = live
               \/ /\ step[s] = "joinDesignate" /\ label = "onJoin" /\ live' = live
               \/ /\ step[s] \in {"leavePresence", "promote", "demote"}
                  /\ label \in {"promote", "demote", "unlock"} /\ live' = live
               \/ /\ step[s] = "onJoin" /\ label = "unlock" /\ live' = live + 1
               \/ /\ step[s] = "onLeave" /\ label \in {"unlock", "leavePresence"}
                  /\ live' = live - 1
  BY DEF Presence, JoinDesignate, Promote, Demote, OnJoin, OnLeave, OneLess, Goes, InLock,
         emitVars, registryVars
<1>2. s \in Holders BY <1>1, InLockHolds
<1>3. PICK label \in InLock :
        /\ step' = [step EXCEPT ![s] = label]
        /\ \/ /\ step[s] = "joinPresence" /\ label = "joinDesignate" /\ live' = live
           \/ /\ step[s] = "joinDesignate" /\ label = "onJoin" /\ live' = live
           \/ /\ step[s] \in {"leavePresence", "promote", "demote"}
              /\ label \in {"promote", "demote", "unlock"} /\ live' = live
           \/ /\ step[s] = "onJoin" /\ label = "unlock" /\ live' = live + 1
           \/ /\ step[s] = "onLeave" /\ label \in {"unlock", "leavePresence"}
              /\ live' = live - 1
  BY <1>1
<1>4. step'[s] = label BY <1>0, <1>3
<1>5. live' + Behind(s)' = live + Behind(s)
  <2>1. CASE step[s] \in {"joinPresence", "joinDesignate"}
    <3>1. Behind(s) = 1 /\ Behind(s)' = 1 /\ live' = live
      BY <1>3, <1>4, <2>1 DEF Behind
    <3> QED BY <3>1
  <2>2. CASE step[s] \in {"leavePresence", "promote", "demote"}
    <3>1. Behind(s) = 0 /\ Behind(s)' = 0 /\ live' = live
      BY <1>3, <1>4, <2>2 DEF Behind
    <3> QED BY <3>1
  <2>3. CASE step[s] = "onJoin"
    <3>1. Behind(s) = 1 /\ Behind(s)' = 0 /\ live' = live + 1
      BY <1>3, <1>4, <2>3 DEF Behind
    <3> QED BY <1>0, <3>1
  <2>4. CASE step[s] = "onLeave"
    <3>1. Behind(s) = -1 /\ Behind(s)' = 0 /\ live' = live - 1
      BY <1>3, <1>4, <2>4 DEF Behind
    <3> QED BY <1>0, <3>1
  <2> QED BY <1>3, <2>1, <2>2, <2>3, <2>4
<1>6. live + Behind(s) = Len(members) => live' + Behind(s)' = Len(members')
  BY <1>1, <1>5
<1> QED BY <1>1, <1>2, <1>3, <1>6, LiveInside

\* On its way into the lock, and out of it, a handler owes the hooks nothing.
LEMMA LiveLocks ==
    ASSUME LiveInv, LockInv, SocketTypes, NEW s \in Sockets,
           NextTask(s) \/ Locked(s) \/ Unlock(s) \/ Unlocked(s)
    PROVE  LiveInv'
<1>0. /\ s \in Callers /\ at \in [Callers -> {"out", "waiting", "in", "leaving"}]
      /\ step \in [Sockets -> Steps] /\ live \in Int
  BY DEF Sockets, LockInv, EmitTypes, SocketTypes
<1>1. /\ \A t \in Sockets : Agree(t)
      /\ Holders = {} => live = Len(members)
      /\ \A t \in Holders : live + Behind(t) = Len(members)
  BY LiveParts
<1>2. live' = live /\ members' = members
  BY DEF NextTask, Locked, Unlock, Unlocked, registryVars
<1>3. \A t \in Sockets : t # s => at'[t] = at[t] /\ step'[t] = step[t]
  BY <1>0 DEF NextTask, Locked, Unlock, Unlocked, Goes, TakeReference, Acquire,
              DropReference, Release, Sockets, emitVars
<1>4. ASSUME NextTask(s) PROVE LiveInv'
  <2>1. s \notin Holders BY <1>1, <1>4 DEF NextTask, Agree, Holders, InLock
  <2>2. CASE UNCHANGED <<step, emitVars>>
    <3>1. Holders' = Holders BY <2>2 DEF Holders, emitVars
    <3>2. Agree(s)' BY <1>1, <2>2 DEF Agree, emitVars
    <3> QED BY <1>2, <1>3, <2>1, <3>1, <3>2, LiveOutside
  <2>3. CASE Goes(s, Head(queue[s])) /\ TakeReference(s)
    <3>1. Holders' = Holders BY <1>0, <2>3, TakeHolders
    <3>2. Head(queue[s]) \in {"join", "leave"}
      BY <1>4 DEF NextTask, SocketTypes
    <3>3. at'[s] = "waiting" /\ step'[s] \in {"join", "leave"}
      BY <1>0, <2>3, <3>2 DEF Goes, TakeReference
    <3>4. Agree(s)' BY <3>3 DEF Agree, InLock
    <3> QED BY <1>2, <1>3, <2>1, <3>1, <3>4, LiveOutside
  <2> QED BY <1>4, <2>2, <2>3 DEF NextTask
<1>5. ASSUME Locked(s) PROVE LiveInv'
  <2>1. Holders = {} /\ Holders' = {s} BY <1>0, <1>5, AcquireHolders DEF Locked
  <2>2. at'[s] = "in" /\ step'[s] \in {"add", "remove", "unlock"}
    BY <1>0, <1>5 DEF Locked, Acquire, Goes, Checked
  <2>3. Agree(s)' BY <2>2 DEF Agree, InLock
  <2>4. \A t \in Sockets : Agree(t)' BY <1>1, <1>3, <2>3 DEF Agree
  <2>5. Behind(s)' = 0 BY <2>2 DEF Behind
  <2>6. live' + Behind(s)' = Len(members') BY <1>0, <1>1, <1>2, <2>1, <2>5
  <2> QED BY <2>1, <2>4, <2>6 DEF LiveInv, LiveIsExact, Quiet, Agree
<1>6. ASSUME Unlock(s) PROVE LiveInv'
  <2>1. Holders = {s} /\ Holders' = {} BY <1>0, <1>6, DropHolders DEF Unlock
  <2>2. at'[s] = "leaving" /\ step'[s] = "release" /\ step[s] = "unlock"
    BY <1>0, <1>6 DEF Unlock, DropReference, Goes
  <2>3. Agree(s)' BY <2>2 DEF Agree, InLock
  <2>4. \A t \in Sockets : Agree(t)' BY <1>1, <1>3, <2>3 DEF Agree
  <2>5. Behind(s) = 0 BY <2>2 DEF Behind
  <2>6. live' = Len(members') BY <1>0, <1>1, <1>2, <2>1, <2>5
  <2> QED BY <2>1, <2>4, <2>6 DEF LiveInv, LiveIsExact, Quiet, Agree
<1>7. ASSUME Unlocked(s) PROVE LiveInv'
  <2>1. Holders' = Holders BY <1>0, <1>7, TakeHolders DEF Unlocked
  <2>2. /\ at[s] = "leaving" /\ at'[s] = "out" /\ step'[s] = "idle"
    BY <1>0, <1>7 DEF Unlocked, Release, Goes
  <2>3. s \notin Holders BY <2>2 DEF Holders
  <2>4. Agree(s)' BY <2>2 DEF Agree, InLock
  <2> QED BY <1>2, <1>3, <2>1, <2>3, <2>4, LiveOutside
<1> QED BY <1>4, <1>5, <1>6, <1>7

LEMMA LiveStep ==
    /\ LockInv /\ SyncerInv /\ SocketTypes /\ MemberInv /\ LiveInv
    /\ [Next]_vars
    => LiveInv'
<1> SUFFICES ASSUME LockInv, SyncerInv, SocketTypes, MemberInv, LiveInv, [Next]_vars
             PROVE  LiveInv'
  OBVIOUS
<1>1. ASSUME NEW s \in Sockets, Network(s) PROVE LiveInv'
  <2>1. UNCHANGED <<at, step, live, members>>
    BY <1>1 DEF Network, JoinRequested, Disconnecting, Disconnected, emitVars, registryVars
  <2> QED BY <2>1 DEF LiveInv, LiveIsExact, Quiet, Holders, Behind
<1>2. CASE UNCHANGED vars
  <2>1. UNCHANGED <<at, step, live, members>>
    BY <1>2 DEF vars, relayVars, emitVars, registryVars
  <2> QED BY <2>1 DEF LiveInv, LiveIsExact, Quiet, Holders, Behind
<1>3. CASE Next
  <2> PICK s \in Sockets : Network(s) \/ TaskStep(s) \/ Locked(s) BY <1>3 DEF Next
  <2>1. CASE Join(s) \/ Leave(s) BY <2>1, LiveRegistry
  <2>2. CASE Presence(s) \/ JoinDesignate(s) \/ Promote(s) \/ Demote(s)
             \/ OnJoin(s) \/ OnLeave(s)
    BY <2>2, LiveCalls
  <2>3. CASE NextTask(s) \/ Locked(s) \/ Unlock(s) \/ Unlocked(s) BY <2>3, LiveLocks
  <2> QED BY <1>1, <2>1, <2>2, <2>3 DEF TaskStep
<1> QED BY <1>2, <1>3

\* The room's Manager is told of exactly the sockets that are there.
THEOREM LiveCountExact == Spec => []LiveIsExact
<1>1. LiveInv => LiveIsExact BY DEF LiveInv
<1> QED BY <1>1, MembersSpec, LiveInit, LiveStep, PTL DEF Spec

-----------------------------------------------------------------------------
(***************************************************************************)
(* What the sockets have been told. A handler is behind with the roster    *)
(* until its room-user-change, and with the role until its last            *)
(* sync-designate; what it will still say is what makes up the difference. *)
(***************************************************************************)
Untold == {"joinPresence", "onLeave", "leavePresence"}
Designating == Untold \cup {"joinDesignate", "promote"}
Telling == Designating \cup {"demote"}

\* The sockets a handler has yet to tell that they are, or are not, the syncer's.
ToldYes(s) == IF step[s] \in Designating THEN told[s].isSyncer ELSE {}
ToldNo(s) == IF step[s] \in Telling THEN told[s].notSyncer ELSE {}

RosterInv ==
    /\ (\A s \in Sockets : step[s] \notin Untold) => \A r \in Present \cap room : heard[r] = Present
    /\ \A s \in Sockets : step[s] \in Untold => told[s].roster = Present
    /\ \A s \in Sockets : step[s] \in {"onLeave", "leavePresence"} => s \notin Present

RoleInv ==
    /\ \A r \in Present \cap belief : UserOf[r] = syncer \/ \E s \in Sockets : r \in ToldNo(s)
    /\ \A r \in Present \cap room \cap Writers :
          UserOf[r] = syncer => r \in belief \/ \E s \in Sockets : r \in ToldYes(s)
    /\ \A s \in Sockets : \A r \in Present :
          /\ r \in ToldYes(s) => UserOf[r] = syncer
          /\ r \in ToldNo(s) /\ r \in Writers => UserOf[r] # syncer

ToldInv == RosterInv /\ RoleInv

\* The same with one handler that has anything to tell.
RosterBy(s) ==
    /\ step[s] \notin Untold => \A r \in Present \cap room : heard[r] = Present
    /\ step[s] \in Untold => told[s].roster = Present
    /\ step[s] \in {"onLeave", "leavePresence"} => s \notin Present

RoleBy(s) ==
    /\ \A r \in Present \cap belief : UserOf[r] = syncer \/ r \in ToldNo(s)
    /\ \A r \in Present \cap room \cap Writers : UserOf[r] = syncer => r \in belief \/ r \in ToldYes(s)
    /\ \A r \in Present : /\ r \in ToldYes(s) => UserOf[r] = syncer
                          /\ r \in ToldNo(s) /\ r \in Writers => UserOf[r] # syncer

Silent(t) == step[t] \notin Telling

\* Nothing has been told at first, and nothing is to be.
LEMMA ToldInit == Init => ToldInv
<1> SUFFICES ASSUME Init PROVE ToldInv OBVIOUS
<1>1. Present = {} BY DEF Init, Present, Elements
<1>2. \A s \in Sockets : step[s] = "idle" BY DEF Init
<1> QED BY <1>1, <1>2 DEF ToldInv, RosterInv, RoleInv, Untold

\* Beside the handler in the lock the others have nothing to tell.
LEMMA OthersAreSilent ==
    ASSUME LiveInv, LockInv, NEW s \in Sockets, step[s] \in InLock
    PROVE  \A t \in Sockets \ {s} : Silent(t)
<1> SUFFICES ASSUME NEW t \in Sockets, t # s, step[t] \in Telling PROVE FALSE BY DEF Silent
<1>1. step[t] \in InLock BY DEF Telling, Designating, Untold, InLock
<1>2. s \in Holders /\ t \in Holders BY <1>1, InLockHolds
<1> QED BY <1>2, OneHolder

\* What the invariant says of the handler in the lock.
LEMMA ToldBy ==
    ASSUME ToldInv, NEW s \in Sockets, \A t \in Sockets \ {s} : Silent(t)
    PROVE  RosterBy(s) /\ RoleBy(s)
<1>1. \A t \in Sockets \ {s} : step[t] \notin Untold /\ ToldYes(t) = {} /\ ToldNo(t) = {}
  BY DEF Silent, Telling, Designating, ToldYes, ToldNo
<1>2. RosterBy(s) BY <1>1 DEF ToldInv, RosterInv, RosterBy
<1>3. RoleBy(s) BY <1>1 DEF ToldInv, RoleInv, RoleBy
<1> QED BY <1>2, <1>3

\* A handler in the lock keeps the invariant if what it leaves does.
LEMMA ToldAfter ==
    ASSUME NEW s \in Sockets, \A t \in Sockets \ {s} : Silent(t)', RosterBy(s)', RoleBy(s)'
    PROVE  ToldInv'
<1>1. \A t \in Sockets \ {s} : step'[t] \notin Untold /\ ToldYes(t)' = {} /\ ToldNo(t)' = {}
  BY DEF Silent, Telling, Designating, ToldYes, ToldNo
<1>2. RosterInv' BY <1>1 DEF RosterInv, RosterBy, Untold
<1>3. RoleInv' BY <1>1 DEF RoleInv, RoleBy
<1> QED BY <1>2, <1>3 DEF ToldInv

\* A step that tells nothing, and is about nothing that is told.
LEMMA NothingMoreTold ==
    ASSUME ToldInv, UNCHANGED <<members, syncer, room, heard, belief>>,
           \A t \in Sockets : \/ step'[t] = step[t] /\ told'[t] = told[t]
                              \/ Silent(t) /\ Silent(t)'
    PROVE  ToldInv'
<1>1. Present' = Present BY DEF Present
<1>2. \A t \in Sockets : /\ step'[t] \in Untold <=> step[t] \in Untold
                         /\ step[t] \in Untold => step'[t] = step[t] /\ told'[t] = told[t]
                         /\ step'[t] \in Untold => step'[t] = step[t]
                         /\ ToldYes(t)' = ToldYes(t) /\ ToldNo(t)' = ToldNo(t)
  BY DEF Silent, Telling, Designating, ToldYes, ToldNo
<1>3. RosterInv'
  <2>1. (\A t \in Sockets : step'[t] \notin Untold) => \A t \in Sockets : step[t] \notin Untold
    BY <1>2
  <2>2. \A t \in Sockets : step'[t] \in Untold => told'[t].roster = Present'
    BY <1>1, <1>2 DEF ToldInv, RosterInv
  <2>3. \A t \in Sockets : step'[t] \in {"onLeave", "leavePresence"} => t \notin Present'
    BY <1>1, <1>2 DEF ToldInv, RosterInv, Untold
  <2> QED BY <1>1, <2>1, <2>2, <2>3 DEF ToldInv, RosterInv
<1>4. RoleInv' BY <1>1, <1>2 DEF ToldInv, RoleInv
<1> QED BY <1>3, <1>4 DEF ToldInv

\* A socket that is let go hears nothing more, and is asked nothing more.
LEMMA DisconnectedTold ==
    ASSUME ToldInv, SocketTypes, NEW s \in Sockets, Disconnected(s)
    PROVE  ToldInv'
<1>1. /\ UNCHANGED <<members, syncer, step, told>>
      /\ room' = room \ {s} /\ belief' = belief \ {s} /\ heard' = [heard EXCEPT ![s] = {}]
  BY DEF Disconnected, registryVars
<1>2. Present' = Present BY <1>1 DEF Present
<1>3. \A t \in Sockets : ToldYes(t)' = ToldYes(t) /\ ToldNo(t)' = ToldNo(t)
  BY <1>1 DEF ToldYes, ToldNo
<1>4. \A r \in room' : r \in room /\ r # s /\ r \in Sockets /\ heard'[r] = heard[r]
  BY <1>1 DEF SocketTypes
<1>5. RosterInv' BY <1>1, <1>2, <1>4 DEF ToldInv, RosterInv
<1>6. RoleInv' BY <1>1, <1>2, <1>3 DEF ToldInv, RoleInv
<1> QED BY <1>5, <1>6 DEF ToldInv

\* The others are silent after a call of the handler in the lock as well.
LEMMA StillSilent ==
    ASSUME SocketTypes, NEW s \in Sockets, \A t \in Sockets \ {s} : Silent(t),
           NEW label, step' = [step EXCEPT ![s] = label]
    PROVE  step'[s] = label /\ \A t \in Sockets \ {s} : Silent(t)'
BY DEF SocketTypes, Silent

\* room-user-change: everybody in the room has the roster of the room.
LEMMA PresenceTold ==
    ASSUME ToldInv, LiveInv, LockInv, SocketTypes, NEW s \in Sockets, Presence(s)
    PROVE  ToldInv'
<1>1. /\ step[s] \in {"joinPresence", "leavePresence"}
      /\ UNCHANGED <<members, syncer, told, room, belief>>
      /\ step' = [step EXCEPT ![s] = IF step[s] = "joinPresence" THEN "joinDesignate" ELSE "promote"]
      /\ heard' = [r \in Sockets |->
                      IF r \in (IF step[s] = "joinPresence" THEN room ELSE room \ {s})
                      THEN told[s].roster ELSE heard[r]]
  BY DEF Presence, Goes, registryVars
<1>2. \A t \in Sockets \ {s} : Silent(t) BY <1>1, OthersAreSilent DEF InLock
<1>3. RosterBy(s) /\ RoleBy(s) BY <1>2, ToldBy
<1>4. /\ step'[s] \in {"joinDesignate", "promote"}
      /\ \A t \in Sockets \ {s} : Silent(t)'
  BY <1>1, <1>2, StillSilent
<1>5. Present' = Present BY <1>1 DEF Present
<1>6. \A r \in Present \cap room : heard'[r] = Present
  <2>1. told[s].roster = Present BY <1>1, <1>3 DEF RosterBy, Untold
  <2>2. step[s] = "leavePresence" => s \notin Present BY <1>3 DEF RosterBy
  <2>3. room \subseteq Sockets BY DEF SocketTypes
  <2> QED BY <1>1, <2>1, <2>2, <2>3
<1>7. RosterBy(s)' BY <1>1, <1>4, <1>5, <1>6 DEF RosterBy, Untold
<1>8. ToldYes(s)' = ToldYes(s) /\ ToldNo(s)' = ToldNo(s)
  BY <1>1, <1>4 DEF ToldYes, ToldNo, Telling, Designating, Untold
<1>9. RoleBy(s)' BY <1>1, <1>3, <1>5, <1>8 DEF RoleBy
<1> QED BY <1>4, <1>7, <1>9, ToldAfter

\* sync-designate: what is said is true of the syncer, and whom it is no
\* longer true of is told so.
LEMMA DesignateTold ==
    ASSUME ToldInv, LiveInv, LockInv, SocketTypes, NEW s \in Sockets,
           JoinDesignate(s) \/ Promote(s) \/ Demote(s)
    PROVE  ToldInv'
<1>1. /\ step[s] \in {"joinDesignate", "promote", "demote"}
      /\ UNCHANGED <<members, syncer, told, room, heard>>
  BY DEF JoinDesignate, Promote, Demote, registryVars
<1>2. \A t \in Sockets \ {s} : Silent(t) BY <1>1, OthersAreSilent DEF InLock
<1>3. RosterBy(s) /\ RoleBy(s) BY <1>2, ToldBy
<1>4. Present' = Present BY <1>1 DEF Present
<1>5. ASSUME NEW label \in {"onJoin", "demote", "unlock"}, step' = [step EXCEPT ![s] = label],
             RoleBy(s)'
      PROVE  ToldInv'
  <2>1. step'[s] = label /\ \A t \in Sockets \ {s} : Silent(t)' BY <1>2, <1>5, StillSilent
  <2>2. RosterBy(s)' BY <1>1, <1>3, <1>4, <2>1 DEF RosterBy, Untold
  <2> QED BY <1>5, <2>1, <2>2, ToldAfter
<1>6. CASE JoinDesignate(s)
  <2>1. /\ step[s] = "joinDesignate" /\ step' = [step EXCEPT ![s] = "onJoin"]
        /\ belief' = (belief \cup told[s].isSyncer) \ told[s].notSyncer
    BY <1>6 DEF JoinDesignate, Goes
  <2>2. step'[s] = "onJoin" BY <2>1 DEF SocketTypes
  <2>3. ToldYes(s) = told[s].isSyncer /\ ToldNo(s) = told[s].notSyncer
    BY <2>1 DEF ToldYes, ToldNo, Telling, Designating
  <2>4. ToldYes(s)' = {} /\ ToldNo(s)' = {} BY <2>2 DEF ToldYes, ToldNo, Telling, Designating, Untold
  <2>5. RoleBy(s)' BY <1>1, <1>3, <1>4, <2>1, <2>3, <2>4 DEF RoleBy
  <2> QED BY <1>5, <2>1, <2>5
<1>7. CASE Promote(s)
  <2>1. /\ step[s] = "promote" /\ step' = [step EXCEPT ![s] = "demote"]
        /\ belief' = belief \cup told[s].isSyncer
    BY <1>7 DEF Promote, Goes
  <2>2. step'[s] = "demote" BY <2>1 DEF SocketTypes
  <2>3. ToldYes(s) = told[s].isSyncer /\ ToldNo(s)' = ToldNo(s) /\ ToldYes(s)' = {}
    BY <1>1, <2>1, <2>2 DEF ToldYes, ToldNo, Telling, Designating, Untold
  <2>4. RoleBy(s)' BY <1>1, <1>3, <1>4, <2>1, <2>3 DEF RoleBy
  <2> QED BY <1>5, <2>1, <2>4
<1>8. CASE Demote(s)
  <2>1. /\ step[s] = "demote" /\ step' = [step EXCEPT ![s] = "unlock"]
        /\ belief' = belief \ told[s].notSyncer
    BY <1>8 DEF Demote, Goes
  <2>2. step'[s] = "unlock" BY <2>1 DEF SocketTypes
  <2>3. /\ ToldNo(s) = told[s].notSyncer /\ ToldYes(s) = {}
        /\ ToldYes(s)' = {} /\ ToldNo(s)' = {}
    BY <2>1, <2>2 DEF ToldYes, ToldNo, Telling, Designating, Untold
  <2>4. RoleBy(s)' BY <1>1, <1>3, <1>4, <2>1, <2>3 DEF RoleBy
  <2> QED BY <1>5, <2>1, <2>4
<1> QED BY <1>6, <1>7, <1>8

\* A hook tells the Manager; the last leave has nobody to tell.
LEMMA HooksTold ==
    ASSUME ToldInv, LiveInv, LockInv, SocketTypes, NEW s \in Sockets, OnJoin(s) \/ OnLeave(s)
    PROVE  ToldInv'
<1>1. CASE OnJoin(s)
  <2>1. /\ step[s] = "onJoin" /\ step' = [step EXCEPT ![s] = "unlock"]
        /\ UNCHANGED <<members, syncer, told, room, heard, belief>>
    BY <1>1 DEF OnJoin, Goes, registryVars, clientVars
  <2>2. step'[s] = "unlock" /\ \A t \in Sockets : t # s => step'[t] = step[t]
    BY <2>1 DEF SocketTypes
  <2>3. Silent(s) /\ Silent(s)' BY <2>1, <2>2 DEF Silent, Telling, Designating, Untold
  <2> QED BY <2>1, <2>2, <2>3, NothingMoreTold
<1>2. CASE OnLeave(s)
  <2>1. /\ step[s] = "onLeave" /\ UNCHANGED <<members, syncer, told, room, heard, belief>>
        /\ step' = [step EXCEPT ![s] = IF told[s].roster = {} THEN "unlock" ELSE "leavePresence"]
    BY <1>2 DEF OnLeave, Goes, registryVars, clientVars
  <2>2. \A t \in Sockets \ {s} : Silent(t) BY <2>1, OthersAreSilent DEF InLock
  <2>3. RosterBy(s) /\ RoleBy(s) BY <2>2, ToldBy
  <2>4. /\ step'[s] = IF told[s].roster = {} THEN "unlock" ELSE "leavePresence"
        /\ \A t \in Sockets \ {s} : Silent(t)'
    BY <2>1, <2>2, StillSilent
  <2>5. Present' = Present BY <2>1 DEF Present
  <2>6. told[s].roster = Present /\ s \notin Present BY <2>1, <2>3 DEF RosterBy, Untold
  <2>7. RosterBy(s)' BY <2>1, <2>4, <2>5, <2>6 DEF RosterBy, Untold
  <2>8. CASE Present = {} BY <2>4, <2>5, <2>7, <2>8, ToldAfter DEF RoleBy
  <2>9. CASE Present # {}
    <3>1. step'[s] = "leavePresence" BY <2>4, <2>6, <2>9
    <3>2. ToldYes(s)' = ToldYes(s) /\ ToldNo(s)' = ToldNo(s)
      BY <2>1, <3>1 DEF ToldYes, ToldNo, Telling, Designating, Untold
    <3>3. RoleBy(s)' BY <2>1, <2>3, <2>5, <3>2 DEF RoleBy
    <3> QED BY <2>4, <2>7, <3>3, ToldAfter
  <2> QED BY <2>8, <2>9
<1> QED BY <1>1, <1>2

\* registry.join: if it elects the joiner, nobody else has the joiner's user.
LEMMA JoinerIsFirst ==
    ASSUME SyncerInv, NEW s \in Sockets, Join(s), syncer' # syncer, NEW r \in Present
    PROVE  UserOf[r] # UserOf[s]
<1> DEFINE ms == Append(members, s)
<1>1. members' = ms /\ syncer' = Elect(ms, syncer) BY DEF Join, registryVars
<1>2. members \in Seq(Sockets) /\ syncer = NoUser /\ syncer' = UserOf[s] BY JoinSyncer DEF SyncerInv
<1>3. /\ ms \in Seq(Sockets) /\ ms[Len(members) + 1] = s
      /\ Eligible(ms) \subseteq Eligible(members) \cup {Len(members) + 1}
  BY <1>2, AppendElements
<1>4. \A i \in DOMAIN members : ms[i] = members[i] /\ i \in 1 .. (Len(members) + 1) - 1
  BY <1>2
<1> HIDE DEF ms
<1>5. Eligible(ms) \subseteq {Len(members) + 1} BY <1>2, <1>3 DEF SyncerInv
<1>6. syncer' = ElectNext(ms) BY <1>1, <1>2 DEF Elect
<1>7. Eligible(ms) # {}
  <2>1. UserOf[s] # NoUser BY RelayConstants
  <2> QED BY <1>2, <1>6, <2>1 DEF ElectNext
<1>8. Len(members) + 1 \in Ranked(ms) BY <1>5, <1>7 DEF Eligible
<1>9. \A j \in 1 .. (Len(members) + 1) - 1 : UserOf[ms[j]] # UserOf[s] BY <1>3, <1>8 DEF Ranked
<1>10. PICK i \in DOMAIN members : r = members[i] BY DEF Present, Elements
<1> QED BY <1>4, <1>9, <1>10

\* The joiner is told of its own role; the others keep theirs.
LEMMA JoinTold ==
    ASSUME ToldInv, LiveInv, LockInv, SocketTypes, SyncerInv, NEW s \in Sockets, Join(s)
    PROVE  ToldInv'
<1> DEFINE ms == Append(members, s)
           yes == syncer' = UserOf[s] /\ s \in Writers
<1>1. step[s] = "add" BY DEF Join
<1>2. \A t \in Sockets \ {s} : Silent(t) BY <1>1, OthersAreSilent DEF InLock
<1>3. RosterBy(s) /\ RoleBy(s) BY <1>2, ToldBy
<1>4. CASE s \in Elements(members)
  <2>1. /\ step' = [step EXCEPT ![s] = "unlock"] /\ UNCHANGED <<members, syncer, told, room, heard, belief>>
    BY <1>4 DEF Join, Goes, registryVars, clientVars
  <2>2. step'[s] = "unlock" /\ \A t \in Sockets : t # s => step'[t] = step[t]
    BY <2>1 DEF SocketTypes
  <2>3. Silent(s) /\ Silent(s)' BY <1>1, <2>2 DEF Silent, Telling, Designating, Untold
  <2> QED BY <2>1, <2>2, <2>3, NothingMoreTold
<1>5. CASE s \notin Elements(members)
  <2>1. /\ members' = ms /\ room' = room \cup {s} /\ UNCHANGED <<heard, belief>>
        /\ step' = [step EXCEPT ![s] = "joinPresence"]
        /\ told' = [told EXCEPT ![s] = [roster |-> Elements(ms), isSyncer |-> IF yes THEN {s} ELSE {},
                                        notSyncer |-> IF yes THEN {} ELSE {s}]]
    BY <1>5 DEF Join, Goes, clientVars
  <2>2. Elements(ms) = Present \cup {s} BY AppendElements DEF SyncerInv, Present
  <2>3. Present' = Present \cup {s} BY <2>1, <2>2 DEF Present
  <2>4. told'[s] = [roster |-> Elements(ms), isSyncer |-> IF yes THEN {s} ELSE {},
                    notSyncer |-> IF yes THEN {} ELSE {s}]
    BY <2>1 DEF SocketTypes
  <2>5. step'[s] = "joinPresence" /\ \A t \in Sockets \ {s} : Silent(t)'
    BY <1>2, <2>1, StillSilent
  <2>6. told'[s].roster = Present' BY <2>2, <2>3, <2>4
  <2>7. ToldYes(s)' = (IF yes THEN {s} ELSE {}) /\ ToldNo(s)' = (IF yes THEN {} ELSE {s})
    BY <2>4, <2>5 DEF ToldYes, ToldNo, Telling, Designating, Untold
  <2>8. ToldYes(s) = {} /\ ToldNo(s) = {} BY <1>1 DEF ToldYes, ToldNo, Telling, Designating, Untold
  <2>9. RosterBy(s)' BY <2>5, <2>6 DEF RosterBy, Untold
  <2>10. ASSUME NEW r \in Present, r \in belief PROVE UserOf[r] = syncer'
    <3>1. UserOf[r] = syncer BY <1>3, <2>8, <2>10 DEF RoleBy
    <3>2. r \in Sockets BY DEF Present, Elements, SyncerInv
    <3>3. syncer # NoUser BY <3>1, <3>2, RelayConstants
    <3> QED BY <3>1, <3>3, JoinSyncer
  <2>11. ASSUME NEW r \in Present \cap room \cap Writers, UserOf[r] = syncer' PROVE r \in belief
    <3>1. syncer' = syncer BY <2>11, JoinSyncer, JoinerIsFirst
    <3> QED BY <1>3, <2>8, <2>11, <3>1 DEF RoleBy
  <2>12. s \notin Present BY <1>5 DEF Present
  <2> HIDE DEF yes, ms
  <2>13. \A r \in Present' \cap belief' : UserOf[r] = syncer' \/ r \in ToldNo(s)'
    BY <2>1, <2>3, <2>7, <2>10 DEF yes
  <2>14. \A r \in Present' \cap room' \cap Writers : UserOf[r] = syncer' => r \in belief' \/ r \in ToldYes(s)'
    BY <2>1, <2>3, <2>7, <2>11 DEF yes
  <2>15. \A r \in Present' : /\ r \in ToldYes(s)' => UserOf[r] = syncer'
                             /\ r \in ToldNo(s)' /\ r \in Writers => UserOf[r] # syncer'
    BY <2>7 DEF yes
  <2>16. RoleBy(s)' BY <2>13, <2>14, <2>15 DEF RoleBy
  <2> QED BY <2>5, <2>9, <2>16, ToldAfter
<1> QED BY <1>4, <1>5

\* registry.leave: the sockets of the new syncer and of the old one are told.
LEMMA LeaveTold ==
    ASSUME ToldInv, LiveInv, LockInv, SocketTypes, SyncerInv, MemberInv, NEW s \in Sockets, Leave(s)
    PROVE  ToldInv'
<1> DEFINE ms == Without(members, s)
<1>1. /\ step[s] = "remove" /\ members' = ms /\ syncer' = SyncerAfter(ms)
      /\ UNCHANGED <<room, heard, belief>>
      /\ step' = [step EXCEPT ![s] = "onLeave"]
      /\ told' = [told EXCEPT ![s] = [roster |-> Elements(ms), isSyncer |-> Promoted(ms, syncer'),
                                      notSyncer |-> Demoted(ms, syncer')]]
  BY DEF Leave, Goes, clientVars
<1>2. \A t \in Sockets \ {s} : Silent(t) BY <1>1, OthersAreSilent DEF InLock
<1>3. RoleBy(s) BY <1>2, ToldBy
<1>4. s \in Present
  <2>1. IsLeaving(s) BY <1>1 DEF IsLeaving
  <2> QED BY <2>1 DEF MemberInv
<1>5. Elements(ms) = Present \ {s} BY <1>4, WithoutElements DEF SyncerInv, MemberInv, Distinct, Present
<1>6. Present' = Present \ {s} BY <1>1, <1>5 DEF Present
<1>7. told'[s] = [roster |-> Elements(ms), isSyncer |-> Promoted(ms, syncer'),
                  notSyncer |-> Demoted(ms, syncer')]
  BY <1>1 DEF SocketTypes
<1>8. step'[s] = "onLeave" /\ \A t \in Sockets \ {s} : Silent(t)' BY <1>1, <1>2, StillSilent
<1>9. RosterBy(s)' BY <1>5, <1>6, <1>7, <1>8 DEF RosterBy, Untold
<1>10. ToldYes(s)' = Promoted(ms, syncer') /\ ToldNo(s)' = Demoted(ms, syncer')
  BY <1>7, <1>8 DEF ToldYes, ToldNo, Telling, Designating, Untold
<1>11. ToldYes(s) = {} /\ ToldNo(s) = {} BY <1>1 DEF ToldYes, ToldNo, Telling, Designating, Untold
<1>12. \A u : SocketsOf(ms, u) = {r \in Present' : UserOf[r] = u} BY <1>5, <1>6 DEF SocketsOf
<1> HIDE DEF ms
<1>13. RoleBy(s)'
  <2>1. CASE syncer' = syncer
    <3>1. ToldYes(s)' = {} /\ ToldNo(s)' = {} BY <1>10, <2>1 DEF Promoted, Demoted
    <3> QED BY <1>1, <1>3, <1>6, <1>11, <2>1, <3>1 DEF RoleBy
  <2>2. CASE syncer' # syncer
    <3>1. /\ ToldYes(s)' = {r \in Present' : UserOf[r] = syncer'}
          /\ ToldNo(s)' = {r \in Present' : UserOf[r] = syncer}
      BY <1>10, <1>12, <2>2 DEF Promoted, Demoted
    <3> QED BY <1>1, <1>3, <1>6, <1>11, <2>2, <3>1 DEF RoleBy
  <2> QED BY <2>1, <2>2
<1> QED BY <1>8, <1>9, <1>13, ToldAfter

\* Into the lock and out of it, and in the queue, nothing is told.
LEMMA LocksTold ==
    ASSUME ToldInv, SocketTypes, NEW s \in Sockets,
           JoinRequested(s) \/ Disconnecting(s) \/ NextTask(s) \/ Locked(s) \/ Unlock(s) \/ Unlocked(s)
    PROVE  ToldInv'
<1>1. /\ UNCHANGED <<members, syncer, room, heard, belief>>
      /\ \A t \in Sockets : t # s => step'[t] = step[t] /\ told'[t] = told[t]
  BY DEF JoinRequested, Disconnecting, NextTask, Locked, Unlock, Unlocked, Goes, registryVars, clientVars,
         SocketTypes
<1>2. (step'[s] = step[s] /\ told'[s] = told[s]) \/ (Silent(s) /\ Silent(s)')
  <2>1. CASE JoinRequested(s) \/ Disconnecting(s) BY <2>1 DEF JoinRequested, Disconnecting
  <2>2. CASE NextTask(s)
    <3>1. Head(queue[s]) \in {"join", "leave"} BY <2>2 DEF NextTask, SocketTypes
    <3> QED BY <2>2, <3>1 DEF NextTask, Goes, SocketTypes, Silent, Telling, Designating, Untold
  <2>3. CASE Locked(s) BY <2>3 DEF Locked, Goes, Checked, SocketTypes, Silent, Telling, Designating, Untold
  <2>4. CASE Unlock(s) \/ Unlocked(s)
    BY <2>4 DEF Unlock, Unlocked, Goes, SocketTypes, Silent, Telling, Designating, Untold
  <2> QED BY <2>1, <2>2, <2>3, <2>4
<1> QED BY <1>1, <1>2, NothingMoreTold

\* Every step of a room keeps what is said of its news.
LEMMA ToldStep ==
    /\ LockInv /\ SyncerInv /\ SocketTypes /\ MemberInv /\ LiveInv /\ ToldInv
    /\ [Next]_vars
    => ToldInv'
<1> SUFFICES ASSUME LockInv, SyncerInv, SocketTypes, MemberInv, LiveInv, ToldInv, [Next]_vars
             PROVE  ToldInv'
  OBVIOUS
<1>1. CASE UNCHANGED vars
  BY <1>1, NothingMoreTold DEF vars, relayVars, registryVars, clientVars
<1>2. CASE Next
  <2> PICK s \in Sockets : Network(s) \/ TaskStep(s) \/ Locked(s) BY <1>2 DEF Next
  <2> QED BY DisconnectedTold, PresenceTold, DesignateTold, HooksTold, JoinTold, LeaveTold, LocksTold
          DEF Network, TaskStep
<1> QED BY <1>1, <1>2

\* What the rest of a room's state says of what its sockets were told.
LEMMA ToldSpec == Spec => [](LiveInv /\ ToldInv)
BY MembersSpec, LiveInit, LiveStep, ToldInit, ToldStep, PTL DEF Spec

\* While no handler has the lock, none has anything to tell.
LEMMA QuietIsSilent ==
    ASSUME LiveInv, Quiet, NEW t \in Sockets
    PROVE  step[t] \notin Untold /\ ToldYes(t) = {} /\ ToldNo(t) = {}
<1>1. step[t] \notin InLock BY InLockHolds DEF Quiet
<1> QED BY <1>1 DEF InLock, ToldYes, ToldNo, Telling, Designating, Untold

\* Whoever is in the room has been told last who is in it: a roster is sent
\* before another can be made.
THEOREM RostersAreFresh == Spec => []RosterIsFresh
<1>1. LiveInv /\ ToldInv => RosterIsFresh
  BY QuietIsSilent DEF RosterIsFresh, ToldInv, RosterInv
<1> QED BY <1>1, ToldSpec, PTL

\* Whoever believes in the role has it: an election that takes the role away
\* says so before the lock is free.
THEOREM NobodyIsStale == Spec => []NoStaleSyncer
<1>1. LiveInv /\ ToldInv => NoStaleSyncer
  BY QuietIsSilent DEF NoStaleSyncer, ToldInv, RoleInv
<1> QED BY <1>1, ToldSpec, PTL

\* Every socket that can save for the syncer knows that it is to.
THEOREM SyncersKnow == Spec => []SyncerKnows
<1>1. LiveInv /\ ToldInv => SyncerKnows
  BY QuietIsSilent DEF SyncerKnows, ToldInv, RoleInv
<1> QED BY <1>1, ToldSpec, PTL

=============================================================================
