SPECIFICATION Spec
CONSTANTS
    u1 = u1
    u2 = u2
    a = a
    b = b
    c = c
    Callers <- McSockets
    Users <- McUsers
    UserOf <- McUserOf
    Writers <- McWriters
    Entries = {e1, e2, e3}
    e1 = e1
    e2 = e2
    e3 = e3
    NoEntry = NoEntry
    NoUser = NoUser
    MaxQueue = 1
CHECK_DEADLOCK FALSE
INVARIANTS
    RelayTypes
    NoGhostMember
    SyncerCanWrite
    RosterIsFresh
    NoStaleSyncer
    SyncerKnows
    LiveIsExact
    EntryWhileReferenced
PROPERTIES
    JoinElectsOnlyJoiner
    OneHolderAtATime
SYMMETRY EntrySymmetry
