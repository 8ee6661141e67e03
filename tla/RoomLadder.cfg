SPECIFICATION Spec
CONSTANTS
    alice = alice
    bob = bob
    a1 = a1
    a2 = a2
    b1 = b1
    s1 = s1
    s2 = s2
    Scenes = {s1}
    Empty = empty
    OurLock = ours
    OtherLocks = {theirs}
    NoLock = noLock
    Users = {alice, bob}
    Tokens = {a1, b1}
    Owner <- MCOwner
    WriteTokens = {a1, b1}
    NoUser = noUser
    NoToken = noToken
    NoScene = noScene
    NoVersion = noVersion
    Faults = {"tokenRejected", "noWriteAccess", "failed", "lostReply"}
    MaxPuts = 1
    MaxMembers = 1
    MaxFaults = 1
    MaxStrangers = 1
    MaxCrashes = 0
SYMMETRY UserSymmetry
INVARIANTS
    TakeoverKept
    SavePausedInConflict
CHECK_DEADLOCK FALSE
