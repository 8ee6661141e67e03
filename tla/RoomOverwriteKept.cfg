SPECIFICATION Spec
CONSTANTS
    alice = alice
    bob = bob
    a1 = a1
    a2 = a2
    b1 = b1
    s1 = s1
    s2 = s2
    Scenes = {s1, s2}
    Empty = empty
    OurLock = ours
    OtherLocks = {theirs}
    NoLock = noLock
    Users = {alice}
    Tokens = {a1}
    Owner <- MCOwner
    WriteTokens = {a1}
    NoUser = noUser
    NoToken = noToken
    NoScene = noScene
    NoVersion = noVersion
    Faults = {"tokenRejected"}
    MaxPuts = 2
    MaxMembers = 1
    MaxFaults = 1
    MaxStrangers = 1
    MaxCrashes = 0
INVARIANTS
    OverwriteKept
CHECK_DEADLOCK FALSE
