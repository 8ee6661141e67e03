SPECIFICATION Spec
CONSTANTS
    alice = alice
    bob = bob
    a1 = a1
    a2 = a2
    b1 = b1
    s1 = s1
    s2 = s2
    Scenes = {s1, s2}
    Empty = empty
    OurLock = ours
    OtherLocks = {theirs}
    NoLock = noLock
    Users = {alice}
    Tokens = {a1}
    Owner <- MCOwner
    WriteTokens = {a1}
    NoUser = noUser
    NoToken = noToken
    NoScene = noScene
    NoVersion = noVersion
    Faults = {"failed", "lostReply", "emptyConflict"}
    MaxPuts = 2
    MaxMembers = 1
    MaxFaults = 1
    MaxStrangers = 2
    MaxCrashes = 1
SYMMETRY SceneSymmetry
INVARIANTS
    TypeOK
    CleanMeansSaved
    SavePausedInConflict
    ConflictHasCause
    HaveLockMeansLocked
    ClosedMeansUnlocked
    LiveNeverOvercounts

CHECK_DEADLOCK FALSE
