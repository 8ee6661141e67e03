SPECIFICATION Spec
CONSTANTS
    a = a
    b = b
    alice = alice
    bob = bob
    carol = carol
    e1 = e1
    e2 = e2
    Tabs <- McTabs
    Pages <- McTabs
    Users <- McUsers
    Elements <- McElements
    Plans <- McPlans
    Starts <- McStarts
    MaxQueue = 2
    MaxEnters = 2
    MaxInbox = 2
    MaxSaves = 2
    MaxNews = 2
    MaxCuts = 1
    MaxWire = 3
    Replicas = {r1, r2}
    r1 = r1
    r2 = r2
    Rank <- McRank
    MaxScore = 2
    MaxPosts = 2
    MaxTroubles = 3
    FlushedRooms = {r1, r2}
    MaxCalls = 2
    NoScene = NoScene
    NoRecord = NoRecord
    NoTab = NoTab
    None = None
SYMMETRY Symmetry
CHECK_DEADLOCK FALSE
INVARIANTS
    DraftTypes
    UnsyncedStaysPending
    PageShowsPending
    DiscardStaysDiscarded
    OneFailedLoadIsHarmless
    CollabTypes
    SaverIsSyncer
    SettledConverged
    SettledIsSaved
    LastReportIsTrue
    StaleOnlyIfPassedBy
    AgreedViewsServe
    NoSilentLoser
    CleanFlushMeansSaved
