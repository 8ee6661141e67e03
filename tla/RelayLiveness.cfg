SPECIFICATION FairSpec
CONSTANTS
    u1 = u1
    u2 = u2
    a = a
    b = b
    c = c
    Callers = {a, b}
    Users <- McUsers
    UserOf <- McTwo
    Writers = {a, b}
    Entries = {e1, e2, e3}
    e1 = e1
    e2 = e2
    e3 = e3
    NoEntry = NoEntry
    NoUser = NoUser
    MaxQueue = 1
CHECK_DEADLOCK FALSE
PROPERTIES
    JoinAnswered
    GoneLeaves
