CONSTANTS
    t1 = t1
    t2 = t2
    t3 = t3
    alice = alice
    bob = bob
    p1 = p1
    p2 = p2
    none = none
    Calls <- ThreeCalls
    Users <- TwoUsers
    UserOf <- ByCall
    Conns <- TwoConns
    None = none
    MaxStmts = 2
    MaxFaults = 2
SPECIFICATION FairSpec
INVARIANTS
    OwnClaims
    CleanWhenPooled
    ToldTheTruth
PROPERTY
    CallsEnd
CHECK_DEADLOCK FALSE
