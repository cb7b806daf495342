CONSTANTS
    c1 = c1
    c2 = c2
    k1 = k1
    k2 = k2
    Chans <- TwoChans
    Apps <- TwoApps
    Keys <- TwoKeys
    MaxPush = 2
    MaxChange = 3
SPECIFICATION FairSpec
INVARIANTS
    TypeOK
    RefreshAlive
    NothingOutlivesStop
    HeardInOrder
    PresenceAgrees
PROPERTIES
    PushesHeard
    JoinedHoldsCurrent
CHECK_DEADLOCK FALSE
