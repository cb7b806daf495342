CONSTANTS
    u1 = u1
    u2 = u2
    u3 = u3
    Projects <- TwoProjects
    Offered <- AuthStorage
    Uuids <- ThreeUuids
    Modes <- Namespace
    MaxSecret = 2
    MaxKey = 2
    MaxShape = 1
    MaxCalls = 4
    MaxFaults = 0
SPECIFICATION Spec
INVARIANT
    OwnBucket
CHECK_DEADLOCK FALSE
