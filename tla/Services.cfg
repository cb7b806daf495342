CONSTANTS
    u1 = u1
    u2 = u2
    u3 = u3
    Projects <- OneProject
    Offered <- AllServices
    Uuids <- ThreeUuids
    Modes <- AllModes
    MaxSecret = 2
    MaxKey = 2
    MaxShape = 2
    MaxCalls = 4
    MaxFaults = 1
SPECIFICATION Spec
INVARIANTS
    ContainersAgree
    
    ServicesAgree
    StoredKeyWorks
    TeardownLeavesNothing
    
CHECK_DEADLOCK FALSE
