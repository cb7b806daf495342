CONSTANTS
    p1 = p1
    p2 = p2
    Procs <- Slots
    Kinds <- AllKinds
    Overlapping = {"detail"}
    MaxCalls = 3
    MaxOutages = 1
SPECIFICATION FairSpec
INVARIANTS
    RolePasswordAgrees
    PoolerCredentialValid
    DatabaseHasRole
    AdvertisedSidecarsValid
    MarkLiveDeployed
PROPERTIES
    CredentialsStable
    ForgottenLast
    CallsFinish
    ProvisioningSettles
