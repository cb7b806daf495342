CONSTANTS
    h1 = h1
    h2 = h2
    cb1 = cb1
    e1 = e1
    e2 = e2
    r1 = r1
    r2 = r2
    Handlers <- TwoHandlers
    Callbacks <- OneCallback
    Execs <- TwoExecs
    Usage <- SomeUsage
    Repos <- TwoRepos
    Locked <- SecondRepo
    Configs <- OneEach
    RetryLimit = 1
    MaxFaults = 2
SPECIFICATION FairSpec
INVARIANTS
    RecordedOnce
    AcceptedKept
PROPERTIES
    
    LoweredOnlyUnseen
    ReposCovered
    AcceptedSettles
