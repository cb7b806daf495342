CONSTANTS
    r1 = r1
    r2 = r2
    m1 = m1
    f1 = f1
    f2 = f2
    Base <- TwoFiles
    App <- OneApp
    Runners <- TwoRunners
    Prepares = TRUE
    MaxRuns = 2
    MaxFailures = 0
SPECIFICATION Spec
INVARIANT
    AppliedFilesSkipped
