CONSTANTS
    p1 = p1
    p2 = p2
    Procs <- Slots
    Kinds = {"create", "detail"}
    Overlapping = {"detail"}
    MaxCalls = 3
    MaxOutages = 0
SPECIFICATION Spec
PROPERTY
    LiveMeansDeployed
