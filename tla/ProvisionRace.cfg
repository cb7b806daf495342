CONSTANTS
    p1 = p1
    p2 = p2
    Procs <- Slots
    Kinds = {"create"}
    Overlapping = {"create"}
    MaxCalls = 2
    MaxOutages = 0
SPECIFICATION Spec
PROPERTY
    SecretStable
