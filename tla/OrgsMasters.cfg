CONSTANTS
    p1 = p1
    p2 = p2
    s = s
    acme = acme
    acme2 = acme2
    dash1 = dash1
    dash2 = dash2
    dash3 = dash3
    ada = ada
    bob = bob
    x1 = x1
    Procs <- TwoSlots
    Server = s
    Kinds = {"init"}
    Names <- TwoNames
    Candidates <- Tries
    EnvName = acme
    Emails <- TwoEmails
    EnvEmail = ada
    Projects <- OneProject
    MaxCalls = 2
    MaxFailures = 0
SPECIFICATION Spec
PROPERTY
    NoExtraMasters
