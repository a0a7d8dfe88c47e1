SPECIFICATION Spec
CONSTANTS
    j1 = j1
    p1 = p1
    p2 = p2
    a1 = a1
    a2 = a2
    nothing = nothing
    Nothing = nothing
    Job = {j1}
    Req = {p1, p2, a1, a2}
    May <- MCMay
    MaxFound = 2
    MaxFaults = 2
    MaxCrashes = 1
CHECK_DEADLOCK FALSE
INVARIANTS
    AcceptedIsComplete
    ImportedOnce
PROPERTIES
    SettlesUnlessLost
