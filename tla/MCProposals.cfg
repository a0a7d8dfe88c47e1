SPECIFICATION Spec
CONSTANTS
    p1 = p1
    a1 = a1
    a2 = a2
    e1 = e1
    l1 = l1
    fan = fan
    core = core
    nothing = nothing
    Nothing = nothing
    Subsystems <- MCSubsystems
    May <- MCMay
    Level <- MCLevel
    Deviation <- MCDeviation
    Req = {p1, a1, a2, e1, l1}
    Checks = {p1}
    Fails = {a1}
CHECK_DEADLOCK FALSE
INVARIANTS
    EverySubsystemDisposed
    DecidedOnce
PROPERTIES
    OthersPropertiesKept
