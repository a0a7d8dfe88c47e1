SPECIFICATION Spec
CONSTANTS
    d1 = d1
    u1 = u1
    p1 = p1
    v1 = v1
    fan = fan
    core = core
    nothing = nothing
    Nothing = nothing
    Req = {d1, u1, p1, v1}
    May <- MCMay
    Subsystem = {fan, core}
    Initially <- MCInitially
    MaxVersion <- MCMaxVersion
    MaxHandles = 3
    MaxRestarts = 2
    Fails = {v1}
CHECK_DEADLOCK FALSE
INVARIANTS
    HandlesAreDurable
    AcceptedIsMaterialized
PROPERTIES
    HandlesSurvive
