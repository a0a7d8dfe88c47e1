SPECIFICATION Spec
CONSTANTS
    ra = ra
    rb = rb
    rc = rc
    rd = rd
    talk = talk
    nozzle = nozzle
    duct = duct
    bleed = bleed
    route = route
    nothing = nothing
    Nothing = nothing
    Req = {ra, rb, rc, rd}
    Element = {talk, nozzle, duct, bleed, route}
    Kind <- MCKind
    Near <- MCNear
    Incompatible <- MCIncompatible
    Linked <- MCLinked
    Prerequisite <- MCPrerequisite
    Unacceptable = {"overloaded", "none of them"}
    Mixes <- MCMixes
    Fails = {rb, rd}
CHECK_DEADLOCK FALSE
INVARIANTS
    MessagesKept
    ChoicesAgreeUnlessMissed
    BodiesAreReplayable
    FrozenIsWhole
