SPECIFICATION Spec
CONSTANTS
    r1 = r1
    r2 = r2
    r3 = r3
    n1 = n1
    n2 = n2
    n3 = n3
    f1 = f1
    f2 = f2
    t1 = t1
    t2 = t2
    nobody = nobody
    Req = {r1, r2, r3}
    Id = {n1, n2, n3, f1, f2}
    Fresh = {f1, f2}
    Temp = {t1, t2}
    Nobody = nobody
    Seeds <- MCSeeds
    Script <- MCScript
CHECK_DEADLOCK FALSE
INVARIANTS
    NoDanglingEdge
    AcyclicUnlessMissed
    LegalUnlessMissed
PROPERTIES
    LastFlowKept
    BreachAcknowledged
