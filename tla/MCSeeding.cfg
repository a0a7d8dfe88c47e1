SPECIFICATION SeedSpec
CONSTANTS
    first = first
    second = second
    scale = scale
    Server = {first, second}
    Script = {scale}
    Plan <- MCPlan
    Order <- MCOrder
    StopAt <- MCStopAt
CHECK_DEADLOCK FALSE
INVARIANTS
    GenesisReplays
    ReferenceIsWhole
