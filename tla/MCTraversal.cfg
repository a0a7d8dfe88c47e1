SPECIFICATION Spec
CONSTANTS
    Id = {1, 2, 3, 4}
    Traced = {"Satisfy", "Verify"}
    Graphs <- MCGraphs
    Asks <- MCAsks
    MaxDepth = 2
    MaxFanout = 3
    PageSize = 1
    MaxEdits = 1
CHECK_DEADLOCK FALSE
INVARIANTS
    TraversalIsExact
    PagesMissNothing
PROPERTIES
    PagesEnd
