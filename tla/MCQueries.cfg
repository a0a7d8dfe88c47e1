SPECIFICATION MCSpec
CONSTANTS
    Spelling <- MCSpelling
    Texts <- MCTexts
    Programs <- MCPrograms
    Walks <- MCWalks
    Spaces <- MCSpaces
    Instances <- MCInstances
    Curves <- MCCurves
    Models <- MCModels
    Pairs <- MCPairs
CHECK_DEADLOCK FALSE
INVARIANTS
    TextReadsBack
    ProgramsParse
    ExistenceIsReach
    DiffsReplay
    SpacesAreWhole
    PhysicsIsComputed
