SPECIFICATION Spec
CONSTANTS
    r1 = r1
    r2 = r2
    r3 = r3
    r4 = r4
    r5 = r5
    main = main
    b1 = b1
    b2 = b2
    Req = {r1, r2, r3, r4, r5}
    Name = {main, b1, b2}
    Main = main
    May <- MCMay
    Entries <- MCEntries
SYMMETRY Interchangeable
CHECK_DEADLOCK FALSE
INVARIANTS
    ChainRooted
    CompletedIsRecorded
    DiffAgainstParent
    HistoryLossOnlyByRace
PROPERTIES
    HeadNeverRevives
