SPECIFICATION Spec
CONSTANTS
    Id = {1, 2, 3, 4}
    Name = {"p", "q", " "}
    Blank = " "
    Kind = {"structure", "port"}
    NewLines <- MCNewLines
    First <- MCFirst
    Handler = {h1, h2}
    MaxEvents = 2
    MaxCommits = 2
INVARIANTS ReplayIsLive TextIsTaken OthersStand CreatedOnce QuietIsInSync
PROPERTIES SettlesUnlessCrossed

CHECK_DEADLOCK FALSE
