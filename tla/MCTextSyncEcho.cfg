SPECIFICATION Spec
CONSTANTS
    Id = {1, 2, 3, 4}
    Name = {"p", "q", " "}
    Blank = " "
    Kind = {"structure", "port"}
    NewLines <- MCNewLines
    First <- MCFirst
    Handler = {h1, h2}
    MaxEvents = 1
    MaxCommits = 3
INVARIANTS OneTransaction

CHECK_DEADLOCK FALSE
