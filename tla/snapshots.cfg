SPECIFICATION Spec
CONSTANTS
    Objects = {"o"}
    Values = {v0, v1}
    Guess = Guess
    Absent = Absent
    NoSnapshot = NoSnapshot
    N = 3
    MaxDelay = 3
    Last = 11
    MaxBreaks = 1
SYMMETRY Symmetry
INVARIANTS
    NewestDecoded
CHECK_DEADLOCK FALSE
