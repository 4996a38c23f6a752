SPECIFICATION Spec
CONSTANTS
    n1 = n1
    n2 = n2
    Names = {n1, n2}
    CharNames = {"Noxis", "x"}
    AgencyName = "Noxis"
    NoUser = NoUser
    NoChar = NoChar
    NoLegacy = NoLegacy
    Free = Free
    NoClient = NoClient
    NoMatch = NoMatch
    MaxID = 4
    MaxChar = 3
    CharsPerUser = 2
    Matches <- Results
    Clients <- Connections
    c1 = c1
    c2 = c2
    Casts <- MirroredOnly
    MaxSteps = 3
SYMMETRY Symmetry
INVARIANTS
    MirrorUpToDate
CHECK_DEADLOCK FALSE
