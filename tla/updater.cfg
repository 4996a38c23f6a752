SPECIFICATION Spec
CONSTANTS
    c1 = c1
    c2 = c2
    Clients <- TwoClients
    Versions = {"v1", "v2"}
    First = "v1"
    None = "none"
    Torn = "torn"
    RetryCap = 1
SYMMETRY Symmetry
INVARIANTS
    TypeOK
    CancelHolds
    InstallsWhatWasVerified
    WholeReleaseStays
CHECK_DEADLOCK FALSE
