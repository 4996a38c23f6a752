SPECIFICATION Spec
CONSTANTS
    c1 = c1
    c2 = c2
    c3 = c3
    a = a
    b = b
    Clients <- TwoClients
    Accounts = {a}
    Logins <- SameAccount
    Offline = Offline
    NoAccount = NoAccount
    NoClient = NoClient
    MaxGID = 1
    GamePortBase = 1
    GamePortCount = 2
    OverlappingSessions = TRUE
    Creators = {c1, c2}
    SlowClients = {}
    Movers = {}
    Renamers = {}
    PlaceStatuses = {2}
    Reports = {"lobby", "closing"}
    FirstReport = "lobby"
    Closing = "closing"
    MaxNet = 1
INVARIANTS
    NoServerOfAGoneCreator
CHECK_DEADLOCK FALSE
