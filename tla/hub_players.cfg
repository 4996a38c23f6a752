SPECIFICATION Spec
CONSTANTS
    c1 = c1
    c2 = c2
    c3 = c3
    a = a
    b = b
    Clients = {c1, c2, c3}
    Accounts <- BothAccounts
    Logins <- Reconnect
    Offline = Offline
    NoAccount = NoAccount
    NoClient = NoClient
    MaxGID = 1
    GamePortBase = 1
    GamePortCount = 2
    OverlappingSessions = FALSE
    Creators = {c1}
    SlowClients = {c3}
    Movers = {c3}
    Renamers = {c3}
    PlaceStatuses = {2}
    Reports = {"lobby"}
    FirstReport = "lobby"
    Closing = "lobby"
    MaxNet = 0
INVARIANTS
    NoMissingPlayer
CHECK_DEADLOCK FALSE
