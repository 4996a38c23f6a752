SPECIFICATION FairSpec
CONSTANTS
    c1 = c1
    c2 = c2
    c3 = c3
    a = a
    b = b
    Clients = {c1}
    Accounts = {a}
    Logins <- OneLogin
    Offline = Offline
    NoAccount = NoAccount
    NoClient = NoClient
    MaxGID = 2
    GamePortBase = 1
    GamePortCount = 2
    OverlappingSessions = FALSE
    Creators = {c1}
    SlowClients = {c1}
    Movers = {}
    Renamers = {}
    PlaceStatuses = {2}
    Reports = {"lobby"}
    FirstReport = "lobby"
    Closing = "lobby"
    MaxNet = 1
INVARIANTS
    TypeOK
    NoKillOfLiveGame
    NoContradiction
    NoOrphan
    OneGamePerPlayer
PROPERTIES
    CreateAnswered
    DroppedServerEnds
CHECK_DEADLOCK FALSE
