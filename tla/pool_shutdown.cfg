SPECIFICATION PoolSpec
CONSTANTS
    Clients = {}
    Accounts = {}
    Offline = Offline
    MaxGID = 3
    GamePortBase = 1
    GamePortCount = 2
INVARIANTS
    SurvivorsWereTaken
PROPERTIES
    NearbyGamesGetPorts
CHECK_DEADLOCK FALSE
