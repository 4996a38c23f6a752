SPECIFICATION PoolSpec
CONSTANTS
    Clients = {}
    Accounts = {}
    Offline = Offline
    MaxGID = 3
    GamePortBase = 1
    GamePortCount = 2
PROPERTIES
    PortPerConcurrentGame
CHECK_DEADLOCK FALSE
