SPECIFICATION FairSpec
CONSTANTS
    Clients = {1, 2, 3}
    MaxConnections = 2
    Expiration = 1
    InboxMax = 1
    Configs <- MCConfigs
    MaxTime = 2
    MaxPayloads = 2
    NoTime = noTime
INVARIANTS
    TypeOK
    UsersEndFirst
PROPERTIES
    ShutdownCompletes
CHECK_DEADLOCK FALSE
