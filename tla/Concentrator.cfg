SPECIFICATION FairSpec
CONSTANTS
    Modulus = 24
    StartDelay = 0
    MarginDelay = 0
    JitDelay = 4
    MaxAdvance = 12
    QueueMax = 2
    Packets <- MCPackets
    Advances <- MCAdvances
    StartCounts = {16}
    Garbage = {0, 5}
    Configs <- MCConfigs
    MaxStarts = 2
    MaxFetches = 1
    Nobody = nobody
    NoNode = noNode
INVARIANTS
    TypeOK
    OneThreadPerKind
PROPERTIES
    StopIsTruthful
    PeekedIsDequeued
    NoDownlinkDropped
    StopEndsThreads
    AcceptedIsAired
CHECK_DEADLOCK FALSE
