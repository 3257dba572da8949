SPECIFICATION FairSpec
CONSTANTS
    d1 = d1
    d2 = d2
    Addrs = {d1, d2}
    NoAddr = noAddr
    Gateways = {1, 2}
    Packets <- ThreeFrames
    Lsnr = {0}
    NoItem = noItem
    NoMeta = noMeta
    NoTime = noTime
    NoJob = noJob
    UsbGateways = {1}
    Loop = loop
    Senders = {}
    Registered = {d1}
    KnownGateways = {1, 2}
    Datagram = TRUE
    HostArmsTimer = FALSE
    Prompt = TRUE
    WaitTime = 1
    MinTimer = 1
    KeepTime = 2
    SelectTimeout = 3
    MaxTime = 8
    MaxReceptions = 3
    MaxEnqueues = 0
    Pinging = {}
PROPERTIES
    ErasedWasDelivered
    UplinkSlotsSpec
    UplinkSlotsLive
CHECK_DEADLOCK FALSE
