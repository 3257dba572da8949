SPECIFICATION Spec
CONSTANTS
    d1 = d1
    d2 = d2
    Addrs = {d1}
    NoAddr = noAddr
    Gateways = {1, 2}
    Packets <- OneFrame
    Lsnr = {0}
    NoItem = noItem
    NoMeta = noMeta
    NoTime = noTime
    NoJob = noJob
    UsbGateways = {1}
    Loop = loop
    Senders = {s1}
    Registered = {d1}
    KnownGateways = {1, 2}
    Datagram = TRUE
    HostArmsTimer = TRUE
    Prompt = TRUE
    WaitTime = 1
    MinTimer = 1
    KeepTime = 2
    SelectTimeout = 3
    MaxTime = 14
    MaxReceptions = 2
    MaxEnqueues = 1
    Pinging = {}
INVARIANTS
    DownlinkIsTimely
PROPERTIES
    TimerRearmed
CHECK_DEADLOCK FALSE
