SPECIFICATION Spec
CONSTANTS
    d1 = d1
    d2 = d2
    Addrs = {d1}
    NoAddr = noAddr
    Gateways = {1, 2}
    Packets <- OneDevice
    Lsnr = {0}
    NoItem = noItem
    NoMeta = noMeta
    NoTime = noTime
    NoJob = noJob
    UsbGateways = {1, 2}
    Loop = loop
    Senders = {}
    Registered = {d1}
    KnownGateways = {1, 2}
    Datagram = TRUE
    HostArmsTimer = FALSE
    Prompt = FALSE
    WaitTime = 1
    MinTimer = 1
    KeepTime = 2
    SelectTimeout = 3
    MaxTime = 4
    MaxReceptions = 2
    MaxEnqueues = 0
    Pinging = {}
INVARIANTS
    DecodedIsPlain
CHECK_DEADLOCK FALSE
