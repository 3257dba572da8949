SPECIFICATION Spec
CONSTANTS
    d1 = d1
    Addrs = {d1}
    NoAddr = noAddr
    Gateways = {1, 2}
    Packets <- MCPackets
    Lsnr = {0}
    NoItem = noItem
    NoMeta = noMeta
    NoTime = noTime
    WaitTime = 1
    MaxTime = 1
INVARIANTS
    TypeOK
    MergedCopiesIdentical
    ItemIsGrounded
PROPERTIES
    ItemKeepsIdentity
