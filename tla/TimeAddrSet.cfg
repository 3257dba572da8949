SPECIFICATION Spec
CONSTANTS
    Addrs = {a1, a2, a3}
    NoAddr = noAddr
    NoTime = noTime
    WaitTime = 1
    MaxTime = 3
INVARIANTS
    QueuedIsIndexed
PROPERTIES
    AcceptedIsKept
