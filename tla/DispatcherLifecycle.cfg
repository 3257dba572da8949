SPECIFICATION FairSpec
CONSTANTS
    Callers = {c1, c2}
    Loops = {l1, l2}
    NoThread = noThread
INVARIANTS
    TypeOK
    OneLoop
    StoppedIsClosed
    NoLostWakeup
PROPERTIES
    StopIsKept
    StopReturns
    StartRuns
CHECK_DEADLOCK FALSE
