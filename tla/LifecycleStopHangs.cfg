SPECIFICATION FairSpec
CONSTANTS
    Callers = {c1}
    Loops = {l1}
    NoThread = noThread
PROPERTIES
    StopAlwaysReturns
CHECK_DEADLOCK FALSE
