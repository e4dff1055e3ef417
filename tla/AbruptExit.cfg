SPECIFICATION Spec
CONSTANTS
    t1 = t1
    t2 = t2
    Threads <- MCThreads
    NoThread = NoThread
    FlushAt = 2
    MaxQueue = 3
    MaxRecords = 2
    Faults <- AbruptEnd
INVARIANT AbruptExitIsSeen
CHECK_DEADLOCK FALSE
