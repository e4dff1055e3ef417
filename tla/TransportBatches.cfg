SPECIFICATION FairSpec
CONSTANTS
    t1 = t1
    t2 = t2
    Threads <- MCThreads
    NoThread = NoThread
    FlushAt = 2
    MaxQueue = 3
    MaxRecords = 3
    Faults <- AllFaults
INVARIANTS TypeOK BoundariesAreDurable ConfirmationsExpected
PROPERTIES DeliversInOrder WaitEndsOrIsTold
CHECK_DEADLOCK FALSE
