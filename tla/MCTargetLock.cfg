CONSTANTS
    t1 = t1
    t2 = t2
    t3 = t3
    server = server
    cli = cli
    NoThread = NoThread
    Threads <- MCThreads
    Processes <- MCProcesses
    ProcessOf <- MCProcessOf
    MaxDepth = 2
SPECIFICATION FairSpec
INVARIANTS
    InsideOwnsLocks
    NoSelfDeadlock
PROPERTIES
    WaitersProgress
    ImplementsMutex
