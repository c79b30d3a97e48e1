CONSTANTS
    Threads = {t1, t2, t3, t4}
    NoThread = NoThread
SPECIFICATION Spec
INVARIANTS
    TypeOK
    MutualExclusion
    QueueIsCallers
    RememberedIndexIsSafe
PROPERTIES
    EveryRequestRuns
    ImplementsLock
CHECK_DEADLOCK TRUE
