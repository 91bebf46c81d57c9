\* Three workers, as configs/config.ini asks for, two callers, four tasks.  The behaviour ends with the pool.
SPECIFICATION FairSpec
CONSTANTS
    Workers = {w1, w2, w3}
    Callers = {c1, c2}
    Tasks = {t1, t2, t3, t4}
    NoTask = NoTask
INVARIANTS
    NoWakeupLost
    DrainedBeforeGone
PROPERTIES
    AcceptedIsRun
    DestructorReturns
    ImplementsTaskPool
CHECK_DEADLOCK FALSE
