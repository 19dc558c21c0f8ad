SPECIFICATION SpecOne
CONSTANTS
    nSize = 5
    Bits = 4
    PutLens = {2, 4}
    GetLens = {2, 4}
    MaxBytes = 20
    Producers = {t1, t3}
    Customer = t2
    Capacity = 2
    Letters = 3
    max_thread_num = 3
    MaxTasks = 3
INVARIANTS
    TypeOK NoRace WholeRecords LettersConserved SomeoneRuns
    PoolTypes AssertsHold TasksConserved NothingUsedAfterFree
PROPERTIES
    ImplementsFifo ProgramsEnd LockIsFreed RingDrained
    EachTaskRuns DestroyReturnsUnlessMissed
\* With its reader dead and the ring full the queue's program stops; after
\* pool_destroy every thread of the pool has ended.
CHECK_DEADLOCK FALSE
