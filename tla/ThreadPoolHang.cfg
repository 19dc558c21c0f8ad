SPECIFICATION PoolFairSpec
CONSTANTS
    max_thread_num = 2
    MaxTasks = 1
PROPERTY DestroyReturns
\* After pool_destroy every thread has ended.
CHECK_DEADLOCK FALSE
