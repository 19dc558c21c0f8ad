SPECIFICATION SpecOne
CONSTANTS
    DEFAULT_COROUTINE = 1
    STACK_SIZE = 3
    Locals = {1, 2}
    MaxLive = 2
    PRIMER_TABLE <- TwoRows
    FACTOR = 5381
    Keys = {1, 3, 7}
    Values = {1, 2}
    Word = 16
    Procs = {1, 2}
    Args <- Creations
    RESERVE_BLOCK_COUNT = 2
    MaxSegments = 2
    MaxFaults = 1
    HASHSIZE = 3
    Data = {1, 2, 4, 7}
    HASH_TABLE_MAX_SIZE = 4
    Strings = {1, 5, 9, 2}
    Ints = {1, 2}
    MAX_COROUTINE_SIZE = 2
    m_poolsize = 3
    m_maxpoolsize = 2
    MaxContexts = 5
    blockCount = 2
    blockCountStep = 2
    CountRange = 16
    MaxBlocks = 4
CHECK_DEADLOCK FALSE
INVARIANTS
    StackKept ScheduleAgrees HashConsistent
    NumbersFound ListsFound AlgorithmsRight BPlusKept PoolKept
    Accounted Scheduled QueueStays
PROPERTIES
    IdsStay ImplementsMap
