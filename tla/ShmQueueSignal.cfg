SPECIFICATION Spec
CONSTANTS
    Readers = {r1, r2}
    Writers = {w1}
    NoPid = NoPid
    SQ_MAX_READER_PROC_NUM = 2
    sig_node_num = 1
    sig_process_num = 2
    SIGNR_LIMIT = 0
    OneAtATime = TRUE
    MaxUsed = 1
    PipeSize = 1
    MaxDeaths = 1
    MaxCrashes = 1
INVARIANTS TypeOK OwnSlot
PROPERTIES SleepersSignalled SignalledOnce
SYMMETRY Symmetry
