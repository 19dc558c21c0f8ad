SPECIFICATION Spec
CONSTANTS
    Readers = {r1, r2}
    Writers = {w1}
    NoPid = NoPid
    SQ_MAX_READER_PROC_NUM = 2
    sig_node_num = 1
    sig_process_num = 1
    SIGNR_LIMIT = 0
    OneAtATime = FALSE
    MaxUsed = 2
    PipeSize = 1
    MaxDeaths = 0
    MaxCrashes = 0
INVARIANT UniqueFd
