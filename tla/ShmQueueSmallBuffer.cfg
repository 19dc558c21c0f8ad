SPECIFICATION Spec
CONSTANTS
    Writers = {w1}
    Readers = {r1}
    ele_size = 8
    ele_count = 4
    RESERVE_BLOCK_COUNT = 1
    SQ_MAX_CONFLICT_TRIES = 1
    MAX_SQ_DATA_LENGTH = 1000
    IntRange = 4096
    SizeRange = 16777216
    Lens <- TwoSizes
    Words <- AnyWords
    buf_sz = 12
    MaxPuts = 6
    MaxWriterCrashes = 0
    MaxReaderCrashes = 0
INVARIANT NoStaleStart
