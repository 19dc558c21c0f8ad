SPECIFICATION Spec
CONSTANTS
    Writers = {w1}
    Readers = {r1}
    ele_size = 8
    ele_count = 3
    RESERVE_BLOCK_COUNT = 1
    SQ_MAX_CONFLICT_TRIES = 0
    MAX_SQ_DATA_LENGTH = 1000
    IntRange = 4096
    SizeRange = 16777216
    Lens <- TwoSizes
    Words <- FewWords
    buf_sz = 200
    MaxPuts = 4
    MaxWriterCrashes = 0
    MaxReaderCrashes = 0
INVARIANT HeadInRing
