SPECIFICATION Spec
CONSTANTS
    ORDER = 7
    Keys = {1, 2, 3, 4, 5, 6, 7, 8, 9, 10, 11, 12, 13, 14}
    Nodes = {1, 2, 3, 4}
    MaxCount = 14
    MaxDoubles = 0
INVARIANT SearchFinds
CHECK_DEADLOCK FALSE
