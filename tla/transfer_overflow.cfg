\* A file with more chunks than a chunk number can count.
SPECIFICATION Spec
CONSTANTS
    Sizes <- BigSizes
    ChunkSize = 2
    Word = 4
    MaxFaults = 0
INVARIANTS OkMeansWhole
CHECK_DEADLOCK FALSE
