\* Files that fit, two faults of any kind.
SPECIFICATION FairSpec
CONSTANTS
    Sizes <- FitSizes
    ChunkSize = 2
    Word = 4
    MaxFaults = 2
INVARIANTS TypeOK PrefixWritten
PROPERTIES Implements Returns Arrives
CHECK_DEADLOCK FALSE
