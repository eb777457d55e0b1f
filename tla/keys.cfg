\* Four starts, three kills or failed file operations, key.pub lost twice.
SPECIFICATION Spec
CONSTANTS
    NoFile = NoFile
    Torn = Torn
    MaxStarts = 4
    MaxFaults = 3
    MaxLosses = 2
INVARIANTS TypeOK PairMatches SamePair KeysReturned
CHECK_DEADLOCK FALSE
