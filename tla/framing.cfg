\* Two writers, one reader of any kind, any cut, any two failures.
SPECIFICATION FairSpec
CONSTANTS
    Base = 2
    BufferSize = 2
    Known = {}
    Items <- SomeItems
    w1 = w1  w2 = w2
    Writers = {w1, w2}
    MaxItems = 2
    MaxRest = 3
    MaxFaults = 2
    NoFile = NoFile
INVARIANTS TypeOK MessagesNeverMix ShownWhole TmpRemoved
PROPERTIES Implements AllRead
CHECK_DEADLOCK FALSE
