\* Two contacts, any order of calls, three kills or failing file operations.
SPECIFICATION Spec
CONSTANTS
    Keys = {alice, bob}
    Names = {n1, n2}
    None = None
    NoFile = NoFile
    Empty = Empty
    Torn = Torn
    MaxFaults = 3
INVARIANTS TypeOK RemovedStaysGone
 
