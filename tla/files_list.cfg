\* Any files chosen, any rows selected and deleted, any order of the rows,
\* in up to three windows.
SPECIFICATION Spec
CONSTANTS
    a = a  b = b  c = c
    Paths = {a, b, c}
    Sizes = {1, 2}
    NoPath = NoPath
    MaxWindows = 3
INVARIANTS TypeOK TotalsMatch ListedOnce RemovedMayReturn
PROPERTIES RemovesSelected
