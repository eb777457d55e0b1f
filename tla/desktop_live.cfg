\* The same on a network that delivers.
SPECIFICATION DesktopFairSpec
CONSTANTS
    c1 = c1  c2 = c2  c3 = c3  c4 = c4  c5 = c5
    Calls = {c1, c2, c3}
    PubReqs = {}
    Ops = {"INIT", "QUIT", "GADC", "RADC"}
    BufferSize = 2
    Nil = Nil
    TypedNil = TypedNil
    CanLose = FALSE
    Overlap = TRUE
PROPERTIES RowReturns ShutDownEnds
CHECK_DEADLOCK FALSE
