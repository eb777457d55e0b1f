\* No network failure, no push, one operation at a time around Connect and
\* Disconnect: what the design promises when nothing goes wrong.
SPECIFICATION FairSpec
CONSTANTS
    c1 = c1  c2 = c2  c3 = c3  c4 = c4
    p1 = p1
    Calls = {c1, c2, c3, c4}
    PubReqs = {}
    Ops = {"INIT", "QUIT", "GADC"}
    BufferSize = 2
    Nil = Nil
    TypedNil = TypedNil
    CanLose = FALSE
    Overlap = FALSE
PROPERTIES NoAbandonedLink CallsReturn HandlersEnd
