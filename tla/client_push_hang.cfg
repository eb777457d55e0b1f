\* A GetPubKey request handled while DoGetAddCode waits.
SPECIFICATION FairSpec
CONSTANTS
    c1 = c1  c2 = c2  c3 = c3  c4 = c4
    p1 = p1
    Calls = {c1, c2, c3}
    PubReqs = {p1}
    Ops = {"INIT", "GADC"}
    BufferSize = 2
    Nil = Nil
    TypedNil = TypedNil
    CanLose = FALSE
    Overlap = FALSE
PROPERTIES GetAddCodeReturns
CHECK_DEADLOCK FALSE
