\* Any order of operations the interface allows, a server that may refuse,
\* hang up and push a GetPubKey request, a network that may drop the link.
SPECIFICATION Spec
CONSTANTS
    c1 = c1  c2 = c2  c3 = c3  c4 = c4
    p1 = p1
    Calls = {c1, c2, c3, c4}
    PubReqs = {p1}
    Ops = {"INIT", "QUIT", "GADC", "RADC", "RPUB"}
    BufferSize = 2
    Nil = Nil
    TypedNil = TypedNil
    CanLose = TRUE
    Overlap = TRUE
SYMMETRY Sym
INVARIANTS TypeOK OwnReply VerdictFaithful ChannelOwner NeverFull OneReader
CHECK_DEADLOCK FALSE
