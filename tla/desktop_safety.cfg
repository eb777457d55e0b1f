\* Every order of clicks, callbacks and goroutine steps, on a network that may
\* drop the link.
SPECIFICATION DesktopSpec
CONSTANTS
    c1 = c1  c2 = c2  c3 = c3  c4 = c4  c5 = c5
    Calls = {c1, c2, c3, c4}
    PubReqs = {}
    Ops = {"INIT", "QUIT", "GADC", "RADC"}
    BufferSize = 2
    Nil = Nil
    TypedNil = TypedNil
    CanLose = TRUE
    Overlap = TRUE
SYMMETRY Sym
INVARIANTS DesktopTypeOK OneStatusCall OnlineHasConnection NilOnlyInPanel OwnReplyInWindow ShownIsRegistered
CHECK_DEADLOCK FALSE
