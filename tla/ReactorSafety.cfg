SPECIFICATION Spec
CONSTANTS
    Fds = {f1, f2}
    Conns = {c1, c2}
    Workers = {w1, w2}
    None = None
    MaxConn = 2
    ReqSegs = 1
    MaxSegs = 2
    ListenET = TRUE
    ConnET = TRUE
    TimeoutOn = TRUE
    SlowHandlers = FALSE
    AcceptFails = TRUE
SYMMETRY ReactorSymmetry
INVARIANTS
    TypeOK
    NoUseAfterFree
    ExclusiveHandling
    ResponseNotCut
    CloseRequestsKept
    NotStranded
PROPERTIES
    NoWrongfulClose
