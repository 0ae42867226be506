SPECIFICATION Spec
CONSTANTS
    Fds = {f1}
    Conns = {c1}
    Workers = {w1}
    None = None
    MaxConn = 1
    ReqSegs = 1
    MaxSegs = 1
    ListenET = FALSE
    ConnET = FALSE
    TimeoutOn = TRUE
    SlowHandlers = FALSE
    AcceptFails = FALSE
INVARIANTS
    ResponseNotCut
