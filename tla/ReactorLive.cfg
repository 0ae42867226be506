SPECIFICATION LiveSpec
CONSTANTS
    Fds = {f1}
    Conns = {c1, c2}
    Workers = {w1}
    None = None
    MaxConn = 1
    ReqSegs = 2
    MaxSegs = 2
    ListenET = TRUE
    ConnET = TRUE
    TimeoutOn = TRUE
    SlowHandlers = FALSE
    AcceptFails = FALSE
INVARIANTS
    OpenHasTimer
PROPERTIES
    EveryConnectionEnds
    BacklogServed
