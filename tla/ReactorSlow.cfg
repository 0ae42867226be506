SPECIFICATION Spec
CONSTANTS
    Fds = {f1}
    Conns = {c1, c2}
    Workers = {w1}
    None = None
    MaxConn = 1
    ReqSegs = 2
    MaxSegs = 2
    ListenET = TRUE
    ConnET = TRUE
    TimeoutOn = TRUE
    SlowHandlers = TRUE
    AcceptFails = FALSE
PROPERTIES
    NoWrongfulClose
