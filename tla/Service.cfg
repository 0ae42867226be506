SPECIFICATION Spec
CONSTANTS
    w1 = w1
    w2 = w2
    w3 = w3
    c1 = c1
    c2 = c2
    d1 = d1
    n1 = n1
    p1 = p1
    None = None
    Workers = {w1, w2, w3}
    Connections = {d1}
    Clients = {c1, c2}
    Names = {n1}
    Passwords = {p1}
    Tables <- MCTables
    MaxRequests = 4
    StoiMax = 1
INVARIANTS
    TypeOK
    Conserved
    NoLostWakeup
    NamesUnique
    LoneLoginWorks
    OwnDialogue
PROPERTIES
    Served
