SPECIFICATION Spec
CONSTANTS
    InitSize = 7
    AuxSize = 3
    Window = 13
    Handlers <- MCHandlers
    Paths <- MCPaths
    OldLines <- MCOld
    Disk <- MCDisk
    Scripts <- MCScripts
INVARIANTS
    TypeOK
    ReadIntact
    RepliesIntact
    NothingOwed
