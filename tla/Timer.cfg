SPECIFICATION LiveSpec
CONSTANTS
    Slots = 2
    Levels = 3
    Interval = 2
    Usages <- FlatOrDeep
    MaxTimers = 2
    MaxResets = 1
    MaxGap = 5
    MaxLate = 1
    Nowhere = Nowhere
INVARIANTS
    TypeOK
    AlwaysDefined
    MapAgrees
    CascadesDown
PROPERTIES
    NotEarly
    EveryTimerRuns
CHECK_DEADLOCK FALSE
