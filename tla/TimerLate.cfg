SPECIFICATION Spec
CONSTANTS
    Slots = 3
    Levels = 2
    Interval = 2
    Usages <- SlotTimeouts
    MaxTimers = 1
    MaxResets = 0
    MaxGap = 3
    MaxLate = 8
    Nowhere = Nowhere
INVARIANTS
    Precise
CHECK_DEADLOCK FALSE
