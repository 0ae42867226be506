SPECIFICATION Spec
CONSTANTS
    Slots = 3
    Levels = 3
    Interval = 2
    Usages <- DeepTimeouts
    MaxTimers = 2
    MaxResets = 0
    MaxGap = 6
    MaxLate = 3
    Nowhere = Nowhere
INVARIANTS
    NeverWalksOff
CHECK_DEADLOCK FALSE
