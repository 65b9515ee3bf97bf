CONSTANTS
    DayLen = 4
    At <- SpringSlot
    Zones <- BothSides
    Horizon = 84
    NoTime = NoTime
SPECIFICATION Spec
INVARIANT
    RunsAtItsTime
CHECK_DEADLOCK FALSE
