CONSTANTS
    DayLen = 4
    At <- InAutumnOnly
    Zones <- BothSides
    Horizon = 84
    NoTime = NoTime
SPECIFICATION Spec
INVARIANTS
    DueIsTheNextTime
    NoTimeRunsTwice
CHECK_DEADLOCK FALSE
