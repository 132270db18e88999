SPECIFICATION Spec
CONSTANTS
    RateMax = 2
    RateWin = 2
    Bounds <- MCBounds
CHECK_DEADLOCK FALSE
INVARIANTS
    RateHolds
    LastEventTellsModeration
    RetryIsShownOnce
