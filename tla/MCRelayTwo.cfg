SPECIFICATION Spec
CONSTANTS
    N = 3
    Key = {"k1", "k2"}
    KeyOf <- TwoKeys
    Worker = {"w1", "w2"}
    BatchSize = 2
    MaxAttempts = 2
    MaxFaults = 2
    MaxStops = 1
INVARIANT
    NothingLostOrRepeated
PROPERTY
    OvertakesOnlyUnseenOrHeld
    EventuallyRelayed
CHECK_DEADLOCK FALSE
