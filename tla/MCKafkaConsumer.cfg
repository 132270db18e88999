SPECIFICATION Spec
CONSTANTS
    N = 3
    Member = {"c1", "c2"}
    MaxAttempts = 2
    MaxFaults = 2
PROPERTY
    AtLeastOnce
CHECK_DEADLOCK FALSE
