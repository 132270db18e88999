CONSTANTS
    Command = {"a"}
    Grams <- MCGrams
    FullHopper = 2
    InitialFoodGrams = 0
    PostedGrams = 0
    MaxMessages = 4
    MaxFaults = 1
SPECIFICATION Spec
CHECK_DEADLOCK FALSE
INVARIANTS FeedsAreAskedFor RowIsUpperBound
PROPERTY CommandIsReported
