SPECIFICATION FairSpec
CONSTANTS
    c1 = c1
    c2 = c2
    k1 = k1
    k2 = k2
    Call = {c1, c2}
    Key = {k1}
    KeyOf <- SameKey
    PG = FALSE
    OutboxMode = FALSE
    BillingRequired = FALSE
    BillingReliable = FALSE
    PublishReliable = FALSE
    StoreReliable = TRUE
    MaxCrashes = 1
CHECK_DEADLOCK FALSE
INVARIANTS HoldMatchesOutcome OneRequestPerKey PaidOnlyIfFed
PROPERTIES FeedStateSpec EventuallyFinal
