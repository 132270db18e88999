SPECIFICATION Spec
CONSTANTS
    c1 = c1
    c2 = c2
    k1 = k1
    k2 = k2
    Call = {c1, c2}
    Key = {k1, k2}
    KeyOf <- OwnKeys
    PG = TRUE
    OutboxMode = TRUE
    BillingRequired = TRUE
    BillingReliable = FALSE
    PublishReliable = TRUE
    StoreReliable = FALSE
    MaxCrashes = 0
CHECK_DEADLOCK FALSE
INVARIANT EventsTellOutcome
