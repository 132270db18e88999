SPECIFICATION PgSpec
CONSTANTS
    Call = {"c1", "c2", "c3", "c4"}
    User = {"u1"}
    Key = {"k1", "k2"}
    UserOf <- OneUser
    KeyOf <- TwoKeys
    Grams <- SmallGrams
    TopUpFen = {5, 10}
    MaxFen = 15
    Settler = {"s1", "s2"}
INVARIANT MoneyConserved
PROPERTIES MemorySpec EventuallyAnswered
CHECK_DEADLOCK FALSE
