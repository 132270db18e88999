SPECIFICATION Spec
CONSTANTS
    RotateEvery = 2
    RetirePeriod = 2
    TokenTTL = 2
    ChallengeTTL = 1
    JwksTTL = 1
    Phones = {p1}
    NoPhone = nobody
    Bounds <- MCBounds
CHECK_DEADLOCK FALSE
INVARIANTS
    PhoneNamesOneUser
    UnexpiredInJwks
    SignedUnderItsKid
    UnknownOnlyIfOvertaken
    StaleKeyBounded
