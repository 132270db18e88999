SPECIFICATION AdmissionSpec
CHECK_DEADLOCK FALSE
CONSTANTS
    Scopes = {"global", "r1"}
    Global = "global"
    DefaultGlobal <- MCDefault
    RawEnv <- MCEnv
    Modulus = 8
    None = None
    Users = {"u1", "u2"}
    Amounts = {2}
    Cat <- MCCat
    Device <- MCDevice
    DayLength = 2
    IdemTTL = 9
    PolicyTTL = 1
    DefaultQps = 2
    QpsKeep = 0
    Puts <- MCPuts
    DemoRoom = "r1"
    DemoLimits <- MCDemoLimits
    FlagWrites <- MCFlagWrites
    Bounds <- MCBounds
INVARIANTS
    CooldownHolds
    DailyLimitHolds
    AcceptedIsCounted
    CacheIsRecent
    PolicyMatchesRow
PROPERTY
    FlagsArrive
