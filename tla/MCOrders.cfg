SPECIFICATION Spec
CONSTANTS
    MaxOrders = 2
    Keys = {k1}
    NoKey = NoKey
    Prices = {1}
    Amounts = {0}
    RowChannels = {"wechat"}
    Registered = {"wechat", "alipay", "appleiap"}
    Configs <- MCConfigs
    MaxPrepays = 1
    MaxNotices = 1
    MaxCalls = 3
    MaxRestarts = 1
VIEW MCView
INVARIANTS PaidAnnouncedOnce LastEventTellsStatus NonceActsOnce ReadyChannelsRead RoundTellsMismatches
