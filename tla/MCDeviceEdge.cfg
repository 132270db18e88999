CONSTANTS
    Delivery <- MCDelivery
    Command <- MCCommand
    CommandOf <- MCCommandOf
    Device <- MCDevice
    DeviceOf <- MCDeviceOf
    Grams <- MCGrams
    Roll <- MCRoll
    Capacity = 2
    QueueSize = 1
    FullHopper = 2
    MaxFaults = 1
    None = None
SPECIFICATION Spec
CHECK_DEADLOCK FALSE
INVARIANT OnceUnlessForgotten
PROPERTY AcceptedEventuallyRuns
