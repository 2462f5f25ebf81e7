SPECIFICATION MCSpec
CONSTANTS
    c1 = c1
    c2 = c2
    low = low
    high = high
    Caller <- TwoCallers
    Collector = Collector
    Nobody = Nobody
    Bit <- Bits
    wire <- InOrder
    Requests <- TwoRequests
    Mode = "rtu"
    Retry = 2
    Duration = 1
    Minute = 1
    Width = 2
    MaxAsks = 1
    NoValue = NoValue
    Configs <- MCConfigs
    Batches <- MCBatches
    GroupSize = 2
    MaxCommands = 1
INVARIANTS
    AcknowledgedBitsStay
    PlansAreWhole
PROPERTIES
    RequestsAreAnswered
    RegisterIsCollected
    BrokenLineIsReopened
CHECK_DEADLOCK FALSE
