SPECIFICATION Spec
CONSTANTS
    meter = meter
    valve = valve
    Device <- TwoDevices
    Unit <- OneUnit
    unitOf <- Shared
    Table <- Tables
    Points <- SomePoints
    valueOf <- DistinctValues
    Space = 8
    BatchReadLen = 4
    BatchWriteLen = 3
    MaxPoints = 3
    MaxBatch = 3
    NoDevice = NoDevice
    NoValue = NoValue
INVARIANTS
    PointsShareRegisters
CHECK_DEADLOCK FALSE
