SPECIFICATION MCSpec
CONSTANTS
    meter = meter
    valve = valve
    Device <- TwoDevices
    Unit <- TwoUnits
    unitOf <- Apart
    Table <- Tables
    Points <- SomePoints
    valueOf <- DistinctValues
    Space = 8
    BatchReadLen = 4
    BatchWriteLen = 3
    MaxPoints = 3
    MaxBatch = 3
    NoDevice = NoDevice
    NoValue = NoValue
    Nobody = Nobody
INVARIANTS
    GroupsAreRight
    ReadsAreTrue
    WriteReadsBack
    RegistersAreTrue
CHECK_DEADLOCK FALSE
