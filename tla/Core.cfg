SPECIFICATION MCSpec
CONSTANTS
    Devices = {d1}
    Points = {p1}
    Values = {v1}
    Nil = Nil
    TTLs <- MCTTLs
    DefaultTTL = 3
    OfflineWindow = 2
    FailLimit = 3
    CheckPeriod = 1
    MaxAge = 5
    MaxInFlight = 2
    plugin = plugin
    model = model
    meter = meter
    line = line
    site = site
    note = note
    temp = temp
    set = set
    caller = caller
    collector = collector
INVARIANTS
    StatusIsRight
PROPERTIES
    FreshDeviceStaysOnline
    ImplementsOnlineStatus
    SilentDeviceIsReported
    SettledIsSaved
    ShadowFollowsDevice
CHECK_DEADLOCK FALSE
