CONSTANTS
    Devices = {d1}
    Points = {p1}
    Values = {v1}
    Nil = Nil
    TTLs <- MCTTLs
    DefaultTTL = 3
    OfflineWindow = 2
    FailLimit = 3
    CheckPeriod = 1
    MaxAge = 5
    MaxInFlight = 2
SPECIFICATION DocSpec
INVARIANT BurstMarksOffline
