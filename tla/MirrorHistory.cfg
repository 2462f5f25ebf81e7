CONSTANTS
    raw1 = raw1
    raw2 = raw2
    rawX = rawX
    rawY = rawY
    pointP = pointP
    pointQ = pointQ
    mirror1 = mirror1
    mirror2 = mirror2
    Raw = {raw1, raw2}
    RawPoint = {rawX, rawY}
    Value = {0, 1}
    Mirror = {mirror1, mirror2}
    MirrorPoint = {pointP, pointQ}
    MirrorOf <- MCMirrorOf
    Templates <- MCTemplates
    Configs <- MCConfigs
    MaxMoves = 3
    NoPoint = NoPoint
    NoModel = NoModel
    NoValue = NoValue
    Reporter = {"r1", "r2"}
    WriteNum = 2
    PageSize = 2
    Bounds <- MCBounds
SPECIFICATION MCSpec
INVARIANTS
    MirrorHolds
    HistoryHolds
PROPERTIES
    MirrorFollowsRaw
    EveryTemplateIsMade
    QueueIsFlushed
CHECK_DEADLOCK FALSE
