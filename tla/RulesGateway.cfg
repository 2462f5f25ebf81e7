SPECIFICATION MCSpec
CONSTANTS
    ruleA = ruleA
    lamp = lamp
    fan = fan
    Rule <- AllRules
    Client = {1, 2}
    Runner = {1, 2, 3, 4}
    Device <- TwoDevices
    Conn = {"one", "two"}
    connOf <- ApartConns
    Config <- Configs
    Preview <- Loops
    NoRule = NoRule
    Nothing = Nothing
    Empty = Empty
    MaxDepth = 1
    MaxCalls = 2
    MainConnector = {"c"}
    Socket = {1, 2}
    SubDevice <- TwoPaths
    FirstSubDevices <- OnlyLamp
    SubModel <- PathModel
    SubValue = {0, 1}
    Serial = "sn"
    MaxMoves = 2
    NoConn = NoConn
    NoValue = NoValue
    Lists <- MCLists
    Dates <- MCDates
    Readings <- MCReadings
    Exact = 8
    Triggers <- MCTriggers
    Reporter = {1, 2}
    Reported <- MCReported
    MaxClock = 3
    MaxUpdates = 1
    Missing = Missing
    NotANumber = NotANumber
INVARIANTS
    RulesAgree
    RulesDoAsTheySay
    GatewayServes
    EveryDeviceArrives
PROPERTIES
    RunsEnd
    MainCatchesUp
CHECK_DEADLOCK FALSE
