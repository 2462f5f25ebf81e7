SPECIFICATION Spec
CONSTANTS
    temp = temp
    set = set
    caller1 = caller1
    caller2 = caller2
    Point <- MCPoint
    RawValue = {1, 2}
    Scaled <- OnlyTemp
    Factor = 2
    ReadOnly = {}
    WriteOnly <- OnlySet
    OnChange <- OnlyTemp
    Caller <- TwoCallers
    Collector = collector
    MaxTries = 1
    MaxAsks = 2
    MaxChanges = 1
    NoValue = NoValue
CONSTRAINT SetIsOnlyRead
SYMMETRY CallersAlike
INVARIANTS
    ToldIsShadow
    WriteValueReached
CHECK_DEADLOCK FALSE
