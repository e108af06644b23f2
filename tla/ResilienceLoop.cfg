SPECIFICATION FairSpec
CONSTANTS
    a1 = a1
    a2 = a2
    Addresses <- Hosts
    AttackFlows <- Attack
    Limiters <- PolicyNames
    Registered <- Network
    Links = 1
    TriggerCount = 2
    DropRatio <- OneThird
    MaxRatio = 2
    MaxEvents = 2
    MaxLost = 1
INVARIANTS
    ReportedOnce
    FlowLimitFollowsIntrusion
PROPERTIES
    ReportLeadsToLimit
CHECK_DEADLOCK FALSE
