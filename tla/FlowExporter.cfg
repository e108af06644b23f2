\* Timeouts that change while flows are in the table; the simulation outlasts
\* the flow timeout of the last packet.
SPECIFICATION FairSpec
CONSTANTS
    Keys = {k1, k2}
    Settings <- TwoSettings
    NoFlow = NoFlow
    MaxPackets = 3
    LastPacket = 4
    MaxTime = 9
INVARIANTS
    PointerLive
    NothingInThePast
    FlowLifetimeBounded
    PacketsAccounted
PROPERTIES
    EveryFlowExported
CHECK_DEADLOCK FALSE
