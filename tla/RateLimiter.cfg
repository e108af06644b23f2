SPECIFICATION FairSpec
CONSTANTS
    a1 = a1
    a2 = a2
    a3 = a3
    p1 = p1
    p2 = p2
    Packets <- Pkts
    Addresses <- Dests
    Flows <- FlowSet
    FlowOf <- PacketFlow
    Rates = {1, 99}
    Slots = 2
    MaxCalls = 4
INVARIANTS
    MarksAreLocal
PROPERTIES
    FullLimitHolds
    ImplementsLimitTable
CHECK_DEADLOCK FALSE
