SPECIFICATION AttackFairSpec
CONSTANTS
    Attacks = 3
    Limits <- LimitValues
    MaxFlood = 3
INVARIANTS
    TimerWhileActive
    EveryPacketRecorded
    RecordsWithinLimit
PROPERTIES
    LimitedAttackEnds
CHECK_DEADLOCK FALSE
