SPECIFICATION WormFairSpec
CONSTANTS
    Hosts = {h1, h2, h3, h4}
    MaxProbingPackets = 2
INVARIANTS
    TimerOfInfected
    InfectionsCounted
PROPERTIES
    WormComesToRest
CHECK_DEADLOCK FALSE
