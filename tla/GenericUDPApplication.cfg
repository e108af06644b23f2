SPECIFICATION UDPFairSpec
CONSTANTS
    Clients = {c1, c2}
    RequestsPerSession = 2
    ReplyPerRequest = 1
    MaxThreadCount = 1
    MaxSessions = 1
INVARIANTS
    WelcomeWhileRoom
PROPERTIES
    SessionsEnd
    WelcomeReopens
CHECK_DEADLOCK FALSE
