SPECIFICATION Spec
CONSTANTS
  Sessions = {s1, s2}
  RequestCounts = {1, 2}
  ReplyLengths = {3}
  RespondTimes = {1}
  MaxThreads = 1
  MaxConnections = 1
  MaxLost = 2
  SynTries = 1
  EarlyRexmits = 0
  MaxSynRexmit = 12
  MaxRexmit = 1
INVARIANTS
  ConnectionsCounted
  OnlyOverloadStops
  SessionComplete
PROPERTIES
  SessionsEnd
