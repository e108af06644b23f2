SPECIFICATION Spec
CONSTANTS
  Sessions = {s1}
  RequestCounts = {2}
  ReplyLengths = {3}
  RespondTimes = {0, 1}
  MaxThreads = 1
  MaxConnections = 1
  MaxLost = 0
  SynTries = 1
  EarlyRexmits = 0
  MaxSynRexmit = 12
  MaxRexmit = 1
INVARIANT ThreadsHaveConnections
