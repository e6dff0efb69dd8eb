SPECIFICATION FairSpec
CONSTANTS
  App = {a1, a2}
  Warm = {w}
  MaxDaemon = 6
  Rounds = 3
  OneStart = TRUE
  None = None
 
 
PROPERTY EnsureReturns
CHECK_DEADLOCK FALSE
