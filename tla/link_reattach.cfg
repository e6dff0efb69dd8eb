SPECIFICATION FairSpec
CONSTANTS
  Pane = {p1}
  Again = {r1}
  Ask = {}
  MaxConn = 2
  MaxWaiters = 64
  MaxQueued = 1
  Nobody = Nobody
  Slow = {}
  Pinned = {}
  LossesFarApart = TRUE
INVARIANT RestingPaneIsAttached
PROPERTY PanesReattach
CHECK_DEADLOCK FALSE
