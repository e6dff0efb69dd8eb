SPECIFICATION Spec
CONSTANTS
  Pane = {p1}
  Again = {r1}
  Ask = {}
  MaxConn = 3
  MaxWaiters = 64
  MaxQueued = 2
  Nobody = Nobody
  Slow = {}
  Pinned = {p1}
  LossesFarApart = TRUE
INVARIANT RestingPaneIsAttached
CHECK_DEADLOCK FALSE
