SPECIFICATION FairStreamSpec
CONSTANTS
  Client = {c1, c2}
  Garbled = Garbled
  QueueCap = 3
  MaxOutput = 2
  Hiding = {c1}
  FlushAt = 2
  MaxAttach = 1
  MaxOther = 1
INVARIANT SubscriberMissesNothing
PROPERTY ImplementsFeed
PROPERTY ExitArrives
CHECK_DEADLOCK FALSE
