SPECIFICATION StreamSpec
CONSTANTS
  Client = {c1}
  Garbled = Garbled
  QueueCap = 9
  MaxOutput = 2
  Hiding = {}
  FlushAt = 2
  MaxAttach = 2
  MaxOther = 0
PROPERTY ImplementsFeed
CHECK_DEADLOCK FALSE
