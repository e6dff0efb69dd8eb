SPECIFICATION Spec
CONSTANTS
  Id = {i1}
  Session = {s1}
  Client = {c1}
  None = None
  DumpThreshold = 1
  ReadMax = 1
  MaxOutput = 1
  Faults = {}
  Requests = {"spawn", "kill"}
  OrphanTtl = FALSE
  IdleExit = FALSE
INVARIANT KilledLeavesNoFile
