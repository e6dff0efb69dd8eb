SPECIFICATION MCSpec
CONSTANTS
  Id = {i1}
  Session = {s1, s2}
  Client = {c1, c2}
  Lone = {c1}
  None = None
  DumpThreshold = 2
  ReadMax = 2
  MaxOutput = 4
  Faults = {"crash", "gone"}
  Requests = {"spawn", "kill", "shutdown"}
  OrphanTtl = FALSE
  IdleExit = TRUE
SYMMETRY Symmetry
INVARIANT NoLeakedShell
INVARIANT ReaperTakesUnwatched
INVARIANT CrashLossBounded
 
