SPECIFICATION FairSpec
CONSTANTS
  Client = {c1}
  Session = {s1}
  None = None
  PtyCap = 1
  InputSize = 4
  Behaviour = {"echo"}
PROPERTY RegistryComesFree
