SPECIFICATION FairSpec
CONSTANTS
  Codes = {1, 2}
  ClearCodes = {2}
  Bodies = {"a", "b"}
  MaxTtl = 1
  None = None
  Raisable <- MCRaisable
  Depth = 10
  MaxRaises = 2
PROPERTIES
  TtlAlwaysEnds
CHECK_DEADLOCK FALSE
