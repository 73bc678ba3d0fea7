SPECIFICATION FairSpec
CONSTANTS
  Codes = {1, 2}
  ClearCodes = {2}
  Bodies = {"a", "b"}
  MaxTtl = 1
  None = None
  Raisable <- MCRaisable
  Depth = 10
  MaxRaises = 2
INVARIANTS
  TypeOK
  MirrorFollows
  ToldTheTruth
  AgesKept
  KeyErrorNeedsRace
PROPERTIES
  ImplementsTable
  TtlEnds
  MirrorHeals
CHECK_DEADLOCK FALSE
