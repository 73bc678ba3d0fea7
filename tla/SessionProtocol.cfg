SPECIFICATION Spec
CONSTANTS
  Period = 2
  Timeout = 4
  MaxSeq = 4
  MaxFrames = 2
  MaxLosses = 1
INVARIANTS
  AliveKept
  FramesOrdered
PROPERTIES
  OrphanEnds
CHECK_DEADLOCK FALSE
