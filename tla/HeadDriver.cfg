SPECIFICATION Spec
CONSTANTS
  MaxWrites = 4
  MaxFaults = 3
INVARIANTS
  NothingLost
PROPERTIES
  Converges
CHECK_DEADLOCK FALSE
