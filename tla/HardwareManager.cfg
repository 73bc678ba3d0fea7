SPECIFICATION Spec
CONSTANTS
  N = 2
  MaxFaults = 2
INVARIANTS
  HardwareExclusive
  CleanShutdown
PROPERTIES
  Heals FatalExits
CHECK_DEADLOCK FALSE
