SPECIFICATION Spec
CONSTANTS
  Procs = {"hwmng", "player"}
  Core = {"hwmng"}
  Period = 3
  Tolerance = 2
  CheckPeriod = 1
  MaxDelay = 1
  MaxStall = 4
  MaxFaults = 3
INVARIANTS
  NoFalseAlarm
PROPERTIES
  Detects
