SPECIFICATION FairSpec
CONSTANTS
  MaxAlerts = 3
INVARIANTS
  TypeOK
  FaultHasExit
  FatalNotLost
  StatusFresh
  CrashNeedsFatal
PROPERTIES
  OneWayDown
  FaultTerminates
CHECK_DEADLOCK FALSE
