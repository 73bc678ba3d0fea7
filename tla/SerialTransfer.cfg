SPECIFICATION TransferSpec
CONSTANTS
  Capacity = 2
  Retries = 2
  TimeoutMs = 2
  Wrap = 4
  MaxStep = 2
  MaxTransfers = 3
  MaxLosses = 2
INVARIANTS
  Intact
PROPERTIES
  Returns
CHECK_DEADLOCK FALSE
