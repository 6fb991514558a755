SPECIFICATION Spec
CONSTANTS
  MaxRecords = 4
  LastWindowDrains = TRUE
  ShutdownLocks = TRUE
PROPERTY CallerNotBlocked
CHECK_DEADLOCK FALSE
