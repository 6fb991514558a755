SPECIFICATION Spec
CONSTANTS
  MaxRecords = 4
  LastWindowDrains = TRUE
  ShutdownLocks = FALSE
INVARIANTS
  Accounted
  Drained
PROPERTIES
  CallerNotBlocked
  EventuallySent
  ImplementsBuildLog
