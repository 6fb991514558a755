SPECIFICATION JobSpec
CONSTANTS
  MaxRecords = 2
  LastWindowDrains = TRUE
  ShutdownLocks = FALSE
  f1 = f1
  f2 = f2
  Trace = Trace
  FileList <- TwoFiles
INVARIANTS
  ListedIsUploaded
  Truthful
PROPERTIES
  VerdictReported
  ImplementsJobStatus
