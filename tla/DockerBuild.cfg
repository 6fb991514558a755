SPECIFICATION Spec
CONSTANTS
  N = 4
  BaseIsBuilt = TRUE
INVARIANTS
  InstalledUnlessStrayed
  FinishedIsListed
  NoneAfterFailure
PROPERTIES
  VerdictIsFinal
  JobEnds
