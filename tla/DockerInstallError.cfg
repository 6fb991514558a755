SPECIFICATION Spec
CONSTANTS
  N = 2
  BaseIsBuilt = TRUE
INVARIANT FinishedIsInstalled
