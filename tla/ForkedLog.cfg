SPECIFICATION SpecFork
CONSTANTS
  MaxRecords = 3
  MaxChild = 1
  MaxForks = 2
INVARIANTS
  SentOnce
PROPERTIES
  JobEndsUnlessHeld
