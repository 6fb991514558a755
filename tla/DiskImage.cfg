SPECIFICATION Spec
CONSTANTS
    Managed <- MCManaged
    Swap <- MCSwap
    Scriptlet <- MCScriptlet
    Procs = {daemon, helper}
    Chrooted = {daemon}
    MaxKills = 1
    MaxTries = 1
INVARIANTS
  MountsKept
  CleanUnlessWarned
  PostedIsComplete
PROPERTIES
  JobEnds
