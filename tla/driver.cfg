SPECIFICATION Spec
CONSTANTS
  BYTE = 2
  GCM_IV_SIZE = 2
  Options <- MCOptions
  InitFailures <- MCInitFailures
  MaxFaults = 2
INVARIANTS LeaksNamed ServesThisRound FreshVector
PROPERTIES CrashExplained AppEnds
CHECK_DEADLOCK FALSE
