SPECIFICATION Spec
CONSTANTS
  Keys = {0, 1}
  PadKey = 2
  Jobs <- MCJobs
INVARIANTS
  ComparesInArray
  Rearranged
  SortedAtEnd
CHECK_DEADLOCK FALSE
