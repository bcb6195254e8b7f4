SPECIFICATION Spec
CONSTANTS
  Versions <- MCVersions
  Lengths <- MCLengths
  PlainVersions <- MCPlainVersions
  PlainLengths <- MCPlainLengths
  HALFWORD = 3
  Sizes = {0, 1, 2, 3}
  MAX_SIZE = 7
INVARIANTS
  ScanExact
  DistExact
  PlainExact
CHECK_DEADLOCK FALSE
