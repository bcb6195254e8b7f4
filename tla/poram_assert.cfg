SPECIFICATION Spec
CONSTANTS
  nBlock = 4
  level = 2
  sizeBucket = 1
  MAX_STASH_NUM = 3
  DEFAULT_STASH_LENGTH = 1
  PACE_STASH = 1
  STASH_STEP = 2
  needComStash = TRUE
  assertsOn = TRUE
  Modes <- MCOAccessOnly
  Requested = {0, 1, 2, 3}
  Draws = {0, 3}
  AddedBound = 4
  DUMMY_FLAG = DUMMY_FLAG
INVARIANTS
  OReadAssertHolds
CHECK_DEADLOCK FALSE
