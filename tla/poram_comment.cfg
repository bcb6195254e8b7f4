SPECIFICATION Spec
CONSTANTS
  nBlock = 3
  level = 1
  sizeBucket = 1
  MAX_STASH_NUM = 6
  DEFAULT_STASH_LENGTH = 1
  PACE_STASH = 1
  STASH_STEP = 2
  needComStash = FALSE
  assertsOn = FALSE
  Modes <- MCAccessOnly
  Requested = {0, 1, 2}
  Draws = {0, 1}
  AddedBound = 3
  DUMMY_FLAG = DUMMY_FLAG
INVARIANTS
  AddedWithinFailed
CHECK_DEADLOCK FALSE
