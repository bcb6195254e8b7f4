SPECIFICATION Spec
CONSTANTS
  nBlock = 4
  level = 2
  sizeBucket = 2
  MAX_STASH_NUM = 3
  DEFAULT_STASH_LENGTH = 1
  PACE_STASH = 1
  STASH_STEP = 2
  needComStash = TRUE
  assertsOn = TRUE
  Modes <- MCMixed
  Requested = {0, 1, 3}
  Draws = {0, 3}
  AddedBound = 1
  DUMMY_FLAG = DUMMY_FLAG
INVARIANTS
  StashInBounds
  SafeUntilFull
  Conservation
  Evicted
PROPERTIES
  LossyUntilFull
CHECK_DEADLOCK FALSE
