SPECIFICATION FairSpec
CONSTANTS
  nBlock = 3
  level = 1
  sizeBucket = 1
  MAX_STASH_NUM = 6
  DEFAULT_STASH_LENGTH = 1
  PACE_STASH = 1
  STASH_STEP = 2
  needComStash = TRUE
  assertsOn = TRUE
  Modes <- MCOblivious
  Requested = {0, 1, 2}
  Draws = {0, 1}
  AddedBound = 10
  DUMMY_FLAG = DUMMY_FLAG
INVARIANTS
  Placement
  AtMostOneCopy
  Conservation
PROPERTIES
  ServesStore
  AccessEnds
  AddedCatchesUp
