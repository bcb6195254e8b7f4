SPECIFICATION Spec
CONSTANTS
  Calls <- MCCalls
  LightValues = {0, 2}
  Sizes = {1, 4}
  MaxCount = 3
  DUMMY_FLOW = 9
INVARIANTS
  LightUpdated
  NothingBehindMerge
  OnePerBlock
CHECK_DEADLOCK FALSE
