SPECIFICATION Spec
CONSTANTS
  Calls <- MCDefaultCalls
  LightValues = {0, 2}
  Sizes = {1, 4}
  MaxCount = 3
  DUMMY_FLOW = 9
INVARIANT
  LightUpdated
CHECK_DEADLOCK FALSE
