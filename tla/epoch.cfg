SPECIFICATION Spec
CONSTANTS
  NUM_HEAVY = 4
  Flow = {1, 2, 3, 4, 5, 6}
  MaxSize = 3
  DUMMY_FLOW = 9
  Raw = Raw
  numBucket = 4
  BT_BUCKET_SIZE = 1
  maxnumBucket = 2
  maxsizeBucket = 3
  STRIDE = 3
  BtHashes <- MCBtHashes
  ST_BUCKET_NUM = 2
  ST_BUCKET_SIZE = 2
  ST_STASH_NUM = 1
  StHashes <- MCStHashes
  Builders = {"OBuildSTable", "BuildSTable_NO"}
  CUSKETCH_MEM = 4
  numEBlock = 4
  CounterMax = 2
  CusHashes <- MCCusHashes
  Messages <- MCMessages
  TopK = {2, 6}
  Thresholds = {0, 2}
  Epochs = 1
INVARIANTS SameBucket ChangesExact PlacedIsThere LookupExact ListMerged NothingForgotten ResponseSound
CHECK_DEADLOCK FALSE
