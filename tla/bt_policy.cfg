CONSTANTS
  CollisionFactor = 3
  LevelBase = 3
  MaxLevel = 4
  FlushSizes = {1, 3, 9}
  MaxFlushes = 7
  MaxDeletes = 1
SPECIFICATION Spec
INVARIANTS NoLayerFull LayersPartitionBarrels LevelSizeAccounts
CHECK_DEADLOCK FALSE
