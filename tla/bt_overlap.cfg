CONSTANTS
  CollisionFactor = 3
  LevelBase = 3
  MaxLevel = 4
  FlushSizes = {1, 3, 9}
  MaxFlushes = 9
  MaxDeletes = 0
SPECIFICATION Spec
INVARIANT RangesDisjoint
CHECK_DEADLOCK FALSE
