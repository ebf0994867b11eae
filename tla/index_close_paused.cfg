CONSTANTS
  CollisionFactor = 2
  LevelBase = 2
  MaxLevel = 2
  MaxDoc = 2
  MaxOptimize = 1
  MaxPause = 1
  IsAsync = TRUE
  UseAddMerger = TRUE
  RealTime = FALSE
  Usage = {"closePaused"}
SPECIFICATION FairSpec
PROPERTY CloseReturns
CHECK_DEADLOCK FALSE
