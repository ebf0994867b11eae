CONSTANTS
  CollisionFactor = 2
  LevelBase = 2
  MaxLevel = 2
  MaxDoc = 2
  MaxOptimize = 1
  MaxPause = 0
  IsAsync = TRUE
  UseAddMerger = TRUE
  RealTime = FALSE
  Usage = {"removeUnflushed"}
SPECIFICATION Spec
PROPERTY NoResurrection
