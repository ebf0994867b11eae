CONSTANTS
  CollisionFactor = 2
  LevelBase = 2
  MaxLevel = 2
  MaxDoc = 2
  MaxOptimize = 1
  MaxPause = 1
  IsAsync = TRUE
  UseAddMerger = TRUE
  RealTime = TRUE
  Usage = {}
SPECIFICATION FairSpec
INVARIANT ReaderCoherent
PROPERTIES NoRemovalWhilePaused IsDocIndex OptimizeReturns WaitReturns CloseReturns
