CONSTANTS
  CollisionFactor = 2
  LevelBase = 2
  MaxLevel = 2
  MaxDoc = 3
  MaxOptimize = 1
  MaxPause = 0
  IsAsync = TRUE
  UseAddMerger = TRUE
  RealTime = FALSE
  Usage = {}
SPECIFICATION Spec
INVARIANTS TypeOK DocsInOneBarrel MergerHoldsLiveBarrels NumDocsExact MaxDocCovers ReaderCoherent
PROPERTY IsDocIndex
