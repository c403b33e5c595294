SPECIFICATION FairSpec
CONSTANTS
  Layer = {1, 2, 3}
  Part = {10, 11, 30}
  LayerOf <- MCLayerOf
  NoPart = 0
  NodeCount = 2
  MaxIter = 3
  LocalIters <- MCLocalIters
  SnapshotPer = 2
  Overlap = FALSE
  Eager = TRUE
INVARIANTS StableWeights TrueLabels EveryGradientOnce  
 
CHECK_DEADLOCK FALSE
