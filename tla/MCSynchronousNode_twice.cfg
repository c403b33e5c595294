SPECIFICATION Spec
CONSTANTS
  Layer = {1}
  Part = {10}
  LayerOf <- MCLayerOf
  NoPart = 0
  NodeCount = 2
  MaxIter = 3
  LocalIters <- MCLocalIters
  SnapshotPer = 0
  Overlap = TRUE
  Eager = TRUE
INVARIANTS EveryGradientOnce
CHECK_DEADLOCK FALSE
