SPECIFICATION Spec
CONSTANTS
  Layer = {1}
  Part = {10}
  LayerOf <- MCLayerOf
  NoPart = 0
  NodeCount = 4
  MaxIter = 2
  LocalIters <- MCLocalIters
  SnapshotPer = 0
  Overlap = FALSE
  Eager = FALSE
INVARIANTS NoSpin NormalisedByAll EveryGradientOnce
CHECK_DEADLOCK FALSE
