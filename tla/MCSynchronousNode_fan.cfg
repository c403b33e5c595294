SPECIFICATION Spec
CONSTANTS
  Layer = {1}
  Part = {10}
  LayerOf <- MCLayerOf
  NoPart = 0
  NodeCount = 3
  MaxIter = 3
  LocalIters <- MCLocalIters
  SnapshotPer = 0
  Overlap = FALSE
  Eager = TRUE
PROPERTIES Implements
CHECK_DEADLOCK FALSE
