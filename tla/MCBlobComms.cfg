SPECIFICATION FairSpec
CONSTANTS
  Layer = {1, 2}
  Part = {10, 11, 20}
  LayerOf <- MCLayerOf
  NoPart = 0
  Thread = {"solver", "comm"}
  CommThread = "comm"
  MayCancel = {2}
  MaxVersion = 2
INVARIANTS BufferIntact SomeoneWillSend
PROPERTIES EveryPartSent
CHECK_DEADLOCK FALSE
