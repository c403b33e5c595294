SPECIFICATION FairSpec
CONSTANTS
  c1 = c1
  c2 = c2
  l1 = l1
  l2 = l2
  Client = {c1, c2}
  Layer = {l1, l2}
  Configs <- MCConfigs
  MaxGets = 2
INVARIANTS EachBatchOnce InOrder ElementsBounded
PROPERTIES EveryGetReturns
CHECK_DEADLOCK FALSE
