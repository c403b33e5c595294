SPECIFICATION FairSpec
CONSTANTS
  NodeCount = 5
  Layer = {1}
  MaxIter = 3
INVARIANTS EveryoneContributed Lockstep IInv
 
CHECK_DEADLOCK FALSE
