SPECIFICATION FairSpec
CONSTANTS
  Params <- MCParams
  Trees <- Paired
INVARIANTS NeverMixedUp UpdateComplete BuffersKept 
PROPERTIES SolversEnd
CHECK_DEADLOCK FALSE
