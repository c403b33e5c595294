SPECIFICATION Spec
CONSTANTS
  Index <- MCIndex
  Vectors <- MCVectors
  Written <- MCWritten
  Descr = {d1, d2}
  MaxWrites = 4
  MaxSends = 1
  Count = 20
  elements_per_part = 16
  Sizes = {0, 2, 4, 8}
INVARIANTS  HeadIsTrue 
PROPERTIES DecodeExact
CHECK_DEADLOCK FALSE
