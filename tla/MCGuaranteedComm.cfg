SPECIFICATION Spec
CONSTANTS
  c1 = c1
  c2 = c2
  Client = {c1, c2}
  Server = s
  All = all
  Load <- MCLoad
  MaxUid = 2
  NumBuffers = 1
  MaxUnacked = 0
INVARIANTS OncePerSession SenderKnown SendingEnds
 
