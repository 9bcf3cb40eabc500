CONSTANTS
  p1 = p1
  p2 = p2
  PE = {p1, p2}
  Root = p1
  EndTime = 4
  BucketSize = 2
  PhaseValues = 256
  GvtInterval = 1
  Optimistic = TRUE
  LBInterval = 0
  MinDelay = 0
  MaxEmit = 1
  MaxCopies = 1
  MaxCount = 1
SPECIFICATION FairSpecAhead
INVARIANTS
  ReductionsMatch
PROPERTIES
  ImplementsVirtualTime
  Terminates
