CONSTANTS
  p1 = p1
  p2 = p2
  PE = {p1, p2}
  Root = p1
  EndTime = 3
  GvtInterval = 2
  Optimistic = TRUE
  AsyncReduction = FALSE
  LBInterval = 2
  MinDelay = 1
  MaxEmit = 1
  MaxCopies = 1
SPECIFICATION FairSpec
INVARIANTS
  TypeOK
  GVTIsFloor
  OneExecuteInFlight
  QuietWhileBalancing
PROPERTIES
  ImplementsVirtualTime
  EveryPEResumes
