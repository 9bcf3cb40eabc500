CONSTANTS
  p1 = p1
  p2 = p2
  PE = {p1, p2}
  Root = p1
  EndTime = 2
  GvtInterval = 1
  Optimistic = TRUE
  LBInterval = 2
  LBContinuous = TRUE
  MinDelay = 1
  MaxEmit = 1
  MaxCopies = 1
  MaxCount = 1
SPECIFICATION Spec
INVARIANT
  NotRunningWhenBalancing
