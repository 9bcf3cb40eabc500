CONSTANTS
  p1 = p1
  p2 = p2
  PE = {p1, p2}
  Root = p1
  EndTime = 1
  GvtInterval = 1
  Optimistic = TRUE
  LBInterval = 0
  LBContinuous = FALSE
  MinDelay = 0
  MaxEmit = 1
  MaxCopies = 1
  MaxCount = 1
SPECIFICATION FairSpec
PROPERTY
  EveryRoundEnds
