CONSTANTS
  p1 = p1
  p2 = p2
  PE = {p1, p2}
  Root = p1
  EndTime = 3
  GvtInterval = 1
  Optimistic = TRUE
  AsyncReduction = TRUE
  LBInterval = 0
  MinDelay = 1
  MaxEmit = 1
  MaxCopies = 1
SPECIFICATION Spec
INVARIANT ContributionNotBelowGVT
