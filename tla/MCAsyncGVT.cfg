CONSTANTS
  p1 = p1
  p2 = p2
  PE = {p1, p2}
  Root = p1
  EndTime = 2
  GvtInterval = 1
  Optimistic = TRUE
  LBInterval = 2
  LBContinuous = FALSE
  MinDelay = 0
  MaxEmit = 1
  MaxCopies = 1
  MaxCount = 1
  Phases = 2
SPECIFICATION AsyncSpec
INVARIANTS
  TypeOK
  EqualCountsMeanDelivered
  ContributionNotBelowGVT
  RoundsAligned
  NotRunningWhenBalancing
  CdGVTIsFloor
  CdOneRoundAtATime
PROPERTY
  ImplementsVirtualTime
