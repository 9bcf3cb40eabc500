CONSTANTS
  a = a
  b = b
  c = c
  p1 = p1
  p2 = p2
  PE = {p1, p2}
  Root = p1
  EndTime = 4
  Chare = {a, b}
  Phases = 2
  Initial <- FanInitial
  Sends <- FanSends
  Home <- FanHomes
  MBlock = 1
SPECIFICATION Spec
INVARIANTS
  CommittedIsSequential
  AntisMeetTheirEvent
  ClaimedOrCancelled
  NothingCancelledCommits
