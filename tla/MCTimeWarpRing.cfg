CONSTANTS
  a = a
  b = b
  c = c
  p1 = p1
  p2 = p2
  PE = {p1, p2}
  Root = p1
  EndTime = 3
  Chare = {a, b, c}
  Phases = 2
  Initial <- RingInitial
  Sends <- RingSends
  Home <- RingHomes
  MBlock = 2
SPECIFICATION FairSpec
PROPERTIES
  ImplementsVirtualTime
  Terminates
