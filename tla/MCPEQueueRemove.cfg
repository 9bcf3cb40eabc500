CONSTANTS
  Chare = {1, 2, 3, 4, 5, 6}
  LastTime = 1
SPECIFICATION Spec
INVARIANT TopIsEarliest
