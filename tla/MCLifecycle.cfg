SPECIFICATION Spec
CONSTANTS
  Actors <- MCActors
  Context <- MCContext
  MayHang = {6}
INVARIANTS
  StoppedInOrder
PROPERTIES
  StopsOnceStarted
CHECK_DEADLOCK FALSE
