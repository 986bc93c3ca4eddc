SPECIFICATION Spec
CONSTANTS
  Actors <- MCActors
  Context <- MCContext
  MayHang = {}
PROPERTIES
  EveryStopCompletes
CHECK_DEADLOCK FALSE
