SPECIFICATION Spec
CONSTANTS
  empty = empty
  small = small
  medium = medium
  big = big
  Callers = {c1, c2}
  Payloads <- MCPayloads
  Size <- MCSize
  LimitOfBytes = 6
  SeparatorLen = 1
  Capacity = 2
  MaxAccepted = 4
INVARIANTS
  Conservation
  ChunksWithinLimit
  ChunksAreAssembled
  DoneMeansFlushed
PROPERTIES
  ShutdownCompletes
  ImplementsDataFlow
