SPECIFICATION TimedSpec
CONSTANTS
  empty = empty
  small = small
  medium = medium
  big = big
  Callers = {c1}
  Payloads <- MCPayloads
  Size <- MCSize
  LimitOfBytes = 6
  SeparatorLen = 1
  Capacity = 2
  MaxAccepted = 2
  ForceFlushAfter = 2
PROPERTIES
  OldestIsFlushed
