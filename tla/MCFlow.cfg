SPECIFICATION Spec
CONSTANTS
  small = small
  big = big
  Callers = {c1, c2}
  Payloads <- MCPayloads
  Size <- MCSize
  LimitOfBytes = 5
  SeparatorLen = 1
  AccCapacity = 2
  UploaderCapacity = 1
  Workers = {w1, w2}
  MaxAccepted = 3
INVARIANTS
  UploaderOutlivesAccumulator
  EndToEnd
  StoppedMeansWorked
PROPERTIES
  StopCompletes
  ImplementsDataFlow
