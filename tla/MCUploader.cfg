SPECIFICATION LabelledSpec
CONSTANTS
  Callers = {c1, c2}
  Payloads = {p1, p2}
  Capacity = 2
  NextCapacity = 1
  MaxAccepted = 4
  HoursPerDay = 2
  MaxHours = 3
INVARIANTS
  TypeOK
  NoSendOnClosed
  Conservation
  ClosedMeansDrained
  FoldersAreOfTheirTime
PROPERTIES
  RefusalIsFinal
  ShutdownCompletes
  AcceptedIsTaken
  ImplementsDataFlow
