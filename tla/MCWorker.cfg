SPECIFICATION Spec
CONSTANTS
  Workers = {w1, w2}
  s1 = s1
  s2 = s2
  Slots <- MCSlots
  StorageOf <- MCStorageOf
  QueueOf <- MCQueueOf
  Units = {1, 2}
  Hanging <- MCHanging
  NoUnit = NoUnit
  IncomingCapacity = 1
INVARIANTS
  AnnouncedIsStored
  EveryUnitInOnePlace
  FinishedIsAttemptedEverywhere
  DoneMeansFinished
PROPERTIES
  FedIsFinished
  WorkersEnd
  ImplementsPool
CHECK_DEADLOCK FALSE
