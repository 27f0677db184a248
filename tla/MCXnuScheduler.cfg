SPECIFICATION Spec
CONSTANTS
  t1 = t1
  t2 = t2
  a = a
  NoThread = NoThread
  Threads <- Pair
  Processes <- OneProcess
  ProcessOf <- PairProcess
  NumProcessors = 2
  MaxHolds = 2
INVARIANTS
  TypeOK
  HoldsRespected
  NoLostWake
  HostTicketOwnsThread
  HostContinuationCurrent
  CountersAgree
  SlicesAccountedOnce
  ContextsCurrent
PROPERTY
  StaleSliceHarmless
