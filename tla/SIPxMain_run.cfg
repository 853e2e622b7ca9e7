\* Main may be up to two instants late before it sleeps, and the worker later
\* than that; both can still finish after the sleep is over.
SPECIFICATION FairSpec
CONSTANTS
  MaxTime = 7
  MaxSpurious = 2
  MaxDelay = 2
INVARIANTS
  TypeOK
  LostOnlyByOverlap
  UndefinedOnlyByRaces
  DeliveredOnce
  NeverEarly
PROPERTY
  MainReturns
