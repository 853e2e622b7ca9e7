\* One job is cancelled, another is waiting behind it.
SPECIFICATION Spec
CONSTANTS
  MaxJobs = 2
  MaxTime = 2
  MaxSpurious = 0
INVARIANT
  NeverEarly
