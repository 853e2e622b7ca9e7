\* The program as it is; the clock plays no part.
SPECIFICATION Spec
CONSTANTS
  MaxTime = 3
  MaxSpurious = 0
  MaxDelay = 0
INVARIANT
  EveryRegistrationKept
