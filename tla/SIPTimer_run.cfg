\* Three jobs over four instants: enough for a job to be cancelled while another,
\* later one waits behind it and a third is scheduled from a handler.
SPECIFICATION FairSpec
CONSTANTS
  MaxJobs = 3
  MaxTime = 3
  MaxSpurious = 1
INVARIANTS
  TypeOK
  JobAccounting
  NoOversleep
  EarlyOnlyAfterCancel
  AtMostOneLateFiring
PROPERTIES
  ImplementsOneShotTimer
  DestructorReturns
  DueJobsLeaveQueue
