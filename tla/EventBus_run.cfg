\* Every program, three events: a message can follow another whose dispatch threw,
\* was taken by the register logic or was logged.
SPECIFICATION FairSpec
CONSTANTS
  Program <- MCProgram
  MaxLines = 2
  MaxDispatches = 3
INVARIANTS
  TypeOK
  NetworkHearsAll
  OneOwner
  UndefinedExplained
  LinesWrittenFirst
PROPERTY
  DispatchReturns
