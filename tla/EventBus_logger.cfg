\* SIPxApp, one message.
SPECIFICATION Spec
CONSTANTS
  Program <- SIPxAppPrograms
  MaxLines = 2
  MaxDispatches = 1
INVARIANT
  LoggerWrites
