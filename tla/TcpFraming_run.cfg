\* Three messages of four shapes, in every order, in reads of up to seven octets: enough
\* for one read to end a message, hold a whole one and begin a third.
SPECIFICATION FairSpec
CONSTANTS
  Octet = {CR, LF, x, L1, L4, Lbad}
  CR = CR
  LF = LF
  x = x
  L1 = L1
  L4 = L4
  Lbad = Lbad
  LengthField = {L1, L4, Lbad}
  stoul <- MCstoul
  Message <- MCMessage
  BufferSize = 7
  MaxMessages = 3
INVARIANTS
  TypeOK
  FramingExact
  NothingCompleteHeld
PROPERTIES
  ImplementsMessageChannel
  EveryMessageArrives
