\* Every value of up to four tokens in each header that is cut by positions, lines
\* in excess, lengths of bodies, list headers and session timers, with a uint16_t
\* of three values.
SPECIFICATION Spec
CONSTANTS
  SizeT = 64
  Numeral <- MCNumeral
  Unprintable <- MCUnprintable
  NotAName <- MCNotAName
  Lower <- MCLower
  Message <- Messages
  Word = 3
  Text <- MCText
  MaxTokens = 4
INVARIANTS
  TypeOK
  FieldsExact
  NothingOutOfRange
  ContentAgrees
  FlagsExact
  AcceptedIsSound
PROPERTIES
  ParsingAdvances
