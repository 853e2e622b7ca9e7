\* A response and a request by way of SIPParser.
SPECIFICATION Spec
CONSTANTS
  SizeT = 64
  Numeral <- MCNumeral
  Unprintable <- MCUnprintable
  NotAName <- MCNotAName
  Lower <- MCLower
  Message <- Whole
  Word = 3
  Text <- MCText
  MaxTokens = 0
PROPERTY
  CorrectType
