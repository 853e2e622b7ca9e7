\* A message with an empty value or a comma at the end of a list is not returned.
SPECIFICATION FairSpec
CONSTANTS
  SizeT = 64
  Numeral <- MCNumeral
  Unprintable <- MCUnprintable
  NotAName <- MCNotAName
  Lower <- MCLower
  Message <- OneListMessages
  Word = 3
  Text <- MCText
  MaxTokens = 0
PROPERTY
  MessageReturned
