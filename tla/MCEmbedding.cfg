SPECIFICATION Spec
CONSTANTS
  Pins <- MCPins
  Texts <- MCTexts
  MaxTexts = 4
  ClsGroupTokens = 12
  TokensPerEncode = 12
  DecodeSequences = 3
  BatchItems = 4
INVARIANTS TypeOK ContextsBounded InputsFitTightly OnlyPoisonIsZeroed PoisonIsCheap
CHECK_DEADLOCK FALSE
