SPECIFICATION AlgorithmsSpec
CONSTANTS
  W = 3
  MaxArgs = 0
  Leaves <- UnicodeLeaves
  InputRunes <- UnicodeRunes
  maxCrossProduct = 3
  MaxInput = 3
  MaxGrowth = 1
  Formats <- MCFormats
  PlainTexts <- NoTexts
  BracketedTexts <- NoTexts
  QuotedTexts <- NoTexts
  LineBytes <- NoTexts
  MaxBytes = 0
INVARIANT NoFalseNegative
CHECK_DEADLOCK FALSE
