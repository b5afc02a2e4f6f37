SPECIFICATION AlgorithmsSpec
CONSTANTS
  W = 3
  MaxArgs = 0
  Leaves <- UnicodeLeaves
  InputRunes <- UnicodeRunes
  maxCrossProduct = 3
  MaxInput = 0
  MaxGrowth = 0
  Formats <- PipeFormats
  PlainTexts <- MCPlain
  BracketedTexts <- MCBracketed
  QuotedTexts <- MCQuoted
  LineBytes <- NoTexts
  MaxBytes = 0
INVARIANT DelimitersRecovered
CHECK_DEADLOCK FALSE
