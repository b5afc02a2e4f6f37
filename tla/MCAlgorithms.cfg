SPECIFICATION AlgorithmsSpec
CONSTANTS
  W = 3
  MaxArgs = 3
  Leaves <- MCLeaves
  InputRunes <- MCRunes
  maxCrossProduct = 3
  MaxInput = 4
  MaxGrowth = 2
  Formats <- MCFormats
  PlainTexts <- MCPlain
  BracketedTexts <- MCBracketed
  QuotedTexts <- MCQuoted
  LineBytes <- MCBytes
  MaxBytes = 5
INVARIANTS
  MergeExact
  SubtractExact
  GateAgrees
  FieldsRecovered
  IPOnlyAgrees
CHECK_DEADLOCK FALSE
