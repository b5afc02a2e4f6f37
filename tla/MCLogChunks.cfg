SPECIFICATION FairReadSpec
CONSTANTS
  Overlap = 1
  MaxLine = 4
  Files <- MCFiles
  ChunkSizes = {2, 4}
  Readers = {r1, r2}
  Parsers = {p1, p2}
  ChanCap = 1
  BatchSize = 2
  MaxFailures = 1
  ShortLen = 4
  LongLen = 8
PROPERTIES
  ImplementsParse
  ParseReturns
CHECK_DEADLOCK FALSE
