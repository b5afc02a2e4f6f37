SPECIFICATION FairSpec
CONSTANTS
  Batches = {b1, b2, bad}
  Unusable = {bad}
  RecvCap = 2
  EventsCap = 1
  MaxResends = 1
INVARIANTS
  FirstInFirstOut
  AckedIsQueued
  ExitAfterDrain
PROPERTIES
  CloseEndsLoop
  ArrivedIsProcessed
CHECK_DEADLOCK FALSE
