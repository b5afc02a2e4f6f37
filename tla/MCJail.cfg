SPECIFICATION Spec
CONSTANTS
  CIDRs = {"G", "P", "A", "B"}
  BadStrings = {"bad"}
  Bounds <- MCBounds
  NumCells = 3
  BanDuration <- MCBanDuration
  MaxBatch = 2
  MaxTime = 12
INVARIANTS
  ActiveFlagsSound
  Antichain
  AllCIDRsExact
  DetectedIsBanned
PROPERTIES
  EscalationRemembered
  RunningBanHeld
