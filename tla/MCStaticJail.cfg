SPECIFICATION Spec
CONSTANTS
  CIDRs = {"P", "A", "B"}
  Bounds <- MCBounds
  NumCells = 2
  BanDuration <- MCBanDuration
  MaxTime = 5
  Host <- MCHost
  Whitelist = {"B"}
  Blacklist = {"P"}
  Findings <- MCFindings
  MaxFailures = 1
INVARIANTS
  BannedIsSaved
PROPERTIES
  BansCarryOver
