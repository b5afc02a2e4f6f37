SPECIFICATION FairSpec
CONSTANTS
  CIDRs = {"P", "A", "B"}
  Bounds <- MCBounds
  NumCells = 2
  BanDuration <- MCBanDuration
  MaxTime = 6
  Addr = {0, 1}
  Host <- MCHost
  Whitelist = {"B"}
  Blacklist = {"P"}
  Traffic <- MCAgentTraffic
  UAWindow = 1
  HeartbeatInterval = 1
  LastTraffic = 2
  MaxFailures = 2
  MaxCrashes = 1
INVARIANTS
  SuppressionIsFresh
  WhitelistNeverBanned
  KeyIsOnDisk
  ServedIsOnDisk
PROPERTIES
  DetectionsPublished
  NoEarlyLift
  BansLift
  BanFileFollows
