SPECIFICATION FairSpec
CONSTANTS
  Logs <- MCLogs
  Configs <- MCConfigs
  NoConfig = NoConfig
  TrieWorkers = {w1, w2}
  FilterWorkers = {f1, f2}
  ChunkSize = 2
  ResultCap = 1
  MaxLen = 3
INVARIANTS
  EveryPathAgrees
  JailPhaseIsComplete
PROPERTIES
  AnalysisEnds
CHECK_DEADLOCK FALSE
