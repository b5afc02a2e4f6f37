SPECIFICATION Spec
CONSTANTS
  W = 3
  Requesters <- MCRequesters
  Delays = {0, 2}
  MaxBatch = 2
  TimeLimit = 1
  MaxEntries = 3
  RebuildMinEvictions = 2
  ArgSets <- MCArgSets
  MaxTime = 3
INVARIANTS
  CountsFollowQueue
  ClustersSound
  HeavyHittersFound
PROPERTIES
  WindowBounded
