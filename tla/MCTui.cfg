SPECIFICATION Spec
CONSTANTS
  NTries = 2
  NSets <- TwoThenOne
  ScaleModes = 2
  MaxPrecachers = 1
  MaxRedraws = 1
INVARIANTS
  PanelsAreCurrent
  HeatmapIsOwn
PROPERTIES
  SwitchShows
CHECK_DEADLOCK FALSE
