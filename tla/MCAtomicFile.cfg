SPECIFICATION Spec
CONSTANTS
  Writers = {w1, w2}
  Contents = {c1, c2}
  NoFile = NoFile
  MaxDeaths = 2
  MaxPowerLosses = 1
INVARIANTS
  NeverPartial
PROPERTY
  ImplementsRegister
