CONSTANTS
  M <- MCM
  A12 = 18  A13N = 12  A21 = 18  A23N = 10
  A13Inverse = 66  A23Inverse = 11
  Two17 = 8  Two53 = 2048  Fact = 64  Unit = 16777216
  SubPower = 2
  StreamPower = 4
  Package <- MCPackage
  SeedsGiven <- MCSeeds
  AdvancesGiven <- MCAdvances
  NULL = NULL
  MaxPlace = 34
SPECIFICATION Spec
INVARIANTS StateIsPlace ValuesInRange AntitheticMirrors
