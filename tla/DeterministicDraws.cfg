CONSTANTS
  r1 = r1  r2 = r2
  Randoms = {r1, r2}
  NStreams = 3
  Garbage = {0, 4}
  MaxId = 4
  MaxPos = 2
  MaxMoments = 3
  MaxSaved = 1
SYMMETRY MCSymmetry
SPECIFICATION Spec
CHECK_DEADLOCK FALSE
INVARIANT DrawsReplay
