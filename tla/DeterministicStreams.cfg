CONSTANTS
  r1 = r1  r2 = r2
  Randoms = {r1, r2}
  NStreams = 2
  Garbage = {0, 3}
  MaxId = 3
  MaxPos = 1
  MaxMoments = 2
  MaxSaved = 1
SYMMETRY MCSymmetry
SPECIFICATION Spec
CHECK_DEADLOCK FALSE
INVARIANTS TypeOK StoredStateIsMarked StreamsReplay StreamsDiffer
