CONSTANTS
  g1 = g1  g2 = g2  s1 = s1  s2 = s2  s3 = s3
  Generators = {g1, g2}
  Streams = {s1, s2, s3}
  Uninit = Uninit
  MaxSub = 3
  MaxOffset = 1
  MaxMarks = 3
  MaxSaved = 1
SYMMETRY MCSymmetry
SPECIFICATION Spec
CHECK_DEADLOCK FALSE
INVARIANTS TypeOK OwnSubstreams
