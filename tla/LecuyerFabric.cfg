CONSTANTS
  Threads = {t1, t2}
  Torn = Torn
  MaxGenerators = 2
SPECIFICATION Spec
INVARIANTS GeneratorsDiffer
CHECK_DEADLOCK FALSE
