CONSTANTS
  to1 = to1  to2 = to2  from1 = from1
  t1 = t1  t2 = t2
  EventTypes = {t1, t2}
  Formals = {to1, to2, from1}
  Name <- MCName
  Length <- MCLength
  LoadFails = {from1}
  Sizeof = 4
  DefaultSize = 128
  None = None
  MaxAllocated = 7
SPECIFICATION Spec
CHECK_DEADLOCK FALSE
INVARIANTS KnownParametersAvailable AbortsOnlyOnLateParameter
