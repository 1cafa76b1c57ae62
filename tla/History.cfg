CONSTANTS
  i1 = i1  i2 = i2
  c1 = c1  c2 = c2  c3 = c3
  a = a  b = b  invalid = invalid  unstorable = unstorable  unloadable = unloadable
  Iterators = {i1, i2}
  Chunks = {c1, c2, c3}
  Null = Null
  Unmade = Unmade
  None = None
  Events = {a, b, invalid}
  Body <- MCBody
  Invalid = {invalid}
  StoreFails = {}
  LoadFails = {}
  BufSizes = {4, 7}
  Requests = {0, 2}
  UINT32_MAX = 100
  OBJECTSIZE_MAX = 65535
SPECIFICATION Spec
CHECK_DEADLOCK FALSE
INVARIANTS TypeOK ChunksHoldLog CursorOnEvent FullBeforeLast CapacityKept WellLinked NoGarbage
PROPERTIES StoredEventsStay RefinesLogSteps EveryCallReturns
