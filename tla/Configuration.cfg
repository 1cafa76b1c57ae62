CONSTANTS
  arrival = arrival  departure = departure  own = own
  e1 = e1  e2 = e2  e3 = e3  q1 = q1  q2 = q2  q3 = q3
  Transitions = {arrival, departure, own}
  Library <- MCLibrary
  EventTypes = {e1, e2, e3}
  Queues = {q1, q2, q3}
  Name <- MCName
  Transition <- MCTransition
  Rate <- MCRate
  LibraryPath <- MCLibraryPath
  MaxPoints = 2
  MaxCalls = 11
SPECIFICATION Spec
INVARIANTS TypeOK CodesDecode IdsFindQueues LibrariesFound DrawsFollowRates
