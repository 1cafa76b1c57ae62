CONSTANTS
  q1 = q1  q2 = q2  q3 = q3  out = out
  Standard = {q1, q2, q3}
  Outside = {out}
  Capacity <- MCCapacity
  Arrivals <- None
  Departures <- None
  Jsqs <- AllJsqs
  NoEvent = NoEvent
  INT_MAX = 4
SPECIFICATION Spec
PROPERTIES JoinsShortest
