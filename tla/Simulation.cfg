CONSTANTS
  q1 = q1  q2 = q2  s1 = s1  s2 = s2
  Standard = {q1, q2}
  Outside = {}
  Capacity <- MCCapacity
  Arrivals <- MCArrivals
  Departures <- MCDepartures
  Jsqs <- None
  NoEvent = NoEvent
  INT_MAX = 2
  Simulations = {s1, s2}
  Starts <- MCStarts
  Requests = {1, 2}
  Unlimited = Unlimited
  MaxSegments = 2
  MaxEvents = 3
SPECIFICATION Spec
INVARIANTS TypeOK SetFollowsHistory SampleIsFinal
SYMMETRY Symmetry
CHECK_DEADLOCK FALSE
