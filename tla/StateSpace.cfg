CONSTANTS
  q1 = q1  q2 = q2  q3 = q3  out = out
  Standard = {q1, q2, q3}
  Outside = {out}
  Capacity <- MCCapacity
  Arrivals <- AllArrivals
  Departures <- AllDepartures
  Jsqs <- AllJsqs
  NoEvent = NoEvent
  INT_MAX = 4
SPECIFICATION LibrarySpec
INVARIANTS TypeOK Envelope CouplingDetected
PROPERTIES ClientsConserved
