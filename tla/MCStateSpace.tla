----------------------------- MODULE MCStateSpace -----------------------------
(* Three standard queues of different capacities, and the outside world.     *)
EXTENDS StateSpaceProps

CONSTANTS q1, q2, q3, out

MCCapacity == [q \in Standard |-> CASE q = q1 -> 2 [] q = q2 -> 3 [] OTHER -> 1]

AllArrivals == [transition : {"ArrivalReject"}, to : Queues]
AllDepartures == [transition : {"Departure"}, from : Queues]
AllJsqs == [transition : {"JSQ2"}, from : Queues, to0 : Standard, to1 : Standard]
None == {}

\* JSQ2 is not monotone: a program may only apply it to a point.
LibraryNext ==
  \E ev \in Events : (shape = "HyperRectangle" => ev \notin Jsqs) /\ ApplySet(ev)
LibrarySpec == Init /\ [][LibraryNext]_vars
=============================================================================
