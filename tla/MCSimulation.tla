----------------------------- MODULE MCSimulation -----------------------------
(* Two simulations on two queues.                                            *)
EXTENDS SimulationProps

CONSTANTS q1, q2, s1, s2

MCCapacity == [q \in Standard |-> 1]
MCArrivals == [transition : {"ArrivalReject"}, to : {q1}]
MCDepartures == [transition : {"Departure"}, from : Standard]
None == {}

\* All the points, and the Point that its constructor makes.
MCStarts == {All, [inf |-> All.inf, sup |-> All.inf]}

Symmetry == Permutations(Simulations)
=============================================================================
