------------------------------ MODULE Transitions ------------------------------
(***************************************************************************)
(* The queues, the points of the state space, and what the transitions of  *)
(* the library do to one point (queue.cpp, libtransition).                 *)
(***************************************************************************)
EXTENDS Integers, FiniteSets

CONSTANTS Standard,   \* the ids of the StandardQueue's
          Outside,    \* the ids of the OutsideQueue's
          Capacity,   \* [Standard -> their capacity]
          Arrivals,   \* the events of each transition, as
          Departures, \* records of their parameters
          Jsqs,
          NoEvent,    \* an Event that was never filled
          INT_MAX     \* the largest queue_state_t

Queues == Standard \cup Outside

\* JSQ2 compares its two destinations, which the code supports for standard
\* queues only; addClient does not overflow below INT_MAX.
ASSUME QueuesAssumption ==
  /\ Standard \cap Outside = {}
  /\ INT_MAX \in Nat /\ Capacity \in [Standard -> 0..(INT_MAX - 1)]
\* The queues of a Configuration are registered one by one.
ASSUME FinitelyMany == IsFiniteSet(Standard)
ASSUME EventsAssumption ==
  /\ Arrivals \subseteq [transition : {"ArrivalReject"}, to : Queues]
  /\ Departures \subseteq [transition : {"Departure"}, from : Queues]
  /\ Jsqs \subseteq [transition : {"JSQ2"}, from : Queues, to0 : Standard, to1 : Standard]

Events == Arrivals \cup Departures \cup Jsqs

\* An OutsideQueue has no state: it is always 0.
Points == {p \in [Queues -> 0..INT_MAX] :
             /\ \A q \in Standard : p[q] <= Capacity[q]
             /\ \A q \in Outside : p[q] = 0}
Leq(p, r) == \A q \in Queues : p[q] <= r[q]
Box(p, r) == {x \in Points : Leq(p, x) /\ Leq(x, r)}

----------------------------------------------------------------------------
(* Queues.  An OutsideQueue is never empty nor full. *)

IsEmpty(p, q) == q \in Standard /\ p[q] = 0
IsFull(p, q) == q \in Standard /\ p[q] = Capacity[q]

AddClient_OutsideToo(p, q) ==
  [p EXCEPT ![q] = IF q \in Standard /\ p[q] + 1 > Capacity[q] THEN Capacity[q] ELSE p[q] + 1]
AddClient(p, q) ==
  IF q \in Outside THEN p
  ELSE [p EXCEPT ![q] = IF p[q] + 1 > Capacity[q] THEN Capacity[q] ELSE p[q] + 1]

RemoveClient_Pairs(p, q) ==
  IF q \in Outside THEN p
  ELSE [p EXCEPT ![q] = IF p[q] < 2 THEN p[q] ELSE p[q] - 2]
RemoveClient(p, q) ==
  IF q \in Outside THEN p
  ELSE [p EXCEPT ![q] = IF p[q] < 1 THEN 0 ELSE p[q] - 1]

CompareTo(p, q, r) == p[q] - p[r]

----------------------------------------------------------------------------
(* Transitions on a point. *)

ArrivalReject(p, to) == IF IsFull(p, to) THEN p ELSE AddClient(p, to)

Departure(p, from) == IF IsEmpty(p, from) THEN p ELSE RemoveClient(p, from)

JSQ2_Unguarded(p, from, to0, to1) ==
  RemoveClient(AddClient(p, IF CompareTo(p, to0, to1) > 0 THEN to0 ELSE to1), from)
JSQ2(p, from, to0, to1) ==
  IF IsEmpty(p, from) THEN p
  ELSE RemoveClient(AddClient(p, IF CompareTo(p, to0, to1) > 0 THEN to0 ELSE to1), from)

Apply(p, ev) ==
  CASE ev.transition = "ArrivalReject" -> ArrivalReject(p, ev.to)
    [] ev.transition = "Departure"     -> Departure(p, ev.from)
    [] ev.transition = "JSQ2"          -> JSQ2(p, ev.from, ev.to0, ev.to1)
=============================================================================
