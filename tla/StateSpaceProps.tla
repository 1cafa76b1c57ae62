--------------------------- MODULE StateSpaceProps ---------------------------
(***************************************************************************)
(* What makes the transitions fit for perfect sampling.                    *)
(***************************************************************************)
EXTENDS StateSpace, FiniteSets, Functions

\* Every queue of every point stays within its capacity.
TypeOK ==
  /\ shape \in {"Point", "HyperRectangle"}
  /\ inf \in Points /\ sup \in Points /\ inside \subseteq Points
  /\ shape = "Point" => inf = sup
  /\ event \in Events \cup {NoEvent}

\* The two points that are followed enclose all those of the initial set
\* (the default apply on a HyperRectangle).
Envelope == \A x \in inside : Leq(inf, x) /\ Leq(x, sup)

\* They meet when, and only when, all of these have met: the point they meet
\* at is the one that every initial state leads to.
CouplingDetected == inf = sup <=> \E x \in inside : inside = {x}

Population(p) == FoldFunctionOnSet(+, 0, p, Standard)

\* No transition makes a client out of nothing, and none loses one but a
\* departure, or a JSQ2 that has a full queue to choose.
ClientsConserved ==
  [][shape = "Point" =>
       LET gain == Population(inf') - Population(inf)
           tr == event'.transition
       IN  /\ gain \in -1..1
           /\ gain = 1 => tr = "ArrivalReject" \/ (tr = "JSQ2" /\ event'.from \in Outside)
           /\ gain = -1 => \/ tr = "Departure"
                           \/ /\ tr = "JSQ2"
                              /\ \E q \in {event'.to0, event'.to1} : IsFull(inf, q)]_vars

\* A client never joins the longer of its two possible queues: among those of
\* "to", JSQ picks the one of the smallest taille_queue (info.org:71-84).
JoinsShortest ==
  [][shape = "Point" /\ event'.transition = "JSQ2" =>
       \A q, r \in {event'.to0, event'.to1} :
          q # event'.from /\ inf'[q] > inf[q] => inf[q] <= inf[r]]_vars

\* A transition that does not override apply on a HyperRectangle is monotone
\* (transition.cpp:30-31): the image of a hyperrectangle is one.
StaysRectangle == Leq(inf, sup)
=============================================================================
