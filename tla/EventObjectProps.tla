--------------------------- MODULE EventObjectProps ---------------------------
(***************************************************************************)
(* What a transition relies on when it reads the parameters of an event.   *)
(***************************************************************************)
EXTENDS EventObject

\* However often the object changed its type, were its loads interrupted and
\* were parameters added to the types, a valid event has a value of its own
\* for each parameter its type had when the event took it.
KnownParametersAvailable ==
  ev.status = "FILLED" =>
    /\ Len(known) <= Len(ev.slots)
    /\ \A i \in 1..Len(known) :
         /\ formalParameters[ev.type][i] = known[i]
         /\ ev.slots[i].state = "FPFILLED" /\ ev.slots[i].fp = known[i]

\* The assertions of the parameters' life cycle (setFormalParameterValues, get)
\* only fail for a parameter that was added to a type in use.
AbortsOnlyOnLateParameter ==
  outcome = "ABORTED" => ev.status = "FILLED" /\ Len(known) < Len(formalParameters[ev.type])

\* "An event is valid when all its parameters are available" (event.h:45).
ValidMeansAvailable == outcome \notin {"another value", "GARBAGE", "ABORTED"}

\* setCapacity: "ensure that the buffer can contain at lease nbValues elements"
\* (parameters.h:317).
BufferHoldsValues == \A fp \in DOMAIN values : values[fp].nbValues * Sizeof <= values[fp].bufferSize

\* "these objects are reused for different kind of event without reallocation"
\* (parameters.h:246-247): there are never more than the largest event needs.
ParametersReused == \E t \in EventTypes : allocated <= Len(formalParameters[t])
=============================================================================
