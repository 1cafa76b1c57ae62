--------------------------- MODULE SimulationProps ---------------------------
(***************************************************************************)
(* What makes simulations on a growing history perfect sampling.           *)
(***************************************************************************)
EXTENDS Simulation

\* The sets are boxes of points, the segments hold events of the transitions.
TypeOK ==
  /\ \A s \in DOMAIN log : /\ log[s].request \in Requests \cup {Unlimited}
                           /\ log[s].events \in Seq(Events)
  /\ event \in Events \cup {NoEvent}
  /\ set \in [Simulations -> [inf : Points, sup : Points]]
  /\ \A i \in Simulations : Leq(set[i].inf, set[i].sup)

----------------------------------------------------------------------------
Started(i) == cursor[i].at # "unmade"

\* What an iterator has passed since its simulation started: whole segments,
\* then some events of the one it is in.
Whole(i) == [n \in 1..(from[i].seg - cursor[i].seg) |-> log[from[i].seg + 1 - n].events]
Part(i) == IF cursor[i].seg = 0 THEN << >>
           ELSE SubSeq(log[cursor[i].seg].events, 1, cursor[i].off)
Past(i) == FlattenSeq(Whole(i)) \o Part(i)

\* A simulation is always where the events of the history between its start and
\* its iterator lead: none is skipped, repeated, applied to another set or
\* applied late, whatever was stored, loaded or put in front in between.
SetFollowsHistory ==
  ~Called => \A i \in Simulations :
    Started(i) => set[i] = FoldLeft(ApplySet, from[i].set, Past(i))

All == [inf |-> [q \in Queues |-> 0],
        sup |-> [q \in Queues |-> IF q \in Standard THEN Capacity[q] ELSE 0]]

FurtherBack(i, j) == Started(i) /\ Started(j) /\ from[i].seg >= from[j].seg /\ from[j].set = All

\* Perfect sampling stops when all the states have met at the end of the
\* history.  The sample is final: starting further back gives the same one.
Finished(i) == cursor[i].at = "closed"
SampleIsFinal ==
  ~Called => \A i, j \in Simulations :
    FurtherBack(i, j) /\ Finished(i) /\ Finished(j) /\ set[j].inf = set[j].sup =>
       set[i] = set[j]

----------------------------------------------------------------------------
(* The inductive invariant. *)

Boxes == [inf : Points, sup : Points]
Codes == {"NONE", "RUNNING", "LOADED", "STORED", "END_DATA", "END_HISTORY",
          "DATA_STORE_ERROR", "STORE_INVALID_EVENT", "ABORTED"}

LogTyped == log \in Seq([request : Requests \cup {Unlimited}, events : Seq(Events)])

\* Only an open iterator is somewhere, and no further than its segment.
CursorTyped ==
  /\ cursor \in [Simulations -> [at : {"unmade", "open", "closed"}, seg : Nat, off : Nat]]
  /\ \A i \in Simulations :
       IF cursor[i].at = "open"
       THEN cursor[i].seg \in 1..Len(log) /\ cursor[i].off <= Len(log[cursor[i].seg].events)
       ELSE cursor[i].seg = 0 /\ cursor[i].off = 0

FromTyped ==
  /\ from \in [Simulations -> [seg : Nat, set : Boxes]]
  /\ \A i \in Simulations :
       Started(i) => from[i].seg \in 1..Len(log) /\ cursor[i].seg <= from[i].seg

\* The program looks at the result of a call before it does anything else: no
\* call has a result before it is made, and a stored event is still the Event.
CallTyped ==
  /\ call \in [op : {"none", "load", "get", "store"}, it : Simulations,
               ev : Events \cup {NoEvent}, code : Codes]
  /\ Called => Started(call.it)
  /\ ~Called => call.code = "NONE"
  /\ call.op = "store" => call.ev = event /\ call.code # "LOADED"
  /\ call.code = "STORED" => call.op = "store"
  /\ call.code \in {"LOADED", "STORED"} => call.ev \in Events

SetTyped == event \in Events \cup {NoEvent} /\ set \in [Simulations -> Boxes]

\* A segment never holds more events than were asked for, and one that an
\* iterator has left holds them all: nothing will be stored there any more.
SegmentsFit ==
  \A s \in DOMAIN log : log[s].request # Unlimited => Len(log[s].events) <= log[s].request
PassedComplete ==
  \A i \in Simulations : Started(i) =>
    \A s \in (cursor[i].seg + 1)..from[i].seg :
      log[s].request # Unlimited /\ Len(log[s].events) >= log[s].request

\* Between the call that passes an event and the program that applies it, the
\* set is one event late.
Upcoming(i) == IF i = call.it /\ call.code \in {"LOADED", "STORED"}
               THEN ApplySet(set[i], call.ev) ELSE set[i]
SetLags ==
  \A i \in Simulations : Started(i) => Upcoming(i) = FoldLeft(ApplySet, from[i].set, Past(i))

IInv ==
  /\ LogTyped /\ CursorTyped /\ FromTyped /\ CallTyped /\ SetTyped
  /\ SegmentsFit /\ PassedComplete /\ SetLags
=============================================================================
