------------------------------ MODULE StateSpace ------------------------------
(***************************************************************************)
(* The state space and the transitions that move sets of its points        *)
(* (queue.cpp, state.h, transition.cpp, libtransition).  A simulation      *)
(* applies one event after the other to a set: one point, or the           *)
(* hyperrectangle between two points.  A perfect sampling run starts from  *)
(* all the points of a hyperrectangle and only follows two of them: this   *)
(* module also follows, in "inside", all those that it stands for.         *)
(***************************************************************************)
EXTENDS Transitions

VARIABLES shape,   \* the class of Set::_realset: "Point" or "HyperRectangle"
          inf,     \* HyperRectangle::inf_, or the point
          sup,     \* HyperRectangle::sup_, or the point
          event,   \* the Event object: the last event applied
          inside   \* Auxiliary: where each point of the initial set would be
vars == <<shape, inf, sup, event, inside>>

----------------------------------------------------------------------------
(* Sets of points. *)

Init ==
  /\ shape \in {"Point", "HyperRectangle"}
  /\ inf \in Points /\ sup \in Points /\ Leq(inf, sup)
  /\ shape = "Point" => inf = sup
  /\ event = NoEvent
  /\ inside = Box(inf, sup)

ApplyPoint(ev) ==
  /\ shape = "Point"
  /\ inf' = Apply(inf, ev) /\ sup' = inf'

ApplyHyperRectangle_InfOnly(ev) ==
  /\ shape = "HyperRectangle"
  /\ inf' = Apply(inf, ev) /\ sup' = sup
\* All transitions are taken to be monotone: none overrides this method.
ApplyHyperRectangle(ev) ==
  /\ shape = "HyperRectangle"
  /\ inf' = Apply(inf, ev) /\ sup' = Apply(sup, ev)

ApplySet(ev) ==
  /\ ApplyPoint(ev) \/ ApplyHyperRectangle(ev)
  /\ event' = ev
  /\ inside' = {Apply(x, ev) : x \in inside}
  /\ UNCHANGED shape

Next == \E ev \in Events : ApplySet(ev)

Spec == Init /\ [][Next]_vars
=============================================================================
