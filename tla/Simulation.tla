------------------------------ MODULE Simulation ------------------------------
(***************************************************************************)
(* Simulations on one history: what a program does with the library, as    *)
(* test_simple-forward.cpp does it.  Each simulation has an iterator and a *)
(* set of points; the program has one Event object, "only one that will    *)
(* change all the time".  It is generated and stored, or loaded, and       *)
(* applied to the set.  backward() extends the history into the past       *)
(* between any two calls, and simulations restart from there.              *)
(*                                                                         *)
(* The history is the one its users see, SegmentedLog, which History       *)
(* implements; the transitions are those of the library.  A Point is the   *)
(* set whose two corners are the same.                                     *)
(***************************************************************************)
EXTENDS Transitions, SequencesExt

CONSTANTS Simulations,   \* each with its HistoryIterator and its Set
          Starts,        \* the sets they may start from, as [inf, sup]
          Requests,      \* the arguments of backward()
          Unlimited,     \* the segment of the first iterator()
          MaxSegments,   \* bound on the calls of backward()
          MaxEvents      \* bound on the events stored

ASSUME StartsAssumption ==
  Starts \subseteq [inf : Points, sup : Points] /\ \A s \in Starts : Leq(s.inf, s.sup)

\* backward() takes a uint32_t and does nothing for 0.
ASSUME RequestsAssumption == Requests \subseteq Nat \ {0}

VARIABLES log, cursor, call,   \* the history and its iterators (SegmentedLog)
          event,               \* the Event object
          set,                 \* [Simulations -> the Set, as [inf, sup]]
          from                 \* Auxiliary: [Simulations -> [seg, set]] at their start
vars == <<log, cursor, call, event, set, from>>

H == INSTANCE SegmentedLog
       WITH Iterators <- Simulations, Events <- Events \cup {NoEvent}, None <- NoEvent,
            Invalid <- {NoEvent}, StoreFails <- {}, LoadFails <- {},
            MayBeTooBig <- {}, MayOverflow <- {}

Init ==
  /\ H!Init
  /\ event = NoEvent
  /\ set \in [Simulations -> Starts]
  /\ from = [i \in Simulations |-> [seg |-> 0, set |-> set[i]]]

----------------------------------------------------------------------------
\* The program has one thread: it looks at the result of a call before the next.
Called == call.op # "none"

Start(i, s) ==
  /\ ~Called
  /\ H!Iterator(i)
  /\ set' = [set EXCEPT ![i] = s]
  /\ from' = [from EXCEPT ![i] = [seg |-> Len(log'), set |-> s]]
  /\ UNCHANGED event

Backward(n) ==
  /\ ~Called /\ Len(log) < MaxSegments
  /\ H!Backward(n)
  /\ UNCHANGED <<event, set, from>>

Generate(ev) ==
  /\ ~Called
  /\ event' = ev
  /\ UNCHANGED <<log, cursor, call, set, from>>

Load(i) ==
  /\ ~Called
  /\ \E op \in {"load", "get"} : H!Invoke(op, i, NoEvent)
  /\ UNCHANGED <<event, set, from>>

NbStored == FoldLeft(LAMBDA n, segment : n + Len(segment.events), 0, log)
Store(i) ==
  /\ ~Called /\ NbStored < MaxEvents
  /\ H!Invoke("store", i, event)
  /\ UNCHANGED <<event, set, from>>

HistoryStep == H!Step /\ UNCHANGED <<event, set, from>>

ApplySet_SupStays(s, ev) == [s EXCEPT !.inf = Apply(@, ev)]
ApplySet(s, ev) == [inf |-> Apply(s.inf, ev), sup |-> Apply(s.sup, ev)]

Proceed_CodeIgnored ==
  /\ Called /\ H!Idle
  /\ event' = IF call.code = "LOADED" THEN call.ev ELSE event
  /\ set' = IF event' = NoEvent THEN set ELSE [set EXCEPT ![call.it] = ApplySet(@, event')]
  /\ call' = [call EXCEPT !.op = "none", !.ev = NoEvent, !.code = "NONE"]
  /\ UNCHANGED <<log, cursor, from>>
Proceed_StoredLater ==
  /\ Called /\ H!Idle
  /\ event' = IF call.code = "LOADED" THEN call.ev ELSE event
  /\ set' = IF call.code = "LOADED" THEN [set EXCEPT ![call.it] = ApplySet(@, event')] ELSE set
  /\ call' = [call EXCEPT !.op = "none", !.ev = NoEvent, !.code = "NONE"]
  /\ UNCHANGED <<log, cursor, from>>
\* The loop goes on when an event was loaded or stored; any other code ends it.
Proceed ==
  /\ Called /\ H!Idle
  /\ event' = IF call.code = "LOADED" THEN call.ev ELSE event
  /\ set' = IF call.code \in {"LOADED", "STORED"}
            THEN [set EXCEPT ![call.it] = ApplySet(@, event')] ELSE set
  /\ call' = [call EXCEPT !.op = "none", !.ev = NoEvent, !.code = "NONE"]
  /\ UNCHANGED <<log, cursor, from>>

Next ==
  \/ \E i \in Simulations : Load(i) \/ Store(i) \/ \E s \in Starts : Start(i, s)
  \/ \E n \in Requests : Backward(n)
  \/ \E ev \in Events : Generate(ev)
  \/ HistoryStep
  \/ Proceed

Spec == Init /\ [][Next]_vars
=============================================================================
