------------------------------ MODULE SegmentedLog ------------------------------
(***************************************************************************)
(* What a History promises its user, "the chunk notion" being "transparent *)
(* to the user" (history.h:25): no chunks, no buffers, no byte positions.  *)
(* A history is a list of segments.  The first iterator() of an empty      *)
(* history makes an unlimited segment, every backward(n) puts a segment of *)
(* n events before all the others.  log[s] is the s-th segment made, so    *)
(* the one that follows it in simulated time is log[s-1].  An iterator is  *)
(* a cursor that reads and appends, and crosses to the next segment only   *)
(* once its own is complete.                                               *)
(***************************************************************************)
EXTENDS Naturals, Sequences

CONSTANTS Iterators,      \* the HistoryIterator objects of the program
          Events,         \* the contents an Event object can have
          Invalid,        \* those whose valid() is false
          StoreFails,     \* those whose EventType::store reports an error
          LoadFails,      \* those whose EventType::load reports an error
          MayBeTooBig,    \* those that some empty chunk cannot hold
          MayOverflow,    \* those that may not fit the 16-bit object size
          Requests,       \* the arguments of backward()
          Unlimited,      \* the request of a segment without a bound
          None            \* no event

VARIABLES log,      \* sequence of [request, events], in order of creation
          cursor,   \* [Iterators -> [at, seg, off]]
          call      \* the call being executed, or the last one, and its result

vars == <<log, cursor, call>>

Idle == call.code \notin {"RUNNING", "ABORTED"}
Running == call.code = "RUNNING"

Init ==
  /\ log = << >>
  /\ cursor = [i \in Iterators |-> [at |-> "unmade", seg |-> 0, off |-> 0]]
  /\ call \in [op : {"none"}, it : Iterators, ev : {None}, code : {"NONE"}]

NewSegment(n) == log' = Append(log, [request |-> n, events |-> << >>])

Iterator(i) ==
  /\ Idle
  /\ IF log = << >> THEN NewSegment(Unlimited) ELSE UNCHANGED log
  /\ cursor' = [cursor EXCEPT ![i] = [at |-> "open", seg |-> Len(log'), off |-> 0]]
  /\ UNCHANGED call

Backward(n) ==
  /\ Idle
  /\ NewSegment(n)
  /\ UNCHANGED <<cursor, call>>

Invoke(op, i, e) ==
  /\ Idle
  /\ cursor[i].at # "unmade"
  /\ call' = [op |-> op, it |-> i, ev |-> e, code |-> "RUNNING"]
  /\ UNCHANGED <<log, cursor>>

----------------------------------------------------------------------------
Me == cursor[call.it]
Segment == log[Me.seg]
Open == Running /\ Me.at = "open"
Complete == Segment.request # Unlimited /\ Me.off >= Segment.request
AtEnd == Me.off = Len(Segment.events)
Reading == call.op \in {"load", "get"}

Return(code) == call' = [call EXCEPT !.code = code]
Advance == cursor' = [cursor EXCEPT ![call.it].off = @ + 1]

\* A closed iterator must not be used any more.
Abort ==
  /\ Running /\ Me.at = "closed"
  /\ Return("ABORTED")
  /\ UNCHANGED <<log, cursor>>

Cross ==
  /\ Open /\ Complete /\ Me.seg > 1
  /\ cursor' = [cursor EXCEPT ![call.it] = [at |-> "open", seg |-> @.seg - 1, off |-> 0]]
  /\ UNCHANGED <<log, call>>

EndOfHistory ==
  /\ Open /\ Complete /\ Me.seg = 1
  /\ cursor' = [cursor EXCEPT ![call.it] = [at |-> "closed", seg |-> 0, off |-> 0]]
  /\ Return(IF Reading THEN "END_HISTORY" ELSE "DATA_STORE_ERROR")
  /\ UNCHANGED log

EndOfData ==
  /\ Open /\ ~Complete /\ AtEnd /\ Reading
  /\ \/ call.op = "load" /\ Return("END_DATA")
     \/ call.op = "get" /\ \E code \in {"END_DATA", "DATA_STORE_ERROR", "ABORTED"} : Return(code)
  /\ UNCHANGED <<log, cursor>>

Read ==
  /\ Open /\ ~Complete /\ ~AtEnd /\ Reading
  /\ LET e == Segment.events[Me.off + 1]
     IN  IF e \in LoadFails
         THEN Return("DATA_LOAD_ERROR") /\ UNCHANGED cursor
         ELSE call' = [call EXCEPT !.ev = e, !.code = "LOADED"] /\ Advance
  /\ UNCHANGED log

NotAtEnd ==
  /\ Open /\ ~Complete /\ ~AtEnd /\ ~Reading
  /\ Return("DATA_STORE_ERROR")
  /\ UNCHANGED <<log, cursor>>

Refusals(e) ==
  (IF e \in Invalid THEN {"STORE_INVALID_EVENT"} ELSE {})
    \cup (IF e \in StoreFails THEN {"DATA_STORE_ERROR"} ELSE {})
    \cup (IF e \in MayBeTooBig THEN {"OBJECT_TOO_BIG"} ELSE {})
    \cup (IF e \in MayOverflow THEN {"ABORTED"} ELSE {})

Refuse ==
  /\ Open /\ ~Complete /\ AtEnd /\ ~Reading
  /\ \E code \in Refusals(call.ev) : Return(code)
  /\ UNCHANGED <<log, cursor>>

Append1 ==
  /\ Open /\ ~Complete /\ AtEnd /\ ~Reading
  /\ call.ev \notin Invalid \cup StoreFails
  /\ log' = [log EXCEPT ![Me.seg].events = Append(@, call.ev)]
  /\ Advance
  /\ Return("STORED")

Step == \/ Abort \/ Cross \/ EndOfHistory \/ EndOfData
        \/ Read \/ NotAtEnd \/ Refuse \/ Append1

Next ==
  \/ \E i \in Iterators : Iterator(i)
  \/ \E n \in Requests : Backward(n)
  \/ \E i \in Iterators :
        \/ \E op \in {"load", "get"} : Invoke(op, i, None)
        \/ \E e \in Events : Invoke("store", i, e)
  \/ Step

Spec == Init /\ [][Next]_vars /\ WF_vars(Step)
=============================================================================
