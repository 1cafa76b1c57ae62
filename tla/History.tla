------------------------------- MODULE History -------------------------------
(***************************************************************************)
(* The events history (history.cpp, history.h, historyStream*.h): a doubly *)
(* linked list of memory chunks, and iterators that read events from it    *)
(* and write events at its end.  The program has one thread, so one call   *)
(* runs at a time; a call is a sequence of steps, one per turn of the      *)
(* loops of loadNextEvent, readyToStore and storeNextEvent, and the calls  *)
(* of all the iterators and of backward() follow one another in any order. *)
(* A failed assertion stops the program: call.code = "ABORTED".            *)
(***************************************************************************)
EXTENDS Naturals, Sequences

CONSTANTS Iterators,      \* the HistoryIterator objects of the program
          Chunks,         \* the addresses of HistoryChunk objects
          Null,           \* nullptr
          Unmade,         \* curChunk of an iterator that does not exist yet
          Events,         \* the contents an Event object can have
          None,           \* no event
          Body,           \* [Events -> bytes written after the size header]
          Invalid,        \* the events whose valid() is false
          StoreFails,     \* those whose EventType::store reports an error
          LoadFails,      \* those whose EventType::load reports an error
          BufSizes,       \* what allocChunkBuffer may put in *size
          Requests,       \* the arguments of backward()
          UINT32_MAX,     \* the largest uint32_t: "no bound"
          OBJECTSIZE_MAX  \* the largest objectsize_t

ASSUME EventsAssumption ==
  /\ None \notin Events
  /\ Body \in [Events -> Nat \ {0}]
  /\ Invalid \subseteq Events /\ StoreFails \subseteq Events /\ LoadFails \subseteq Events
ASSUME AddressAssumption ==
  /\ Null \notin Chunks /\ Unmade \notin Chunks /\ Null # Unmade
ASSUME SizesAssumption ==
  /\ UINT32_MAX \in Nat /\ OBJECTSIZE_MAX \in Nat
  /\ BufSizes # {} /\ BufSizes \subseteq 1..(UINT32_MAX - 1)
  /\ Requests \subseteq 0..UINT32_MAX

VARIABLES
  chunk,       \* [allocated addresses -> HistoryChunk]
  firstChunk,  \* History::firstChunk
  iter,        \* [Iterators -> HistoryIterator]
  call,        \* the call being executed, or the last one, and its result
  (* Auxiliary: what the chunks stand for.  No action reads these to decide *)
  (* anything; the properties and the refinement do.                       *)
  place,       \* [allocated -> [seg, before, offs]]: segment, events of that
               \* segment in earlier chunks, offset of each event boundary
  log          \* sequence of [request, events], in order of creation

code_vars == <<chunk, firstChunk, iter, call>>
vars == <<chunk, firstChunk, iter, call, place, log>>

----------------------------------------------------------------------------
(* Bytes.  The size header is a uint16_t aligned on 2; what follows it (the *)
(* code of the event type, the parameters) is written byte by byte.         *)

HeaderEnd(p) == p + (p % 2) + 2

\* First free byte after event e written at p.  An invalid event is refused
\* after its header is written, before its content is.
ContentEnd(e, p) == HeaderEnd(p) + (IF e \in Invalid THEN 0 ELSE Body[e])

\* The objects of a buffer that keep all their bytes when [p, q) is written.
Intact(mem, p, q) == {o \in DOMAIN mem : o + mem[o].size <= p \/ o >= q}

Overwrite(mem, p, q) == [o \in Intact(mem, p, q) |-> mem[o]]

PutObject(mem, p, e, q) ==
  [o \in Intact(mem, p, q) \cup {p} |->
     IF o = p THEN [ev |-> e, size |-> q - p] ELSE mem[o]]

----------------------------------------------------------------------------
(* Chunks. *)

Fresh == CHOOSE c \in Chunks : c \notin DOMAIN chunk
Room == \E c \in Chunks : c \notin DOMAIN chunk   \* bound: see Invoke

EmptyMap == [x \in {} |-> x]

HistoryChunk(capacity, prev, next, size) ==
  [bufsize |-> size, cap |-> capacity, nb |-> 0, next |-> next, prev |-> prev,
   mem |-> EmptyMap]

Link_OneWay(cs, n, new) == [c \in DOMAIN cs \cup {n} |-> IF c = n THEN new ELSE cs[c]]
\* cs with the new chunk n, and with n as the previous chunk of its successor.
Link(cs, n, new) ==
  [c \in DOMAIN cs \cup {n} |->
     IF c = n THEN new
     ELSE IF c = new.next THEN [cs[c] EXCEPT !.prev = n] ELSE cs[c]]

\* Capacity given to the chunk allocated after one of capacity cap that
\* holds nb events.
RemainingCapacity_Whole(cap, nb) == cap
RemainingCapacity_Swapped(cap, nb) == IF cap = UINT32_MAX THEN UINT32_MAX ELSE nb - cap
RemainingCapacity(cap, nb) == IF cap = UINT32_MAX THEN UINT32_MAX ELSE cap - nb

\* The old chunk, once n follows it.
Closed_StillOpen(c, n) == [c EXCEPT !.next = n]
Closed(c, n) == [c EXCEPT !.cap = c.nb, !.next = n]

StartOfChunk(c) == [cur |-> c, position |-> 0, eventNumber |-> 0]

\* Auxiliary: a new chunk of segment s that starts after b of its events.
Placed(n, s, b) ==
  [c \in DOMAIN place \cup {n} |->
     IF c = n THEN [seg |-> s, before |-> b, offs |-> <<0>>] ELSE place[c]]

----------------------------------------------------------------------------
Idle == call.code \notin {"RUNNING", "ABORTED"}
Running == call.code = "RUNNING"
Return(code) == call' = [call EXCEPT !.code = code]

Init ==
  /\ chunk = EmptyMap
  /\ firstChunk = Null
  /\ iter = [i \in Iterators |-> StartOfChunk(Unmade)]
  /\ call \in [op : {"none"}, it : Iterators, ev : {None}, code : {"NONE"}, fresh : {FALSE}]
  /\ place = EmptyMap
  /\ log = << >>

\* A chunk in front of all the others, for a segment of n events.
PushFront(n, size) ==
  /\ chunk' = Link(chunk, Fresh, HistoryChunk(n, Null, firstChunk, size))
  /\ firstChunk' = Fresh
  /\ log' = Append(log, [request |-> n, events |-> << >>])
  /\ place' = Placed(Fresh, Len(log) + 1, 0)

\* The program keeps the iterator it gets in i, and drops the one it had there.
Iterator(i) ==
  /\ Idle
  /\ \/ /\ firstChunk = Null /\ Room
        /\ \E size \in BufSizes : PushFront(UINT32_MAX, size)
     \/ /\ firstChunk # Null
        /\ UNCHANGED <<chunk, firstChunk, place, log>>
  /\ iter' = [iter EXCEPT ![i] = StartOfChunk(firstChunk')]
  /\ UNCHANGED call

Backward(n) ==
  /\ Idle
  /\ IF n = 0
     THEN UNCHANGED <<chunk, firstChunk, place, log>>
     ELSE Room /\ \E size \in BufSizes : PushFront(n, size)
  /\ UNCHANGED <<iter, call>>

\* Bound: a store begins only while an address is left for the one chunk it
\* may allocate.
Invoke(op, i, e) ==
  /\ Idle
  /\ iter[i].cur # Unmade
  /\ op = "store" => Room
  /\ call' = [op |-> op, it |-> i, ev |-> e, code |-> "RUNNING", fresh |-> FALSE]
  /\ UNCHANGED <<chunk, firstChunk, iter, place, log>>

----------------------------------------------------------------------------
(* The steps of a running call. *)

Me == iter[call.it]
Cur == chunk[Me.cur]
Reading == call.op \in {"load", "get"}
OnChunk == Running /\ Me.cur # Null
PastCapacity_OneMore == Me.eventNumber > Cur.cap
PastCapacity == Me.eventNumber >= Cur.cap
InChunk == OnChunk /\ ~PastCapacity

\* assert(curChunk != nullptr)
Abort ==
  /\ Running /\ Me.cur = Null
  /\ Return("ABORTED")
  /\ UNCHANGED <<chunk, firstChunk, iter, place, log>>

NextChunk_KeepsPosition ==
  /\ OnChunk /\ PastCapacity /\ Cur.next # Null
  /\ iter' = [iter EXCEPT ![call.it].cur = Cur.next, ![call.it].eventNumber = 0]
  /\ UNCHANGED <<chunk, firstChunk, call, place, log>>
NextChunk_Same ==
  /\ OnChunk /\ PastCapacity /\ Cur.next # Null
  /\ iter' = [iter EXCEPT ![call.it] = StartOfChunk(Me.cur)]
  /\ UNCHANGED <<chunk, firstChunk, call, place, log>>
\* setNewChunk(curChunk->getNextChunk()), on a chunk that has a successor ...
NextChunk ==
  /\ OnChunk /\ PastCapacity /\ Cur.next # Null
  /\ iter' = [iter EXCEPT ![call.it] = StartOfChunk(Cur.next)]
  /\ UNCHANGED <<chunk, firstChunk, call, place, log>>

\* ... and on the last one: the other fields of the iterator keep their values.
\* storeNextEvent reports any refusal of readyToStore as a store error.
EndOfHistory ==
  /\ OnChunk /\ PastCapacity /\ Cur.next = Null
  /\ iter' = [iter EXCEPT ![call.it].cur = Null]
  /\ Return(IF Reading THEN "END_HISTORY" ELSE "DATA_STORE_ERROR")
  /\ UNCHANGED <<chunk, firstChunk, place, log>>

\* generateNextEvent ends without a return statement once the iterator is
\* ready to store: the compiler may let it return what readyToStore returned,
\* take the other branch as the only possible one, or trap.
GenerateOutcomes == {"END_DATA", "DATA_STORE_ERROR", "ABORTED"}

EndOfData ==
  /\ InChunk /\ Reading /\ Me.eventNumber >= Cur.nb
  /\ \/ call.op = "load" /\ Return("END_DATA")
     \/ call.op = "get" /\ \E code \in GenerateOutcomes : Return(code)
  /\ UNCHANGED <<chunk, firstChunk, iter, place, log>>

\* What HistoryIStream and loadEventContent make of the bytes at p: an object
\* whose header was never written is garbage.
ObjectAt(mem, p) == IF p \in DOMAIN mem THEN mem[p] ELSE [ev |-> None, size |-> 0]
LoadCode(obj) == IF obj.ev = None THEN "GARBAGE"
                 ELSE IF obj.ev \in LoadFails THEN "DATA_LOAD_ERROR" ELSE "LOADED"

Advance_NotMoved(it, n) == [it EXCEPT !.eventNumber = @ + 1]
Advance(it, n) ==
  [cur |-> it.cur, position |-> it.position + n, eventNumber |-> it.eventNumber + 1]

ReadEvent ==
  /\ InChunk /\ Reading /\ Me.eventNumber < Cur.nb
  /\ LET obj == ObjectAt(Cur.mem, Me.position)
         code == LoadCode(obj)
     IN  IF code = "LOADED"
         THEN /\ call' = [call EXCEPT !.ev = obj.ev, !.code = code]
              /\ iter' = [iter EXCEPT ![call.it] = Advance(Me, obj.size)]
         ELSE Return(code) /\ UNCHANGED iter
  /\ UNCHANGED <<chunk, firstChunk, place, log>>

NotAtEnd ==
  /\ InChunk /\ ~Reading /\ Me.eventNumber # Cur.nb
  /\ Return("DATA_STORE_ERROR")
  /\ UNCHANGED <<chunk, firstChunk, iter, place, log>>

Storing_Anywhere == InChunk /\ ~Reading
Storing == InChunk /\ ~Reading /\ Me.eventNumber = Cur.nb
End == ContentEnd(call.ev, Me.position)

StoreCode_NotChecked(e, size) ==
  IF e \in StoreFails THEN "DATA_STORE_ERROR"
  ELSE IF size > OBJECTSIZE_MAX THEN "ABORTED" ELSE "STORED"
\* The assertion is the one of HistoryOStream::finalize.
StoreCode(e, size) ==
  IF e \in Invalid THEN "STORE_INVALID_EVENT"
  ELSE IF e \in StoreFails THEN "DATA_STORE_ERROR"
  ELSE IF size > OBJECTSIZE_MAX THEN "ABORTED" ELSE "STORED"

Grown(c) == [c EXCEPT !.nb = c.nb + 1, !.mem = PutObject(c.mem, Me.position, call.ev, End)]

WriteEvent ==
  /\ Storing /\ End <= Cur.bufsize
  /\ LET code == StoreCode(call.ev, End - Me.position)
     IN  /\ Return(code)
         /\ IF code = "STORED"
            THEN /\ chunk' = [chunk EXCEPT ![Me.cur] = Grown(Cur)]
                 /\ iter' = [iter EXCEPT ![call.it] = Advance(Me, End - Me.position)]
                 /\ place' = [place EXCEPT ![Me.cur].offs = Append(@, End)]
                 /\ log' = [log EXCEPT ![place[Me.cur].seg].events = Append(@, call.ev)]
            ELSE /\ chunk' = [chunk EXCEPT ![Me.cur].mem = Overwrite(@, Me.position, End)]
                 /\ UNCHANGED <<iter, place, log>>
  /\ UNCHANGED firstChunk

\* HistoryOutOfBound, thrown after an unknown part of the object is written.
OutOfBound == Storing /\ End > Cur.bufsize
Torn(c) == [c EXCEPT !.mem = Overwrite(@, Me.position, c.bufsize)]

\* allocateNextChunk: the new chunk takes what is left of the capacity.
Split ==
  /\ OutOfBound /\ ~call.fresh /\ Room   \* always, here: see Invoke
  /\ \E size \in BufSizes :
       LET full == Closed(Torn(Cur), Fresh)
           new == HistoryChunk(RemainingCapacity(Cur.cap, Cur.nb), Me.cur, Cur.next, size)
       IN  chunk' = Link([chunk EXCEPT ![Me.cur] = full], Fresh, new)
  /\ iter' = [iter EXCEPT ![call.it] = StartOfChunk(Fresh)]
  /\ call' = [call EXCEPT !.fresh = TRUE]
  /\ place' = Placed(Fresh, place[Me.cur].seg, place[Me.cur].before + Cur.nb)
  /\ UNCHANGED <<firstChunk, log>>

TooBig ==
  /\ OutOfBound /\ call.fresh
  /\ chunk' = [chunk EXCEPT ![Me.cur] = Torn(Cur)]
  /\ Return("OBJECT_TOO_BIG")
  /\ UNCHANGED <<firstChunk, iter, place, log>>

Step == \/ Abort \/ NextChunk \/ EndOfHistory \/ EndOfData
        \/ ReadEvent \/ NotAtEnd \/ WriteEvent \/ Split \/ TooBig

Next ==
  \/ \E i \in Iterators : Iterator(i)
  \/ \E n \in Requests : Backward(n)
  \/ \E i \in Iterators :
        \/ \E op \in {"load", "get"} : Invoke(op, i, None)
        \/ \E e \in Events : Invoke("store", i, e)
  \/ Step

\* A running call executes its next statement.
Spec == Init /\ [][Next]_vars /\ WF_vars(Step)
=============================================================================
