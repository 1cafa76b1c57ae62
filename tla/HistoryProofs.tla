---------------------------- MODULE HistoryProofs ----------------------------
(***************************************************************************)
(* Proofs of the properties of HistoryProps, for any number of iterators,  *)
(* chunks, events, and any sizes.                                          *)
(***************************************************************************)
EXTENDS HistoryProps, TLAPS

\* The end of the bytes of an event is after their beginning.
LEMMA ContentEndIsAfter ==
  ASSUME NEW e \in Events, NEW p \in Nat
  PROVE  ContentEnd(e, p) \in Nat /\ ContentEnd(e, p) >= p + 2
  <1>1. p % 2 \in 0..1
    OBVIOUS
  <1>2. Body[e] \in Nat
    BY EventsAssumption
  <1> QED BY <1>1, <1>2 DEF ContentEnd, HeaderEnd

\* Writing keeps the objects of a buffer well typed.
LEMMA OverwriteType ==
  ASSUME NEW mem, IsMem(mem), NEW p \in Nat, NEW q \in Nat
  PROVE  IsMem(Overwrite(mem, p, q))
  BY DEF IsMem, Overwrite, Intact

LEMMA PutObjectType ==
  ASSUME NEW mem, IsMem(mem), NEW p \in Nat, NEW q \in Nat, q >= p, NEW e \in Events
  PROVE  IsMem(PutObject(mem, p, e, q))
  BY DEF IsMem, PutObject, Intact, Object

\* Sequences.
LEMMA AppendFacts ==
  ASSUME NEW S, NEW q \in Seq(S), NEW x \in S
  PROVE  /\ Append(q, x) \in Seq(S) /\ Len(q) \in Nat
         /\ Len(Append(q, x)) = Len(q) + 1
         /\ \A k \in 1..Len(q) : Append(q, x)[k] = q[k]
         /\ Append(q, x)[Len(q) + 1] = x
  OBVIOUS

LEMMA UpdateFacts ==
  ASSUME NEW S, NEW q \in Seq(S), NEW i \in 1..Len(q), NEW x \in S
  PROVE  /\ [q EXCEPT ![i] = x] \in Seq(S)
         /\ Len([q EXCEPT ![i] = x]) = Len(q)
         /\ [q EXCEPT ![i] = x][i] = x
         /\ \A k \in 1..Len(q) : k # i => [q EXCEPT ![i] = x][k] = q[k]
  OBVIOUS

LEMMA BufSizesAreNat == BufSizes \subseteq Nat
  BY SizesAssumption

LEMMA FreshIsFree == Room => Fresh \in Chunks /\ Fresh \notin DOMAIN chunk
  BY DEF Room, Fresh

----------------------------------------------------------------------------
(* The steps that leave the chunks alone. *)

SameHeap == UNCHANGED <<chunk, firstChunk, place, log>>

\* What only speaks of the chunks is preserved.
LEMMA SameHeapKeeps ==
  ASSUME IInv, SameHeap
  PROVE  ChunksHoldLog' /\ FullBeforeLast' /\ ChunkCapacity' /\ WellLinked'
  BY DEF IInv, SameHeap, ChunksHoldLog, Holds, FullBeforeLast, ChunkCapacity, WellLinked,
         LastOfSegment

\* TypeOK and OnBoundary are preserved when the iterators and the call are.
LEMMA SameHeapType ==
  ASSUME TypeOK, SameHeap,
         iter' \in [Iterators -> IteratorStates], call' \in Calls,
         (call.op = "store" => call.ev \in Events)', 
         (Running => call.op # "none" /\ iter[call.it].cur # Unmade)'
  PROVE  TypeOK'
  BY DEF TypeOK, SameHeap, IsChunk, Places, Segments, IteratorStates

\* A call that returns, leaving the iterators where they are.
LEMMA ReturnKeeps ==
  ASSUME IInv, SameHeap, UNCHANGED iter, NEW code \in Codes \ {"RUNNING"}, Return(code)
  PROVE  IInv'
  <1>1. TypeOK'
    BY SameHeapType DEF IInv, TypeOK, Return, Running, Calls
  <1>2. OnBoundary'
    BY DEF IInv, SameHeap, OnBoundary
  <1> QED BY <1>1, <1>2, SameHeapKeeps DEF IInv

LEMMA InvokeKeeps ==
  ASSUME IInv, NEW i \in Iterators, NEW op \in {"load", "get", "store"},
         NEW e \in Events \cup {None}, op = "store" => e \in Events, Invoke(op, i, e)
  PROVE  IInv'
  <1>0. SameHeap
    BY DEF Invoke, SameHeap
  <1>1. TypeOK'
    BY <1>0, SameHeapType DEF IInv, TypeOK, Invoke, Running, Calls, Codes
  <1>2. OnBoundary'
    BY <1>0 DEF IInv, SameHeap, OnBoundary, Invoke
  <1> QED BY <1>0, <1>1, <1>2, SameHeapKeeps DEF IInv

\* An iterator at the beginning of an allocated chunk is on its first event.
LEMMA StartOfChunkOnEvent ==
  ASSUME IInv, NEW c \in DOMAIN chunk
  PROVE  /\ StartOfChunk(c) \in IteratorStates
         /\ StartOfChunk(c).cur = c
         /\ StartOfChunk(c).eventNumber = 0 /\ StartOfChunk(c).eventNumber <= chunk[c].nb
         /\ StartOfChunk(c).position = place[c].offs[1]
  BY DEF IInv, TypeOK, IsChunk, ChunksHoldLog, StartOfChunk, IteratorStates

LEMMA NextChunkKeeps == ASSUME IInv, NextChunk PROVE IInv'
  <1>0. SameHeap
    BY DEF NextChunk, SameHeap
  <1>1. Me.cur \in DOMAIN chunk /\ Cur.next \in DOMAIN chunk
    BY DEF IInv, TypeOK, NextChunk, OnChunk, IteratorStates, IsChunk, Me, Cur, Calls
  <1>2. iter' \in [Iterators -> IteratorStates]
    BY <1>1, StartOfChunkOnEvent DEF IInv, TypeOK, NextChunk
  <1>3. TypeOK'
    BY <1>0, <1>1, <1>2, SameHeapType, AddressAssumption
    DEF IInv, TypeOK, NextChunk, Running, StartOfChunk, Calls
  <1>4. OnBoundary'
    BY <1>0, <1>1, StartOfChunkOnEvent DEF IInv, TypeOK, SameHeap, OnBoundary, NextChunk
  <1> QED BY <1>0, <1>3, <1>4, SameHeapKeeps DEF IInv

LEMMA EndOfHistoryKeeps == ASSUME IInv, EndOfHistory PROVE IInv'
  <1>0. SameHeap
    BY DEF EndOfHistory, SameHeap
  <1>1. iter' \in [Iterators -> IteratorStates]
    <2>1. call.it \in Iterators /\ iter[call.it] \in IteratorStates
      BY DEF IInv, TypeOK, Calls
    <2>2. [iter[call.it] EXCEPT !.cur = Null] \in IteratorStates
      BY <2>1 DEF IteratorStates
    <2>3. iter' = [iter EXCEPT ![call.it] = [iter[call.it] EXCEPT !.cur = Null]]
      BY DEF EndOfHistory
    <2> QED BY <2>1, <2>2, <2>3 DEF IInv, TypeOK
  <1>2. TypeOK'
    BY <1>0, <1>1, SameHeapType DEF IInv, TypeOK, EndOfHistory, Return, Running, Calls, Codes
  <1>3. OnBoundary'
    BY <1>0, AddressAssumption DEF IInv, TypeOK, SameHeap, OnBoundary, EndOfHistory
  <1> QED BY <1>0, <1>2, <1>3, SameHeapKeeps DEF IInv

\* The chunk and the iterator of a running call.
LEMMA RunningCall ==
  ASSUME IInv, OnChunk
  PROVE  /\ call.it \in Iterators /\ Me \in IteratorStates /\ Me.cur \in DOMAIN chunk
         /\ IsChunk(Cur) /\ Me.eventNumber <= Cur.nb
         /\ Me.position = place[Me.cur].offs[Me.eventNumber + 1]
         /\ call.op \in {"load", "get", "store"}
  BY DEF IInv, TypeOK, OnBoundary, OnChunk, Calls, Me, Cur, IteratorStates

LEMMA AdvanceMoves ==
  ASSUME NEW it \in IteratorStates, NEW n \in Nat
  PROVE  /\ Advance(it, n) \in IteratorStates
         /\ Advance(it, n).cur = it.cur
         /\ Advance(it, n).eventNumber = it.eventNumber + 1
         /\ Advance(it, n).position = it.position + n
  BY DEF Advance, IteratorStates

\* The object at the position of an iterator is the next event of its chunk.
LEMMA ReadsNextEvent ==
  ASSUME IInv, OnChunk, Me.eventNumber < Cur.nb
  PROVE  LET obj == ObjectAt(Cur.mem, Me.position)
             at == place[Me.cur]
         IN  /\ obj \in Object /\ obj.ev # None
             /\ obj.ev = log[at.seg].events[at.before + Me.eventNumber + 1]
             /\ Me.position + obj.size = at.offs[Me.eventNumber + 2]
  <1> DEFINE c == Me.cur
             j == Me.eventNumber + 1
             o == place[c].offs[j]
  <1>1. c \in DOMAIN chunk /\ j \in 1..chunk[c].nb /\ o = Me.position /\ IsChunk(chunk[c])
    BY RunningCall DEF Cur, IsChunk, IteratorStates
  <1>2. Holds(c, j) /\ Len(place[c].offs) = chunk[c].nb + 1
    BY <1>1 DEF IInv, ChunksHoldLog
  <1>3. place[c].offs[j] \in Nat /\ place[c].offs[j + 1] \in Nat /\ place[c].before \in Nat
    <2>1. place[c].offs \in Seq(Nat) /\ place[c].before \in Nat
      BY <1>1 DEF IInv, TypeOK, Places
    <2>2. j \in 1..Len(place[c].offs) /\ j + 1 \in 1..Len(place[c].offs)
      BY <1>1, <1>2 DEF IsChunk
    <2> HIDE DEF c, j
    <2> QED BY <2>1, <2>2
  <1>4. o \in DOMAIN Cur.mem /\ Cur.mem[o] \in Object
    BY <1>1, <1>2 DEF Holds, IsChunk, IsMem, Cur
  <1>5. j + 1 = Me.eventNumber + 2 /\ place[c].before + j = place[c].before + Me.eventNumber + 1
    BY <1>1, <1>3, RunningCall DEF IteratorStates
  <1>6. ObjectAt(Cur.mem, Me.position) = Cur.mem[o]
    BY <1>1, <1>4 DEF ObjectAt
  <1>7. /\ Cur.mem[o].ev = log[place[c].seg].events[place[c].before + j]
        /\ Cur.mem[o].size = place[c].offs[j + 1] - o
    BY <1>2 DEF Holds, Cur
  <1>8. Cur.mem[o].ev # None /\ o + Cur.mem[o].size = place[c].offs[j + 1]
    BY <1>3, <1>4, <1>7, EventsAssumption DEF Object
  <1> HIDE DEF c, j, o
  <1>9. /\ Cur.mem[o].ev = log[place[c].seg].events[place[c].before + Me.eventNumber + 1]
        /\ Me.position + Cur.mem[o].size = place[c].offs[Me.eventNumber + 2]
    BY <1>1, <1>5, <1>7, <1>8
  <1> QED BY <1>4, <1>6, <1>8, <1>9 DEF c

LEMMA ReadEventKeeps == ASSUME IInv, ReadEvent PROVE IInv'
  <1>0. SameHeap
    BY DEF ReadEvent, SameHeap
  <1> DEFINE obj == ObjectAt(Cur.mem, Me.position)
  <1>1. OnChunk /\ Me.eventNumber < Cur.nb
    BY DEF ReadEvent, InChunk
  <1>2. obj \in Object /\ obj.ev # None /\ Me.position + obj.size = place[Me.cur].offs[Me.eventNumber + 2]
    BY <1>1, ReadsNextEvent
  <1>3. CASE LoadCode(obj) = "LOADED"
    <2>1. /\ call' = [call EXCEPT !.ev = obj.ev, !.code = "LOADED"]
          /\ iter' = [iter EXCEPT ![call.it] = Advance(Me, obj.size)]
      BY <1>3 DEF ReadEvent
    <2>2. /\ Advance(Me, obj.size) \in IteratorStates
          /\ Advance(Me, obj.size).cur = Me.cur
          /\ Advance(Me, obj.size).eventNumber = Me.eventNumber + 1
          /\ Advance(Me, obj.size).position = Me.position + obj.size
      <3>1. Me \in IteratorStates /\ obj.size \in Nat
        BY <1>1, <1>2, RunningCall DEF Object
      <3> HIDE DEF obj
      <3> QED BY <3>1, AdvanceMoves
    <2>3. iter' \in [Iterators -> IteratorStates]
      BY <2>1, <2>2 DEF IInv, TypeOK
    <2>4. TypeOK'
      BY <1>0, <1>1, <1>2, <2>1, <2>3, SameHeapType
      DEF IInv, TypeOK, ReadEvent, Reading, Running, Calls, Codes, Object
    <2>5. OnBoundary'
      <3> SUFFICES ASSUME NEW i \in Iterators, iter'[i].cur \in DOMAIN chunk
                   PROVE  /\ iter'[i].eventNumber <= chunk[iter'[i].cur].nb
                          /\ iter'[i].position = place[iter'[i].cur].offs[iter'[i].eventNumber + 1]
        BY <1>0 DEF SameHeap, OnBoundary
      <3>1. CASE i = call.it
        <4>1. iter'[i] = Advance(Me, obj.size)
          BY <2>1, <3>1 DEF IInv, TypeOK
        <4>2. Me.eventNumber \in Nat /\ Cur.nb \in Nat
          BY <1>1, RunningCall DEF IteratorStates, IsChunk
        <4>3. Me.eventNumber + 1 <= Cur.nb /\ Me.eventNumber + 2 = (Me.eventNumber + 1) + 1
          BY <1>1, <4>2
        <4> HIDE DEF obj
        <4> QED BY <1>2, <2>2, <4>1, <4>3 DEF Cur
      <3>2. CASE i # call.it
        BY <2>1, <3>2 DEF IInv, TypeOK, OnBoundary
      <3> QED BY <3>1, <3>2
    <2> QED BY <1>0, <2>4, <2>5, SameHeapKeeps DEF IInv
  <1>4. CASE LoadCode(obj) # "LOADED"
    <2>1. LoadCode(obj) = "DATA_LOAD_ERROR"
      BY <1>2, <1>4 DEF LoadCode
    <2>2. Return("DATA_LOAD_ERROR") /\ UNCHANGED iter
      BY <1>4, <2>1 DEF ReadEvent
    <2> QED BY <1>0, <2>2, ReturnKeeps DEF Codes
  <1> QED BY <1>3, <1>4

----------------------------------------------------------------------------
(* Writes past the last event of a chunk. *)

\* The bytes after the last event of c may be written: no event lives there.
LEMMA EventsAreIntact ==
  ASSUME IInv, NEW c \in DOMAIN chunk, NEW q \in Nat, NEW j \in 1..chunk[c].nb
  PROVE  /\ place[c].offs[j] \in Intact(chunk[c].mem, place[c].offs[chunk[c].nb + 1], q)
         /\ place[c].offs[j] < place[c].offs[chunk[c].nb + 1]
  <1> DEFINE nb == chunk[c].nb
             offs == place[c].offs
             mem == chunk[c].mem
  <1>1. nb \in Nat /\ offs \in Seq(Nat) /\ Len(offs) = nb + 1
    BY DEF IInv, TypeOK, IsChunk, Places, ChunksHoldLog
  <1>2. Holds(c, j)
    BY DEF IInv, ChunksHoldLog
  <1>3. offs[j] \in DOMAIN mem /\ mem[offs[j]].size = offs[j + 1] - offs[j]
    BY <1>2 DEF Holds
  <1>4. j \in 1..(nb + 1) /\ j + 1 \in 1..(nb + 1) /\ nb + 1 \in 1..(nb + 1) /\ j < nb + 1
    BY <1>1
  <1>5. \A k, l \in 1..(nb + 1) : k < l => offs[k] < offs[l]
    BY DEF IInv, ChunksHoldLog
  <1>6. offs[j] \in Nat /\ offs[j + 1] \in Nat /\ offs[nb + 1] \in Nat
    <2> HIDE DEF offs, nb
    <2> QED BY <1>1, <1>4
  <1>7. offs[j + 1] <= offs[nb + 1]
    <2>1. CASE j = nb
      BY <2>1, <1>6
    <2>2. CASE j # nb
      <3>1. j + 1 < nb + 1
        BY <2>2, <1>1
      <3> HIDE DEF offs, nb
      <3> QED BY <3>1, <1>4, <1>5, <1>6
    <2> QED BY <2>1, <2>2
  <1>8. offs[j] < offs[nb + 1]
    BY <1>4, <1>5
  <1> HIDE DEF offs, nb
  <1>9. offs[j] + mem[offs[j]].size <= offs[nb + 1]
    BY <1>3, <1>6, <1>7
  <1> QED BY <1>3, <1>8, <1>9 DEF Intact, offs, nb

\* What does not depend on the contents of the buffers.
LEMMA SameShapeKeeps ==
  ASSUME IInv, UNCHANGED <<firstChunk, place, log>>, DOMAIN chunk' = DOMAIN chunk,
         \A d \in DOMAIN chunk : /\ chunk'[d].next = chunk[d].next
                                 /\ chunk'[d].prev = chunk[d].prev
                                 /\ chunk'[d].cap = chunk[d].cap
                                 /\ chunk'[d].nb = chunk[d].nb
  PROVE  FullBeforeLast' /\ ChunkCapacity' /\ WellLinked'
  <1>1. \A d \in DOMAIN chunk : chunk[d].next \in DOMAIN chunk \cup {Null}
                                /\ chunk[d].prev \in DOMAIN chunk \cup {Null}
    BY DEF IInv, TypeOK, IsChunk
  <1>2. \A d \in DOMAIN chunk : LastOfSegment(d)' <=> LastOfSegment(d)
    BY <1>1 DEF LastOfSegment
  <1>3. FullBeforeLast'
    BY <1>1, <1>2 DEF IInv, FullBeforeLast
  <1>4. ChunkCapacity'
    BY <1>2 DEF IInv, ChunkCapacity
  <1>5. WellLinked'
    BY <1>1, <1>2 DEF IInv, WellLinked
  <1> QED BY <1>3, <1>4, <1>5

\* A torn or refused store.
LEMMA TornKeeps ==
  ASSUME IInv, OnChunk, Me.eventNumber = Cur.nb,
         NEW q \in Nat, NEW code \in Codes \ {"RUNNING"}, Return(code),
         UNCHANGED <<firstChunk, iter, place, log>>,
         chunk' = [chunk EXCEPT ![Me.cur] =
                     [Cur EXCEPT !.mem = Overwrite(Cur.mem, Me.position, q)]]
  PROVE  IInv'
  <1> DEFINE c == Me.cur
             mem2 == Overwrite(Cur.mem, Me.position, q)
  <1>1. /\ c \in DOMAIN chunk /\ IsChunk(Cur) /\ Cur = chunk[c]
        /\ Me.position = place[c].offs[chunk[c].nb + 1] /\ Me.position \in Nat
    BY RunningCall DEF Cur, IteratorStates
  <1>2. IsMem(mem2)
    BY <1>1, OverwriteType DEF IsChunk
  <1>3. /\ DOMAIN chunk' = DOMAIN chunk
        /\ chunk' = [d \in DOMAIN chunk' |-> chunk'[d]]
        /\ \A d \in DOMAIN chunk : d # c => chunk'[d] = chunk[d]
        /\ chunk'[c] = [Cur EXCEPT !.mem = mem2]
    BY <1>1 DEF IInv, TypeOK
  <1>4. chunk'[c] = [bufsize |-> Cur.bufsize, cap |-> Cur.cap, nb |-> Cur.nb,
                     next |-> Cur.next, prev |-> Cur.prev, mem |-> mem2]
    <2> HIDE DEF c, mem2
    <2> QED BY <1>1, <1>3 DEF IsChunk
  <1> HIDE DEF mem2
  <1>5. \A d \in DOMAIN chunk : /\ chunk'[d].next = chunk[d].next
                                /\ chunk'[d].prev = chunk[d].prev
                                /\ chunk'[d].cap = chunk[d].cap
                                /\ chunk'[d].nb = chunk[d].nb
                                /\ chunk'[d].bufsize = chunk[d].bufsize
    BY <1>1, <1>3, <1>4
  <1>6. TypeOK'
    <2>1. \A d \in DOMAIN chunk : IsChunk(chunk[d])'
      BY <1>1, <1>2, <1>3, <1>4 DEF IInv, TypeOK, IsChunk
    <2> QED BY <1>3, <2>1
      DEF IInv, TypeOK, Return, Running, Calls, IteratorStates, Places, Segments
  <1>7. ChunksHoldLog'
    <2>1. ASSUME NEW d \in DOMAIN chunk, NEW j \in 1..chunk[d].nb PROVE Holds(d, j)'
      <3>1. CASE d = c
        <4>1. Holds(d, j)
          BY DEF IInv, ChunksHoldLog
        <4>2. place[c].offs[j] \in Intact(chunk[c].mem, Me.position, q)
          BY <1>1, <3>1, EventsAreIntact
        <4>3. place[c].offs[j] \in DOMAIN mem2 /\ mem2[place[c].offs[j]] = chunk[c].mem[place[c].offs[j]]
          BY <1>1, <4>2 DEF Overwrite, mem2
        <4> QED BY <1>1, <1>4, <3>1, <4>1, <4>3 DEF Holds
      <3>2. CASE d # c
        BY <1>3, <3>2 DEF IInv, ChunksHoldLog, Holds
      <3> QED BY <3>1, <3>2
    <2> QED BY <1>3, <1>5, <2>1 DEF IInv, ChunksHoldLog
  <1>8. OnBoundary'
    BY <1>3, <1>5 DEF IInv, OnBoundary
  <1> QED BY <1>3, <1>5, <1>6, <1>7, <1>8, SameShapeKeeps DEF IInv

LEMMA TooBigKeeps == ASSUME IInv, TooBig PROVE IInv'
  <1>1. OnChunk /\ Me.eventNumber = Cur.nb /\ Cur.bufsize \in Nat
    BY RunningCall, SizesAssumption DEF TooBig, OutOfBound, Storing, InChunk, IsChunk
  <1>2. chunk' = [chunk EXCEPT ![Me.cur] =
                    [Cur EXCEPT !.mem = Overwrite(Cur.mem, Me.position, Cur.bufsize)]]
    BY DEF TooBig, Torn
  <1> QED BY <1>1, <1>2, TornKeeps DEF TooBig, Codes

\* Where a store takes place: the last chunk of a segment, after its last event.
LEMMA StoresAtEnd ==
  ASSUME IInv, Storing
  PROVE  /\ OnChunk /\ Me.cur \in DOMAIN chunk /\ Me.eventNumber = Cur.nb
         /\ Me.eventNumber < Cur.cap /\ Cur.nb \in Nat /\ Cur.cap \in 0..UINT32_MAX
         /\ Me.position \in Nat /\ Me.position = place[Me.cur].offs[Cur.nb + 1]
         /\ LastOfSegment(Me.cur)
         /\ call.ev \in Events /\ call.it \in Iterators
         /\ End \in Nat /\ End >= Me.position + 2
  <1>1. OnChunk /\ Me.eventNumber = Cur.nb /\ call.op = "store"
    BY RunningCall DEF Storing, InChunk, Reading
  <1>2. /\ Me.cur \in DOMAIN chunk /\ IsChunk(Cur) /\ Me \in IteratorStates
        /\ Me.position = place[Me.cur].offs[Me.eventNumber + 1] /\ call.it \in Iterators
    BY <1>1, RunningCall
  <1>3. Me.position \in Nat /\ Me.eventNumber \in Nat /\ Cur.nb \in Nat /\ Cur.cap \in 0..UINT32_MAX
    BY <1>2 DEF IteratorStates, IsChunk
  <1>4. Me.eventNumber < Cur.cap
    BY <1>3, SizesAssumption DEF Storing, InChunk, PastCapacity
  <1>5. LastOfSegment(Me.cur)
    BY <1>1, <1>2, <1>3, <1>4, SizesAssumption DEF IInv, FullBeforeLast, Cur
  <1>6. call.ev \in Events
    BY <1>1 DEF IInv, TypeOK
  <1>7. End \in Nat /\ End >= Me.position + 2
    BY <1>3, <1>6, ContentEndIsAfter DEF End
  <1> QED BY <1>1, <1>2, <1>3, <1>4, <1>5, <1>6, <1>7

LEMMA WriteRefusedKeeps ==
  ASSUME IInv, WriteEvent, StoreCode(call.ev, End - Me.position) # "STORED"
  PROVE  IInv'
  <1> DEFINE code == StoreCode(call.ev, End - Me.position)
  <1>1. code \in Codes \ {"RUNNING"}
    BY DEF StoreCode, Codes
  <1>2. OnChunk /\ Me.eventNumber = Cur.nb /\ End \in Nat
    BY StoresAtEnd DEF WriteEvent
  <1>3. chunk' = [chunk EXCEPT ![Me.cur] =
                    [Cur EXCEPT !.mem = Overwrite(Cur.mem, Me.position, End)]]
    BY DEF WriteEvent, Cur
  <1>4. Return(code) /\ UNCHANGED <<firstChunk, iter, place, log>>
    BY DEF WriteEvent
  <1> HIDE DEF code
  <1> QED BY <1>1, <1>2, <1>3, <1>4, TornKeeps

LEMMA StoreKeeps ==
  ASSUME IInv, WriteEvent, StoreCode(call.ev, End - Me.position) = "STORED"
  PROVE  IInv'
  <1> DEFINE c == Me.cur
             nb == chunk[c].nb
             offs == place[c].offs
             s == place[c].seg
             mem2 == PutObject(Cur.mem, Me.position, call.ev, End)
             events2 == Append(log[s].events, call.ev)
             offs2 == Append(offs, End)
             before == place[c].before
             size == Len(log[s].events)
  <1>1. /\ OnChunk /\ c \in DOMAIN chunk /\ Me.eventNumber = nb /\ Cur = chunk[c]
        /\ nb < chunk[c].cap /\ nb \in Nat /\ chunk[c].cap \in 0..UINT32_MAX
        /\ Me.position \in Nat /\ Me.position = offs[nb + 1]
        /\ LastOfSegment(c)
        /\ call.ev \in Events /\ call.it \in Iterators
        /\ End \in Nat /\ End >= Me.position + 2
    BY StoresAtEnd DEF WriteEvent, Cur
  <1>2. /\ chunk' = [chunk EXCEPT ![c] = Grown(Cur)]
        /\ iter' = [iter EXCEPT ![call.it] = Advance(Me, End - Me.position)]
        /\ place' = [place EXCEPT ![c].offs = Append(offs, End)]
        /\ log' = [log EXCEPT ![s].events = events2]
        /\ call' = [call EXCEPT !.code = "STORED"]
        /\ UNCHANGED firstChunk
    BY DEF WriteEvent, Return
  <1>3. /\ IsChunk(chunk[c]) /\ place[c] \in Places /\ offs \in Seq(Nat) /\ Len(offs) = nb + 1
        /\ s \in 1..Len(log) /\ place[c].before \in Nat /\ log[s] \in Segments
        /\ End <= chunk[c].bufsize /\ Me \in IteratorStates
    <2>1. place[c] \in Places
      BY <1>1 DEF IInv, TypeOK
    <2>2. s \in 1..Len(log) /\ log[s] \in Segments
      BY <2>1 DEF IInv, TypeOK, Places
    <2>3. Len(offs) = nb + 1
      BY <1>1 DEF IInv, ChunksHoldLog
    <2>4. End <= chunk[c].bufsize /\ Me \in IteratorStates /\ IsChunk(chunk[c])
      BY <1>1, RunningCall DEF WriteEvent
    <2> QED BY <2>1, <2>2, <2>3, <2>4 DEF Places
  <1>4. /\ DOMAIN chunk' = DOMAIN chunk
        /\ chunk' = [d \in DOMAIN chunk' |-> chunk'[d]]
        /\ \A d \in DOMAIN chunk : d # c => chunk'[d] = chunk[d]
        /\ chunk'[c] = Grown(Cur)
    BY <1>1, <1>2 DEF IInv, TypeOK
  <1>5. chunk'[c] = [bufsize |-> Cur.bufsize, cap |-> Cur.cap, nb |-> Cur.nb + 1,
                     next |-> Cur.next, prev |-> Cur.prev, mem |-> mem2]
    <2> HIDE DEF c, mem2
    <2> QED BY <1>1, <1>3, <1>4 DEF IsChunk, Grown, mem2
  <1>6. IsMem(mem2)
    <2>1. IsMem(Cur.mem) /\ End >= Me.position
      BY <1>1, <1>3 DEF IsChunk
    <2> QED BY <1>1, <2>1, PutObjectType
  <1>7. \A d \in DOMAIN chunk : /\ chunk'[d].next = chunk[d].next
                                /\ chunk'[d].prev = chunk[d].prev
                                /\ chunk'[d].cap = chunk[d].cap
                                /\ chunk'[d].bufsize = chunk[d].bufsize
    BY <1>1, <1>4, <1>5
  <1>8. /\ place' \in [DOMAIN chunk -> [seg : 1..Len(log), before : Nat, offs : Seq(Nat)]]
        /\ \A d \in DOMAIN chunk : /\ place'[d].seg = place[d].seg
                                   /\ place'[d].before = place[d].before
                                   /\ d # c => place'[d] = place[d]
        /\ place'[c].offs = offs2
    <2>1. Append(offs, End) \in Seq(Nat)
      BY <1>1, <1>3
    <2> HIDE DEF offs
    <2>2. [place[c] EXCEPT !.offs = Append(offs, End)] \in Places
      BY <2>1, <1>3 DEF Places
    <2> QED BY <2>1, <2>2, <1>1, <1>2, <1>3 DEF IInv, TypeOK, Places
  <1>9. /\ Len(log') = Len(log) /\ log' \in Seq(Segments)
        /\ \A t \in 1..Len(log) : /\ log'[t].request = log[t].request
                                  /\ t # s => log'[t] = log[t]
        /\ log'[s].events = events2
        /\ Len(events2) = Len(log[s].events) + 1
        /\ \A k \in 1..Len(log[s].events) : events2[k] = log[s].events[k]
        /\ events2[Len(log[s].events) + 1] = call.ev
        /\ Len(log[s].events) \in Nat
    <2>1. log[s].events \in Seq(Events) /\ events2 \in Seq(Events)
      BY <1>1, <1>3 DEF Segments
    <2>2. [log[s] EXCEPT !.events = events2] \in Segments
      BY <1>3, <2>1 DEF Segments
    <2>3. log' = [log EXCEPT ![s] = [log[s] EXCEPT !.events = events2]]
      BY <1>2
    <2>4. /\ Len(events2) = Len(log[s].events) + 1
          /\ \A k \in 1..Len(log[s].events) : events2[k] = log[s].events[k]
          /\ events2[Len(log[s].events) + 1] = call.ev
          /\ Len(log[s].events) \in Nat
      <3> DEFINE q == log[s].events
      <3>1. q \in Seq(Events) /\ call.ev \in Events
        BY <1>1, <2>1
      <3> HIDE DEF q
      <3>2. /\ Len(Append(q, call.ev)) = Len(q) + 1 /\ Len(q) \in Nat
            /\ \A k \in 1..Len(q) : Append(q, call.ev)[k] = q[k]
            /\ Append(q, call.ev)[Len(q) + 1] = call.ev
        BY <3>1, AppendFacts
      <3> QED BY <3>2 DEF q
    <2>5. log \in Seq(Segments)
      BY DEF IInv, TypeOK
    <2>6. /\ log' \in Seq(Segments) /\ Len(log') = Len(log)
          /\ log'[s] = [log[s] EXCEPT !.events = events2]
          /\ \A t \in 1..Len(log) : t # s => log'[t] = log[t]
      <3> HIDE DEF s, events2
      <3> QED BY <1>3, <2>2, <2>3, <2>5, UpdateFacts
    <2>7. log'[s].request = log[s].request /\ log'[s].events = events2
      BY <1>3, <2>6 DEF Segments
    <2> HIDE DEF s, events2
    <2> QED BY <2>4, <2>6, <2>7
  <1>10. /\ \A k \in 1..(nb + 1) : offs2[k] = offs[k]
         /\ offs2[nb + 2] = End
         /\ Len(offs2) = nb + 2
         /\ \A k \in 1..(nb + 1) : offs[k] \in Nat
    <2> DEFINE q == offs
               n == nb
               x == End
    <2>1. q \in Seq(Nat) /\ Len(q) = n + 1 /\ x \in Nat /\ n \in Nat /\ (n + 1) + 1 = n + 2
      BY <1>1, <1>3
    <2> HIDE DEF q, n, x
    <2>2. /\ \A k \in 1..(n + 1) : Append(q, x)[k] = q[k]
          /\ Append(q, x)[n + 2] = x
          /\ Len(Append(q, x)) = n + 2
      BY <2>1, AppendFacts
    <2>3. \A k \in 1..(n + 1) : q[k] \in Nat
      BY <2>1
    <2> QED BY <2>2, <2>3 DEF q, n, x
  <1> HIDE DEF c, s, offs, nb, mem2, events2, offs2, before, size
  <1>11. TypeOK'
    <2>1. ASSUME NEW d \in DOMAIN chunk PROVE IsChunk(chunk[d])'
      <3>1. CASE d = c
        <4>1. chunk'[c].nb \in Nat
          BY <1>1, <1>5 DEF nb
        <4> QED BY <1>1, <1>3, <1>4, <1>5, <1>6, <3>1, <4>1 DEF IsChunk
      <3>2. CASE d # c
        BY <1>4, <3>2 DEF IInv, TypeOK, IsChunk
      <3> QED BY <3>1, <3>2
    <2>2. Advance(Me, End - Me.position) \in IteratorStates
      <3>1. End - Me.position \in Nat
        BY <1>1
      <3> QED BY <1>3, <3>1, AdvanceMoves
    <2>3. iter' \in [Iterators -> IteratorStates]
      BY <1>1, <1>2, <2>2 DEF IInv, TypeOK
    <2>4. call' \in Calls /\ call'.op = call.op /\ call'.ev = call.ev /\ call'.code = "STORED"
      BY <1>2 DEF IInv, TypeOK, Calls, Codes
    <2> QED BY <1>2, <1>4, <1>8, <1>9, <2>1, <2>3, <2>4
      DEF IInv, TypeOK, IteratorStates, Running, Places
  \* Only c was the last chunk of its segment: the events of the others stay
  \* where they were.
  <1>12. ASSUME NEW d \in DOMAIN chunk, d # c
         PROVE  /\ chunk'[d] = chunk[d] /\ place'[d] = place[d]
                /\ Len(log'[place[d].seg].events) >= Len(log[place[d].seg].events)
                /\ \A k \in 1..Len(log[place[d].seg].events) :
                      log'[place[d].seg].events[k] = log[place[d].seg].events[k]
                /\ LastOfSegment(d) => place[d].seg # s
                /\ place[d].seg \in 1..Len(log)
    <2>1. place[d].seg \in 1..Len(log) /\ log[place[d].seg] \in Segments
      BY DEF IInv, TypeOK, Places
    <2>2. LastOfSegment(d) => place[d].seg # s
      BY <1>1, <1>12 DEF IInv, WellLinked, s
    <2>3. Len(log[place[d].seg].events) \in Nat
      BY <2>1 DEF Segments
    <2> QED BY <1>4, <1>8, <1>9, <1>12, <2>1, <2>2, <2>3
  <1>13. \A d \in DOMAIN chunk : LastOfSegment(d)' <=> LastOfSegment(d)
    BY <1>7, <1>8 DEF IInv, TypeOK, IsChunk, LastOfSegment
  <1>14. /\ before + nb = size /\ before \in Nat /\ nb \in Nat /\ size \in Nat
         /\ Len(events2) = size + 1 /\ events2[size + 1] = call.ev
         /\ \A k \in 1..size : events2[k] = log[s].events[k]
         /\ place'[c].seg = s /\ place'[c].before = before
         /\ log'[s].events = events2
    <2>1. before + nb = size
      BY <1>1 DEF IInv, FullBeforeLast, nb, s, before, size
    <2> QED BY <2>1, <1>1, <1>3, <1>8, <1>9 DEF s, before, size
  <1>15. ChunksHoldLog'
    <2>1. /\ offs[1] = 0 /\ nb <= offs[nb + 1]
          /\ \A j, k \in 1..(nb + 1) : j < k => offs[j] < offs[k]
          /\ \A j \in 1..nb : Holds(c, j)
      BY <1>1 DEF IInv, ChunksHoldLog, nb, offs
    <2>2. chunk'[c].nb = nb + 1 /\ chunk'[c].mem = mem2 /\ place'[c].offs = offs2
          /\ chunk'[c].bufsize = chunk[c].bufsize
      BY <1>1, <1>5, <1>8 DEF nb
    <2>3. ASSUME NEW j \in 1..(nb + 2), NEW k \in 1..(nb + 2), j < k
          PROVE  offs2[j] < offs2[k]
      <3>1. CASE k \in 1..(nb + 1)
        <4>1. j \in 1..(nb + 1)
          BY <1>1, <2>3, <3>1
        <4> QED BY <1>10, <2>1, <2>3, <3>1, <4>1
      <3>2. CASE k = nb + 2
        <4>1. j \in 1..(nb + 1) /\ nb + 1 \in 1..(nb + 1)
          BY <1>1, <2>3, <3>2
        <4>2. offs[j] <= offs[nb + 1]
          BY <1>1, <1>10, <2>1, <4>1
        <4> QED BY <1>1, <1>10, <3>2, <4>1, <4>2
      <3> QED BY <1>1, <3>1, <3>2
    <2>4. ASSUME NEW d \in DOMAIN chunk, d = c, NEW j \in 1..(nb + 1) PROVE Holds(d, j)'
      <3>1. CASE j \in 1..nb
        <4>1. /\ offs[j] \in Intact(chunk[c].mem, Me.position, End) /\ offs[j] < Me.position
          BY <1>1, <3>1, EventsAreIntact DEF nb, offs
        <4>2. offs[j] \in DOMAIN mem2 /\ mem2[offs[j]] = chunk[c].mem[offs[j]]
          <5>1. offs[j] # Me.position
            BY <1>1, <1>10, <4>1, <2>4
          <5> QED BY <1>1, <4>1, <5>1 DEF PutObject, mem2
        <4>3. j + 1 \in 1..(nb + 1) /\ before + j \in 1..size
          BY <1>14, <3>1
        <4>4. chunk[c].mem[offs[j]] = [ev |-> log[s].events[before + j],
                                       size |-> offs[j + 1] - offs[j]]
          BY <2>1, <3>1 DEF Holds, offs, s, before
        <4>6. place'[c].offs[j] = offs[j] /\ place'[c].offs[j + 1] = offs[j + 1]
          BY <1>10, <2>2, <2>4, <4>3
        <4>7. log'[s].events[before + j] = log[s].events[before + j]
          BY <1>14, <4>3
        <4>8. place'[c].seg = s /\ place'[c].before = before /\ chunk'[c].mem = mem2
          BY <1>14, <2>2
        <4> QED BY <2>4, <4>2, <4>4, <4>6, <4>7, <4>8, Zenon DEF Holds
      <3>2. CASE j = nb + 1
        <4>1. Me.position \in DOMAIN mem2
              /\ mem2[Me.position] = [ev |-> call.ev, size |-> End - Me.position]
          BY DEF PutObject, mem2
        <4>2. before + j = size + 1 /\ j + 1 = nb + 2 /\ j \in 1..(nb + 1)
          BY <1>14, <3>2
        <4>3. place'[c].offs[j] = Me.position /\ place'[c].offs[j + 1] = End
          BY <1>1, <1>10, <2>2, <3>2, <4>2
        <4>4. log'[place'[c].seg].events[place'[c].before + j] = call.ev
          BY <1>14, <4>2
        <4>5. chunk'[c].mem = mem2
          BY <2>2
        <4> QED BY <2>4, <4>1, <4>3, <4>4, <4>5, Zenon DEF Holds
      <3> QED BY <1>1, <3>1, <3>2
    <2>5. ASSUME NEW d \in DOMAIN chunk, d # c, NEW j \in 1..chunk[d].nb PROVE Holds(d, j)'
      <3>1. Holds(d, j) /\ place[d].before + chunk[d].nb <= Len(log[place[d].seg].events)
        BY DEF IInv, ChunksHoldLog
      <3>2. place[d].before \in Nat /\ chunk[d].nb \in Nat /\ log[place[d].seg] \in Segments
        BY <1>12, <2>5 DEF IInv, TypeOK, IsChunk, Places
      <3>3. place[d].before + j \in 1..Len(log[place[d].seg].events)
        <4> DEFINE b == place[d].before
                   n == chunk[d].nb
                   l == Len(log[place[d].seg].events)
        <4>1. b \in Nat /\ n \in Nat /\ l \in Nat /\ b + n <= l /\ j \in 1..n
          BY <3>1, <3>2 DEF Segments
        <4> HIDE DEF b, n, l
        <4>2. b + j \in 1..l
          BY <4>1
        <4> QED BY <4>2 DEF b, l
      <3>4. /\ chunk'[d] = chunk[d] /\ place'[d] = place[d]
            /\ log'[place[d].seg].events[place[d].before + j]
                 = log[place[d].seg].events[place[d].before + j]
        BY <1>12, <2>5, <3>3
      <3> QED BY <3>1, <3>4, Zenon DEF Holds
    <2>6. ASSUME NEW d \in DOMAIN chunk, d = c
          PROVE  LET nb2 == chunk'[d].nb  o2 == place'[d].offs
                 IN  /\ Len(o2) = nb2 + 1 /\ o2[1] = 0
                     /\ \A j, k \in 1..(nb2 + 1) : j < k => o2[j] < o2[k]
                     /\ nb2 <= o2[nb2 + 1] /\ o2[nb2 + 1] <= chunk'[d].bufsize
                     /\ place'[d].before + nb2 <= Len(log'[place'[d].seg].events)
                     /\ \A j \in 1..nb2 : Holds(d, j)'
      <3>1. (nb + 1) + 1 = nb + 2 /\ 1 \in 1..(nb + 1) /\ nb + 1 \in 1..(nb + 1)
        BY <1>1
      <3>2. Len(offs2) = (nb + 1) + 1 /\ offs2[1] = 0
        BY <1>10, <2>1, <3>1
      <3>3. nb + 1 <= End /\ End <= chunk'[c].bufsize
        BY <1>1, <1>3, <1>10, <2>1, <2>2, <3>1
      <3>4. place'[c].before + (nb + 1) <= Len(log'[place'[c].seg].events)
        <4>1. before + (nb + 1) <= size + 1
          BY <1>14
        <4> QED BY <1>14, <4>1
      <3>5. \A j, k \in 1..((nb + 1) + 1) : j < k => offs2[j] < offs2[k]
        BY <2>3, <3>1
      <3>6. offs2[(nb + 1) + 1] = End /\ chunk'[c].nb = nb + 1 /\ place'[c].offs = offs2
        BY <1>10, <2>2, <3>1
      <3> QED BY <2>4, <2>6, <3>2, <3>3, <3>4, <3>5, <3>6, Zenon
    <2>7. ASSUME NEW d \in DOMAIN chunk, d # c
          PROVE  LET nb2 == chunk'[d].nb  o2 == place'[d].offs
                 IN  /\ Len(o2) = nb2 + 1 /\ o2[1] = 0
                     /\ \A j, k \in 1..(nb2 + 1) : j < k => o2[j] < o2[k]
                     /\ nb2 <= o2[nb2 + 1] /\ o2[nb2 + 1] <= chunk'[d].bufsize
                     /\ place'[d].before + nb2 <= Len(log'[place'[d].seg].events)
                     /\ \A j \in 1..nb2 : Holds(d, j)'
      <3>1. place[d].before + chunk[d].nb <= Len(log[place[d].seg].events)
        BY DEF IInv, ChunksHoldLog
      <3>2. /\ place[d].before \in Nat /\ chunk[d].nb \in Nat
            /\ log[place[d].seg] \in Segments /\ log'[place[d].seg] \in Segments
        BY <1>9, <1>12, <2>7 DEF IInv, TypeOK, IsChunk, Places
      <3>3. place[d].before + chunk[d].nb <= Len(log'[place[d].seg].events)
        <4> DEFINE b == place[d].before
                   n == chunk[d].nb
                   l == Len(log[place[d].seg].events)
                   l2 == Len(log'[place[d].seg].events)
        <4>1. b \in Nat /\ n \in Nat /\ l \in Nat /\ l2 \in Nat /\ b + n <= l /\ l2 >= l
          BY <1>12, <2>7, <3>1, <3>2 DEF Segments
        <4> HIDE DEF b, n, l, l2
        <4>2. b + n <= l2
          BY <4>1
        <4> QED BY <4>2 DEF b, n, l2
      <3> QED BY <1>12, <2>5, <2>7, <3>3 DEF IInv, ChunksHoldLog
    <2> QED BY <1>4, <2>6, <2>7 DEF ChunksHoldLog
  <1>16. OnBoundary'
    <2> SUFFICES ASSUME NEW i \in Iterators, iter'[i].cur \in DOMAIN chunk
                 PROVE  /\ iter'[i].eventNumber <= chunk'[iter'[i].cur].nb
                        /\ iter'[i].position
                             = place'[iter'[i].cur].offs[iter'[i].eventNumber + 1]
      BY <1>4 DEF OnBoundary
    <2>1. CASE i = call.it
      <3>1. iter'[i] = Advance(Me, End - Me.position)
        BY <1>2, <2>1 DEF IInv, TypeOK
      <3>2. Me.cur = c /\ Me.position + (End - Me.position) = End /\ End - Me.position \in Nat
        BY <1>1 DEF c
      <3>3. iter'[i].cur = c /\ iter'[i].eventNumber = nb + 1 /\ iter'[i].position = End
        <4>1. /\ Advance(Me, End - Me.position).cur = Me.cur
              /\ Advance(Me, End - Me.position).eventNumber = Me.eventNumber + 1
              /\ Advance(Me, End - Me.position).position = Me.position + (End - Me.position)
          BY <1>3, <3>2, AdvanceMoves
        <4>2. Me.eventNumber = nb
          BY <1>1
        <4> QED BY <3>1, <3>2, <4>1, <4>2
      <3>4. chunk'[c].nb = nb + 1 /\ (nb + 1) + 1 = nb + 2
        BY <1>1, <1>5 DEF nb
      <3> QED BY <1>1, <1>8, <1>10, <3>3, <3>4
    <2>2. CASE i # call.it
      <3>1. iter'[i] = iter[i] /\ iter[i] \in IteratorStates
        BY <1>2, <2>2 DEF IInv, TypeOK
      <3>2. /\ iter[i].eventNumber <= chunk[iter[i].cur].nb /\ iter[i].eventNumber \in Nat
            /\ iter[i].position = place[iter[i].cur].offs[iter[i].eventNumber + 1]
        BY <3>1 DEF IInv, OnBoundary, IteratorStates
      <3>3. CASE iter[i].cur = c
        <4>1. iter[i].eventNumber <= nb /\ iter[i].position = offs[iter[i].eventNumber + 1]
          BY <3>2, <3>3 DEF nb, offs
        <4>2. iter[i].eventNumber + 1 \in 1..(nb + 1) /\ iter[i].eventNumber <= nb + 1
          BY <1>1, <3>2, <4>1
        <4>3. chunk'[c].nb = nb + 1 /\ place'[c].offs = offs2
          BY <1>1, <1>5, <1>8 DEF nb
        <4> QED BY <1>10, <3>1, <3>3, <4>1, <4>2, <4>3
      <3>4. CASE iter[i].cur # c
        BY <1>12, <3>1, <3>2, <3>4
      <3> QED BY <3>3, <3>4
    <2> QED BY <2>1, <2>2
  <1>17. FullBeforeLast'
    <2> SUFFICES ASSUME NEW d \in DOMAIN chunk
                 PROVE  IF LastOfSegment(d)
                        THEN place'[d].before + chunk'[d].nb = Len(log'[place'[d].seg].events)
                        ELSE /\ chunk'[d].cap = chunk'[d].nb
                             /\ place'[chunk'[d].next].before = place'[d].before + chunk'[d].nb
      BY <1>4, <1>13 DEF FullBeforeLast
    <2>1. CASE d = c
      <3>1. before + (nb + 1) = size + 1 /\ chunk'[c].nb = nb + 1
        BY <1>1, <1>5, <1>14 DEF nb
      <3> QED BY <1>1, <1>14, <2>1, <3>1
    <2>2. CASE d # c /\ LastOfSegment(d)
      <3>1. place[d].before + chunk[d].nb = Len(log[place[d].seg].events)
        BY <2>2 DEF IInv, FullBeforeLast
      <3> QED BY <1>9, <1>12, <2>2, <3>1
    <2>3. CASE d # c /\ ~LastOfSegment(d)
      <3>1. chunk[d].next \in DOMAIN chunk
        BY <2>3 DEF IInv, TypeOK, IsChunk, LastOfSegment
      <3>2. chunk[d].cap = chunk[d].nb /\ place[chunk[d].next].before = place[d].before + chunk[d].nb
        BY <2>3 DEF IInv, FullBeforeLast
      <3> QED BY <1>8, <1>12, <2>3, <3>1, <3>2
    <2> QED BY <2>1, <2>2, <2>3
  <1>18. ChunkCapacity'
    <2> SUFFICES ASSUME NEW d \in DOMAIN chunk
                 PROVE  /\ chunk'[d].nb <= chunk'[d].cap
                        /\ LastOfSegment(d) =>
                             IF log'[place'[d].seg].request = UINT32_MAX
                             THEN chunk'[d].cap = UINT32_MAX
                             ELSE place'[d].before + chunk'[d].cap = log'[place'[d].seg].request
      BY <1>4, <1>13 DEF ChunkCapacity
    <2>1. chunk'[d].nb <= chunk'[d].cap
      <3>1. CASE d = c
        BY <1>1, <1>5, <3>1 DEF nb
      <3>2. CASE d # c
        BY <1>4, <3>2 DEF IInv, ChunkCapacity
      <3> QED BY <3>1, <3>2
    <2>2. place[d].seg \in 1..Len(log)
      BY DEF IInv, TypeOK, Places
    <2>3. /\ chunk'[d].cap = chunk[d].cap /\ place'[d].seg = place[d].seg
          /\ place'[d].before = place[d].before
          /\ log'[place[d].seg].request = log[place[d].seg].request
      BY <1>7, <1>8, <1>9, <2>2
    <2> QED BY <2>1, <2>3, Zenon DEF IInv, ChunkCapacity
  <1>19. WellLinked'
    <2>1. \A d \in DOMAIN chunk : chunk[d].next \in DOMAIN chunk \cup {Null}
                                  /\ chunk[d].prev \in DOMAIN chunk \cup {Null}
      BY DEF IInv, TypeOK, IsChunk
    <2>2. firstChunk \in DOMAIN chunk \cup {Null}
      BY DEF IInv, TypeOK
    <2>3. /\ DOMAIN chunk' = DOMAIN chunk /\ firstChunk' = firstChunk /\ Len(log') = Len(log)
          /\ \A d \in DOMAIN chunk : /\ chunk'[d].next = chunk[d].next
                                     /\ chunk'[d].prev = chunk[d].prev
                                     /\ place'[d].seg = place[d].seg
                                     /\ place'[d].before = place[d].before
      BY <1>2, <1>4, <1>7, <1>8, <1>9
    <2> QED BY <1>13, <2>1, <2>2, <2>3 DEF IInv, WellLinked
  <1> QED BY <1>11, <1>15, <1>16, <1>17, <1>18, <1>19 DEF IInv

LEMMA WriteEventKeeps == ASSUME IInv, WriteEvent PROVE IInv'
  BY StoreKeeps, WriteRefusedKeeps

----------------------------------------------------------------------------
(* New chunks. *)

\* The chunks once n is linked in front of new.next.
LEMMA LinkFacts ==
  ASSUME NEW cs, NEW n, n \notin DOMAIN cs, NEW new
  PROVE  /\ DOMAIN Link(cs, n, new) = DOMAIN cs \cup {n}
         /\ Link(cs, n, new) = [d \in DOMAIN Link(cs, n, new) |-> Link(cs, n, new)[d]]
         /\ Link(cs, n, new)[n] = new
         /\ \A d \in DOMAIN cs :
              Link(cs, n, new)[d] = IF d = new.next THEN [cs[d] EXCEPT !.prev = n] ELSE cs[d]
  BY DEF Link

\* Setting prev changes nothing else.
LEMMA SetPrev ==
  ASSUME NEW x, IsChunk(x), NEW n
  PROVE  [x EXCEPT !.prev = n] =
           [bufsize |-> x.bufsize, cap |-> x.cap, nb |-> x.nb,
            next |-> x.next, prev |-> n, mem |-> x.mem]
  BY DEF IsChunk

LEMMA PushFrontKeeps ==
  ASSUME IInv, Idle, Room, NEW n \in 0..UINT32_MAX, NEW size \in BufSizes, PushFront(n, size),
         UNCHANGED call, iter' = [i \in Iterators |-> iter'[i]],
         \A i \in Iterators : iter'[i] = iter[i] \/ iter'[i] = StartOfChunk(firstChunk')
  PROVE  IInv'
  <1> DEFINE f == Fresh
             new == HistoryChunk(n, Null, firstChunk, size)
             t == Len(log) + 1
  <1>1. /\ f \in Chunks /\ f \notin DOMAIN chunk /\ f # Null /\ f # Unmade
        /\ firstChunk \in DOMAIN chunk \cup {Null}
        /\ DOMAIN place = DOMAIN chunk
        /\ Len(log) \in Nat /\ log \in Seq(Segments)
    BY FreshIsFree, AddressAssumption DEF IInv, TypeOK
  <1>2. new = [bufsize |-> size, cap |-> n, nb |-> 0, next |-> firstChunk, prev |-> Null,
               mem |-> EmptyMap]
    BY DEF HistoryChunk
  <1>3. /\ chunk' = Link(chunk, f, new) /\ firstChunk' = f
        /\ log' = Append(log, [request |-> n, events |-> << >>])
        /\ place' = Placed(f, t, 0)
    BY DEF PushFront
  <1> HIDE DEF f, new
  <1>4. /\ DOMAIN chunk' = DOMAIN chunk \cup {f}
        /\ chunk' = [d \in DOMAIN chunk' |-> chunk'[d]]
        /\ chunk'[f] = new
        /\ \A d \in DOMAIN chunk :
             chunk'[d] = IF d = firstChunk THEN [chunk[d] EXCEPT !.prev = f] ELSE chunk[d]
    <2>1. new.next = firstChunk
      BY <1>2
    <2>2. /\ DOMAIN Link(chunk, f, new) = DOMAIN chunk \cup {f}
          /\ Link(chunk, f, new) = [d \in DOMAIN Link(chunk, f, new) |-> Link(chunk, f, new)[d]]
          /\ Link(chunk, f, new)[f] = new
          /\ \A d \in DOMAIN chunk : Link(chunk, f, new)[d] =
                IF d = new.next THEN [chunk[d] EXCEPT !.prev = f] ELSE chunk[d]
      BY <1>1 DEF Link
    <2> QED BY <1>3, <2>1, <2>2, Zenon
  <1>5. ASSUME NEW d \in DOMAIN chunk
        PROVE  /\ chunk'[d] = [bufsize |-> chunk[d].bufsize, cap |-> chunk[d].cap,
                               nb |-> chunk[d].nb, next |-> chunk[d].next,
                               prev |-> chunk'[d].prev, mem |-> chunk[d].mem]
               /\ chunk'[d].prev = (IF d = firstChunk THEN f ELSE chunk[d].prev)
    <2>1. IsChunk(chunk[d])
      BY DEF IInv, TypeOK
    <2>2. CASE d = firstChunk
      <3>1. chunk'[d] = [chunk[d] EXCEPT !.prev = f]
        BY <1>4, <2>2
      <3>2. chunk'[d] = [bufsize |-> chunk[d].bufsize, cap |-> chunk[d].cap, nb |-> chunk[d].nb,
                         next |-> chunk[d].next, prev |-> f, mem |-> chunk[d].mem]
        BY <2>1, <3>1, SetPrev, Zenon
      <3>3. chunk'[d].prev = f
        BY <3>2
      <3> QED BY <2>2, <3>2, <3>3, Zenon
    <2>3. CASE d # firstChunk
      BY <1>4, <2>1, <2>3 DEF IsChunk
    <2> QED BY <2>2, <2>3
  <1>6. /\ place' = [d \in DOMAIN chunk' |-> place'[d]]
        /\ place'[f] = [seg |-> t, before |-> 0, offs |-> <<0>>]
        /\ \A d \in DOMAIN chunk : place'[d] = place[d] /\ place[d] \in Places
    BY <1>1, <1>3, <1>4 DEF Placed, IInv, TypeOK
  <1>7. /\ log' \in Seq(Segments) /\ Len(log') = t /\ t \notin 1..Len(log)
        /\ log'[t] = [request |-> n, events |-> << >>] /\ Len(log'[t].events) = 0
        /\ \A k \in 1..Len(log) : log'[k] = log[k]
    <2>1. [request |-> n, events |-> << >>] \in Segments
      BY DEF Segments
    <2> QED BY <1>1, <1>3, <2>1, AppendFacts
  <1>8. \A d \in DOMAIN chunk : place[d].seg \in 1..Len(log) /\ place[d].seg # t
    BY <1>6, <1>7 DEF Places
  <1> HIDE DEF t
  <1>9. \A d \in DOMAIN chunk :
          /\ chunk'[d].bufsize = chunk[d].bufsize /\ chunk'[d].cap = chunk[d].cap
          /\ chunk'[d].nb = chunk[d].nb /\ chunk'[d].next = chunk[d].next
          /\ chunk'[d].prev = (IF d = firstChunk THEN f ELSE chunk[d].prev)
          /\ chunk'[d].mem = chunk[d].mem
          /\ chunk[d].next \in DOMAIN chunk \cup {Null}
          /\ chunk[d].prev \in DOMAIN chunk \cup {Null}
    <2> TAKE d \in DOMAIN chunk
    <2>1. IsChunk(chunk[d])
      BY DEF IInv, TypeOK
    <2>2. chunk[d].next \in DOMAIN chunk \cup {Null} /\ chunk[d].prev \in DOMAIN chunk \cup {Null}
      BY <2>1 DEF IsChunk
    <2>3. chunk'[d] = [bufsize |-> chunk[d].bufsize, cap |-> chunk[d].cap, nb |-> chunk[d].nb,
                       next |-> chunk[d].next, prev |-> chunk'[d].prev, mem |-> chunk[d].mem]
      BY <1>5, Zenon
    <2>4. /\ chunk'[d].bufsize = chunk[d].bufsize /\ chunk'[d].cap = chunk[d].cap
          /\ chunk'[d].nb = chunk[d].nb /\ chunk'[d].next = chunk[d].next
          /\ chunk'[d].mem = chunk[d].mem
      BY <2>3
    <2> QED BY <1>5, <2>2, <2>4, Zenon
  <1>10. TypeOK'
    <2>1. ASSUME NEW d \in DOMAIN chunk' PROVE IsChunk(chunk[d])'
      <3>1. CASE d = f
        <4>1. IsMem(EmptyMap)
          BY DEF IsMem, EmptyMap, Object
        <4> QED BY <1>1, <1>2, <1>4, <3>1, <4>1 DEF IsChunk
      <3>2. CASE d \in DOMAIN chunk
        <4>1. IsChunk(chunk[d])
          BY <3>2 DEF IInv, TypeOK
        <4>2. chunk'[d].prev \in DOMAIN chunk' \cup {Null} /\ chunk'[d].next \in DOMAIN chunk' \cup {Null}
          BY <1>4, <1>9, <3>2
        <4> QED BY <1>5, <1>9, <3>2, <4>1, <4>2 DEF IsChunk
      <3> QED BY <1>4, <3>1, <3>2
    <2>2. iter' \in [Iterators -> IteratorStates']
      <3>1. ASSUME NEW i \in Iterators PROVE iter'[i] \in IteratorStates'
        <4>1. iter[i] \in IteratorStates
          BY DEF IInv, TypeOK
        <4> QED BY <1>3, <1>4, <4>1 DEF IteratorStates, StartOfChunk
      <3> QED BY <3>1
    <2>3. place' \in [DOMAIN chunk' -> Places']
      <3>1. ASSUME NEW d \in DOMAIN chunk' PROVE place'[d] \in Places'
        <4>1. CASE d = f
          <5>1. t \in 1..Len(log') /\ 0 \in Nat /\ <<0>> \in Seq(Nat)
            BY <1>1, <1>7 DEF t
          <5>2. place'[d] = [seg |-> t, before |-> 0, offs |-> <<0>>]
            BY <1>6, <4>1
          <5> QED BY <5>1, <5>2 DEF Places
        <4>2. CASE d \in DOMAIN chunk
          BY <1>1, <1>6, <1>7, <4>2 DEF Places, t
        <4> QED BY <1>4, <4>1, <4>2
      <3> QED BY <1>6, <3>1
    <2>4. ~Running'
      BY DEF Idle, Running
    <2> QED BY <1>1, <1>3, <1>4, <1>7, <2>1, <2>2, <2>3, <2>4 DEF IInv, TypeOK, Calls, Segments
  <1>11. ChunksHoldLog'
    <2>1. ASSUME NEW d \in DOMAIN chunk', d = f
          PROVE  LET nb == chunk'[d].nb  offs == place'[d].offs
                 IN  /\ Len(offs) = nb + 1 /\ offs[1] = 0
                     /\ \A j, k \in 1..(nb + 1) : j < k => offs[j] < offs[k]
                     /\ nb <= offs[nb + 1] /\ offs[nb + 1] <= chunk'[d].bufsize
                     /\ place'[d].before + nb <= Len(log'[place'[d].seg].events)
                     /\ \A j \in 1..nb : Holds(d, j)'
      <3>1. /\ chunk'[d].nb = 0 /\ chunk'[d].bufsize \in Nat
            /\ place'[d].offs = <<0>> /\ place'[d].before = 0
            /\ Len(log'[place'[d].seg].events) = 0
        BY <1>2, <1>4, <1>6, <1>7, <2>1, SizesAssumption
      <3> QED BY <3>1
    <2>2. ASSUME NEW d \in DOMAIN chunk
          PROVE  LET nb == chunk'[d].nb  offs == place'[d].offs
                 IN  /\ Len(offs) = nb + 1 /\ offs[1] = 0
                     /\ \A j, k \in 1..(nb + 1) : j < k => offs[j] < offs[k]
                     /\ nb <= offs[nb + 1] /\ offs[nb + 1] <= chunk'[d].bufsize
                     /\ place'[d].before + nb <= Len(log'[place'[d].seg].events)
                     /\ \A j \in 1..nb : Holds(d, j)'
      <3>1. /\ chunk'[d].nb = chunk[d].nb /\ chunk'[d].bufsize = chunk[d].bufsize
            /\ chunk'[d].mem = chunk[d].mem /\ place'[d] = place[d]
            /\ log'[place[d].seg] = log[place[d].seg]
        BY <1>6, <1>7, <1>8, <1>9
      <3>2. ASSUME NEW j \in 1..chunk[d].nb PROVE Holds(d, j)'
        <4>1. Holds(d, j)
          BY DEF IInv, ChunksHoldLog
        <4> QED BY <3>1, <4>1, Zenon DEF Holds
      <3> QED BY <3>1, <3>2 DEF IInv, ChunksHoldLog
    <2> QED BY <1>4, <2>1, <2>2 DEF ChunksHoldLog
  <1>12. OnBoundary'
    <2> SUFFICES ASSUME NEW i \in Iterators, iter'[i].cur \in DOMAIN chunk'
                 PROVE  /\ iter'[i].eventNumber <= chunk'[iter'[i].cur].nb
                        /\ iter'[i].position
                             = place'[iter'[i].cur].offs[iter'[i].eventNumber + 1]
      BY DEF OnBoundary
    <2>1. CASE iter'[i] = StartOfChunk(f)
      BY <1>2, <1>4, <1>6, <2>1 DEF StartOfChunk
    <2>2. CASE iter'[i] = iter[i]
      <3>1. iter[i].cur \in DOMAIN chunk
        BY <1>1, <1>4, <2>2 DEF IInv, TypeOK, IteratorStates
      <3> QED BY <1>6, <1>9, <2>2, <3>1 DEF IInv, OnBoundary
    <2> QED BY <1>3, <2>1, <2>2
  <1>13. /\ \A d \in DOMAIN chunk : LastOfSegment(d)' <=> LastOfSegment(d)
         /\ \A d \in DOMAIN chunk' : d = f => LastOfSegment(d)'
    <2>1. ASSUME NEW d \in DOMAIN chunk PROVE LastOfSegment(d)' <=> LastOfSegment(d)
      BY <1>6, <1>9 DEF LastOfSegment
    <2>2. ASSUME NEW d \in DOMAIN chunk', d = f PROVE LastOfSegment(d)'
      <3>1. chunk'[d].next = firstChunk /\ place'[d].seg = t
        BY <1>2, <1>4, <1>6, <2>2
      <3> QED BY <1>1, <1>6, <1>8, <3>1 DEF LastOfSegment
    <2> QED BY <2>1, <2>2
  <1>14. FullBeforeLast'
    <2> SUFFICES ASSUME NEW d \in DOMAIN chunk'
                 PROVE  IF LastOfSegment(d)'
                        THEN place'[d].before + chunk'[d].nb = Len(log'[place'[d].seg].events)
                        ELSE /\ chunk'[d].cap = chunk'[d].nb
                             /\ place'[chunk'[d].next].before = place'[d].before + chunk'[d].nb
      BY DEF FullBeforeLast
    <2>1. CASE d = f
      BY <1>2, <1>4, <1>6, <1>7, <1>13, <2>1
    <2>2. CASE d \in DOMAIN chunk
      <3>1. /\ chunk'[d].nb = chunk[d].nb /\ chunk'[d].cap = chunk[d].cap
            /\ chunk'[d].next = chunk[d].next /\ place'[d] = place[d]
            /\ log'[place[d].seg] = log[place[d].seg]
        BY <1>6, <1>7, <1>8, <1>9, <2>2
      <3>2. ~LastOfSegment(d) => place'[chunk[d].next] = place[chunk[d].next]
        BY <1>6, <1>9, <2>2 DEF LastOfSegment
      <3> QED BY <1>13, <2>2, <3>1, <3>2, Zenon DEF IInv, FullBeforeLast
    <2> QED BY <1>4, <2>1, <2>2
  <1>15. ChunkCapacity'
    <2> SUFFICES ASSUME NEW d \in DOMAIN chunk'
                 PROVE  /\ chunk'[d].nb <= chunk'[d].cap
                        /\ LastOfSegment(d)' =>
                             IF log'[place'[d].seg].request = UINT32_MAX
                             THEN chunk'[d].cap = UINT32_MAX
                             ELSE place'[d].before + chunk'[d].cap = log'[place'[d].seg].request
      BY DEF ChunkCapacity
    <2>1. CASE d = f
      BY <1>2, <1>4, <1>6, <1>7, <2>1, SizesAssumption
    <2>2. CASE d \in DOMAIN chunk
      <3>1. /\ chunk'[d].nb = chunk[d].nb /\ chunk'[d].cap = chunk[d].cap
            /\ place'[d] = place[d] /\ log'[place[d].seg] = log[place[d].seg]
        BY <1>6, <1>7, <1>8, <1>9, <2>2
      <3> QED BY <1>13, <2>2, <3>1, Zenon DEF IInv, ChunkCapacity
    <2> QED BY <1>4, <2>1, <2>2
  <1>16. WellLinked'
    <2>1. ASSUME NEW d \in DOMAIN chunk'
          PROVE  /\ chunk'[d].next # Null => chunk'[chunk'[d].next].prev = d
                 /\ chunk'[d].prev # Null => chunk'[chunk'[d].prev].next = d
                 /\ chunk'[d].prev = Null <=> d = firstChunk'
      <3>1. CASE d = f
        <4>1. chunk'[d].next = firstChunk /\ chunk'[d].prev = Null
          BY <1>2, <1>4, <3>1
        <4> QED BY <1>1, <1>3, <1>9, <3>1, <4>1
      <3>2. CASE d = firstChunk /\ d \in DOMAIN chunk
        <4>1. chunk[d].prev = Null
          BY <3>2 DEF IInv, WellLinked
        <4>2. chunk'[d].prev = f /\ chunk'[f].next = d /\ d # f
          BY <1>1, <1>2, <1>4, <1>9, <3>2
        <4>3. chunk[d].next # Null => chunk[d].next # firstChunk /\ chunk[chunk[d].next].prev = d
          <5>1. chunk[d].next # Null => chunk[chunk[d].next].prev = d /\ chunk[d].next \in DOMAIN chunk
            BY <1>9, <3>2 DEF IInv, WellLinked
          <5>2. d # Null
            BY <3>2, AddressAssumption DEF IInv, TypeOK
          <5> QED BY <3>2, <4>1, <5>1, <5>2
        <4> QED BY <1>1, <1>3, <1>9, <3>2, <4>2, <4>3
      <3>3. CASE d # firstChunk /\ d \in DOMAIN chunk
        <4>1. /\ chunk[d].next # Null => chunk[chunk[d].next].prev = d
              /\ chunk[d].prev # Null => chunk[chunk[d].prev].next = d
              /\ chunk[d].prev # Null
              /\ firstChunk # Null => chunk[firstChunk].prev = Null
          BY <1>1, <3>3 DEF IInv, WellLinked
        <4>2. d # Null /\ d # f
          BY <1>1, <3>3, AddressAssumption DEF IInv, TypeOK
        <4>3. chunk[d].next # Null => chunk[d].next # firstChunk
          BY <1>9, <3>3, <4>1, <4>2
        <4> QED BY <1>3, <1>9, <3>3, <4>1, <4>2, <4>3
      <3> QED BY <1>4, <3>1, <3>2, <3>3
    <2>2. ASSUME NEW d \in DOMAIN chunk'
          PROVE  IF chunk'[d].next = Null
                 THEN place'[d].seg = 1
                 ELSE \/ place'[chunk'[d].next].seg = place'[d].seg
                      \/ /\ place'[chunk'[d].next].seg = place'[d].seg - 1
                         /\ place'[chunk'[d].next].before = 0
      <3>1. CASE d = f
        <4>1. chunk'[d].next = firstChunk /\ place'[d].seg = t /\ t = Len(log) + 1
          BY <1>2, <1>4, <1>6, <3>1 DEF t
        <4>2. firstChunk = Null => Len(log) = 0
          BY DEF IInv, WellLinked
        <4>3. firstChunk # Null => /\ place'[firstChunk].seg = Len(log)
                                   /\ place'[firstChunk].before = 0
          BY <1>1, <1>6 DEF IInv, WellLinked
        <4> QED BY <1>1, <4>1, <4>2, <4>3
      <3>2. CASE d \in DOMAIN chunk
        <4>1. chunk'[d].next = chunk[d].next /\ place'[d] = place[d]
          BY <1>6, <1>9, <3>2
        <4>2. chunk[d].next # Null => place'[chunk[d].next] = place[chunk[d].next]
          BY <1>6, <1>9, <3>2
        <4>3. IF chunk[d].next = Null
              THEN place[d].seg = 1
              ELSE \/ place[chunk[d].next].seg = place[d].seg
                   \/ /\ place[chunk[d].next].seg = place[d].seg - 1
                      /\ place[chunk[d].next].before = 0
          BY <3>2 DEF IInv, WellLinked
        <4> QED BY <4>1, <4>2, <4>3
      <3> QED BY <1>4, <3>1, <3>2
    <2>3. ASSUME NEW c \in DOMAIN chunk', NEW d \in DOMAIN chunk',
                 place'[c].seg = place'[d].seg, LastOfSegment(c)', LastOfSegment(d)'
          PROVE  c = d
      <3>1. CASE c \in DOMAIN chunk /\ d \in DOMAIN chunk
        BY <1>6, <1>13, <2>3, <3>1 DEF IInv, WellLinked
      <3>2. CASE c = f \/ d = f
        BY <1>4, <1>6, <1>8, <2>3, <3>2
      <3> QED BY <1>4, <3>1, <3>2
    <2>4. /\ firstChunk' # Null /\ DOMAIN chunk' # {}
          /\ place'[firstChunk'].seg = Len(log') /\ place'[firstChunk'].before = 0
      BY <1>1, <1>3, <1>4, <1>6, <1>7
    <2> QED BY <2>1, <2>2, <2>3, <2>4 DEF WellLinked
  <1> QED BY <1>10, <1>11, <1>12, <1>14, <1>15, <1>16 DEF IInv

\* The chunk that a store leaves full, and the one it goes on with.
LEMMA SplitChunks ==
  ASSUME IInv, Split
  PROVE  \E size \in BufSizes : \E mem :
           LET c == Me.cur
               cap2 == RemainingCapacity(Cur.cap, Cur.nb)
           IN  /\ mem = Overwrite(Cur.mem, Me.position, Cur.bufsize) /\ IsMem(mem)
               /\ cap2 \in 0..UINT32_MAX
               /\ DOMAIN chunk' = DOMAIN chunk \cup {Fresh}
               /\ chunk' = [d \in DOMAIN chunk' |-> chunk'[d]]
               /\ chunk'[Fresh] = [bufsize |-> size, cap |-> cap2, nb |-> 0,
                                   next |-> Cur.next, prev |-> c, mem |-> EmptyMap]
               /\ chunk'[c] = [bufsize |-> Cur.bufsize, cap |-> Cur.nb, nb |-> Cur.nb,
                               next |-> Fresh, prev |-> Cur.prev, mem |-> mem]
               /\ \A d \in DOMAIN chunk : d # c => chunk'[d] =
                     [bufsize |-> chunk[d].bufsize, cap |-> chunk[d].cap, nb |-> chunk[d].nb,
                      next |-> chunk[d].next,
                      prev |-> IF d = Cur.next THEN Fresh ELSE chunk[d].prev,
                      mem |-> chunk[d].mem]
  <1> DEFINE c == Me.cur
             f == Fresh
             cap2 == RemainingCapacity(Cur.cap, Cur.nb)
             mem == Overwrite(Cur.mem, Me.position, Cur.bufsize)
             full == Closed(Torn(Cur), f)
             cs == [chunk EXCEPT ![c] = full]
  <1>1. /\ c \in DOMAIN chunk /\ Cur = chunk[c] /\ IsChunk(Cur)
        /\ Cur.nb \in Nat /\ Cur.cap \in 0..UINT32_MAX /\ Cur.nb < Cur.cap
        /\ LastOfSegment(c) /\ Me.position \in Nat /\ Cur.bufsize \in Nat
    BY StoresAtEnd, RunningCall, SizesAssumption DEF Split, OutOfBound, Cur, IsChunk
  <1>2. PICK size \in BufSizes : chunk' = Link(cs, f, HistoryChunk(cap2, c, Cur.next, size))
    BY DEF Split
  <1>3. f \notin DOMAIN chunk
    BY FreshIsFree DEF Split
  <1>4. full = [bufsize |-> Cur.bufsize, cap |-> Cur.nb, nb |-> Cur.nb,
                next |-> f, prev |-> Cur.prev, mem |-> mem]
    <2> HIDE DEF f, c, mem
    <2>1. Torn(Cur) = [bufsize |-> Cur.bufsize, cap |-> Cur.cap, nb |-> Cur.nb,
                       next |-> Cur.next, prev |-> Cur.prev, mem |-> mem]
      BY <1>1 DEF Torn, IsChunk, mem
    <2> DEFINE torn == Torn(Cur)
    <2>2. torn.nb = Cur.nb
      BY <2>1
    <2> DEFINE half == [torn EXCEPT !.cap = torn.nb]
    <2>3. half = [bufsize |-> Cur.bufsize, cap |-> Cur.nb, nb |-> Cur.nb,
                  next |-> Cur.next, prev |-> Cur.prev, mem |-> mem]
      BY <2>1, <2>2
    <2>4. full = [half EXCEPT !.next = f]
      BY DEF Closed
    <2> HIDE DEF half, full
    <2> QED BY <2>3, <2>4
  <1>5. IsMem(mem)
    BY <1>1, OverwriteType DEF IsChunk
  <1>6. cap2 \in 0..UINT32_MAX
    BY <1>1, SizesAssumption DEF RemainingCapacity
  <1>7. DOMAIN cs = DOMAIN chunk /\ cs[c] = full /\ \A d \in DOMAIN chunk : d # c => cs[d] = chunk[d]
    <2> HIDE DEF full, c
    <2> QED BY <1>1 DEF IInv, TypeOK
  <1> DEFINE new == HistoryChunk(cap2, c, Cur.next, size)
  <1>8. new = [bufsize |-> size, cap |-> cap2, nb |-> 0, next |-> Cur.next, prev |-> c,
               mem |-> EmptyMap]
    BY DEF HistoryChunk
  <1> HIDE DEF c, f, cap2, mem, full, cs, new
  <1>9. /\ DOMAIN chunk' = DOMAIN chunk \cup {f}
        /\ chunk' = [d \in DOMAIN chunk' |-> chunk'[d]]
        /\ chunk'[f] = new
        /\ \A d \in DOMAIN chunk :
             chunk'[d] = IF d = new.next THEN [cs[d] EXCEPT !.prev = f] ELSE cs[d]
    BY <1>2, <1>3, <1>7 DEF Link, new
  <1>10. Cur.next # c /\ new.next = Cur.next
    BY <1>1, <1>8, AddressAssumption DEF LastOfSegment, IInv, TypeOK
  <1>11. chunk'[c] = full
    BY <1>1, <1>7, <1>9, <1>10
  <1>12. ASSUME NEW d \in DOMAIN chunk, d # c
         PROVE  chunk'[d] =
                  [bufsize |-> chunk[d].bufsize, cap |-> chunk[d].cap, nb |-> chunk[d].nb,
                   next |-> chunk[d].next, prev |-> IF d = Cur.next THEN f ELSE chunk[d].prev,
                   mem |-> chunk[d].mem]
    <2>1. IsChunk(chunk[d]) /\ cs[d] = chunk[d]
      BY <1>7, <1>12 DEF IInv, TypeOK
    <2>2. CASE d = Cur.next
      <3>1. chunk'[d] = [chunk[d] EXCEPT !.prev = f]
        BY <1>9, <1>10, <2>1, <2>2
      <3> QED BY <2>1, <2>2, <3>1, SetPrev, Zenon
    <2>3. CASE d # Cur.next
      <3>1. chunk'[d] = chunk[d]
        BY <1>9, <1>10, <2>1, <2>3
      <3> QED BY <2>1, <2>3, <3>1, Zenon DEF IsChunk
    <2> QED BY <2>2, <2>3
  <1> QED BY <1>4, <1>5, <1>6, <1>8, <1>9, <1>11, <1>12, Zenon DEF c, f, cap2, mem

LEMMA SplitKeeps == ASSUME IInv, Split PROVE IInv'
  <1> DEFINE c == Me.cur
             f == Fresh
             nb == chunk[c].nb
             s == place[c].seg
             b == place[c].before
             cap2 == RemainingCapacity(Cur.cap, Cur.nb)
  <1>1. /\ f \in Chunks /\ f \notin DOMAIN chunk /\ f # Null /\ f # Unmade
        /\ Null \notin DOMAIN chunk /\ c \in DOMAIN chunk /\ c # f
        /\ Cur = chunk[c] /\ IsChunk(chunk[c]) /\ LastOfSegment(c) /\ nb < chunk[c].cap
        /\ nb \in Nat /\ chunk[c].cap \in 0..UINT32_MAX
        /\ Me.position \in Nat /\ Me.position = place[c].offs[nb + 1]
        /\ call.it \in Iterators /\ call.op = "store" /\ Running
        /\ DOMAIN place = DOMAIN chunk
    <2>1. Storing /\ Room
      BY DEF Split, OutOfBound
    <2> QED BY <2>1, FreshIsFree, AddressAssumption, StoresAtEnd, RunningCall
        DEF Cur, IInv, TypeOK, Storing, Reading, OnChunk
  <1>2. /\ iter' = [iter EXCEPT ![call.it] = StartOfChunk(f)]
        /\ call' = [call EXCEPT !.fresh = TRUE]
        /\ place' = Placed(f, s, b + nb)
        /\ UNCHANGED <<firstChunk, log>>
    BY <1>1 DEF Split
  <1>3. PICK size, mem :
          /\ size \in BufSizes
          /\ mem = Overwrite(chunk[c].mem, Me.position, chunk[c].bufsize) /\ IsMem(mem)
          /\ cap2 \in 0..UINT32_MAX
          /\ DOMAIN chunk' = DOMAIN chunk \cup {f}
          /\ chunk' = [d \in DOMAIN chunk' |-> chunk'[d]]
          /\ chunk'[f] = [bufsize |-> size, cap |-> cap2, nb |-> 0,
                          next |-> chunk[c].next, prev |-> c, mem |-> EmptyMap]
          /\ chunk'[c] = [bufsize |-> chunk[c].bufsize, cap |-> nb, nb |-> nb,
                          next |-> f, prev |-> chunk[c].prev, mem |-> mem]
          /\ \A d \in DOMAIN chunk : d # c => chunk'[d] =
                [bufsize |-> chunk[d].bufsize, cap |-> chunk[d].cap, nb |-> chunk[d].nb,
                 next |-> chunk[d].next,
                 prev |-> IF d = chunk[c].next THEN f ELSE chunk[d].prev,
                 mem |-> chunk[d].mem]
    BY <1>1, SplitChunks, Zenon
  <1>4. /\ place[c] \in Places /\ s \in 1..Len(log) /\ b \in Nat /\ b + nb \in Nat
        /\ place' = [d \in DOMAIN chunk' |-> place'[d]]
        /\ place'[f] = [seg |-> s, before |-> b + nb, offs |-> <<0>>]
        /\ \A d \in DOMAIN chunk : place'[d] = place[d] /\ place[d] \in Places
    <2>1. \A d \in DOMAIN chunk : place[d] \in Places
      BY DEF IInv, TypeOK
    <2>2. s \in 1..Len(log) /\ b \in Nat
      BY <1>1, <2>1 DEF Places
    <2>3. DOMAIN place' = DOMAIN chunk \cup {f}
      BY <1>1, <1>2 DEF Placed
    <2> HIDE DEF s, b, nb
    <2> QED BY <1>1, <1>2, <1>3, <2>1, <2>2, <2>3 DEF Placed
  <1> HIDE DEF f, cap2, nb, s, b
  <1>5. \A d \in DOMAIN chunk :
          /\ chunk[d].next \in DOMAIN chunk \cup {Null}
          /\ chunk[d].prev \in DOMAIN chunk \cup {Null}
    BY DEF IInv, TypeOK, IsChunk
  <1>6. /\ chunk'[f].bufsize = size /\ chunk'[f].cap = cap2 /\ chunk'[f].nb = 0
        /\ chunk'[f].next = chunk[c].next /\ chunk'[f].prev = c /\ chunk'[f].mem = EmptyMap
        /\ chunk'[c].bufsize = chunk[c].bufsize /\ chunk'[c].cap = nb /\ chunk'[c].nb = nb
        /\ chunk'[c].next = f /\ chunk'[c].prev = chunk[c].prev /\ chunk'[c].mem = mem
    BY <1>3
  <1>7. \A d \in DOMAIN chunk : d # c =>
          /\ chunk'[d].bufsize = chunk[d].bufsize /\ chunk'[d].cap = chunk[d].cap
          /\ chunk'[d].nb = chunk[d].nb /\ chunk'[d].next = chunk[d].next
          /\ chunk'[d].prev = (IF d = chunk[c].next THEN f ELSE chunk[d].prev)
          /\ chunk'[d].mem = chunk[d].mem
    <2> TAKE d \in DOMAIN chunk
    <2> HAVE d # c
    <2>1. chunk'[d] = [bufsize |-> chunk[d].bufsize, cap |-> chunk[d].cap, nb |-> chunk[d].nb,
                       next |-> chunk[d].next,
                       prev |-> IF d = chunk[c].next THEN f ELSE chunk[d].prev,
                       mem |-> chunk[d].mem]
      BY <1>3, Zenon
    <2> QED BY <2>1
  <1>8. \A d \in DOMAIN chunk : chunk'[d].nb = chunk[d].nb /\ chunk'[d].bufsize = chunk[d].bufsize
    BY <1>6, <1>7 DEF nb
  <1>9. place'[f].seg = s /\ place'[f].before = b + nb /\ place'[f].offs = <<0>> /\ size \in Nat
    <2>1. size \in BufSizes
      BY <1>3
    <2> QED BY <1>4, <2>1, SizesAssumption
  <1>10. TypeOK'
    <2>1. ASSUME NEW d \in DOMAIN chunk' PROVE IsChunk(chunk[d])'
      <3>1. CASE d = f
        <4>1. IsMem(EmptyMap)
          BY DEF IsMem, EmptyMap, Object
        <4>2. chunk[c].next \in DOMAIN chunk' \cup {Null} /\ c \in DOMAIN chunk'
          BY <1>1, <1>3, <1>5
        <4> QED BY <1>3, <3>1, <4>1, <4>2 DEF IsChunk
      <3>2. CASE d = c
        <4>1. f \in DOMAIN chunk' /\ chunk[c].prev \in DOMAIN chunk' \cup {Null}
          BY <1>1, <1>3, <1>5
        <4>2. chunk[c].bufsize \in BufSizes /\ nb \in 0..UINT32_MAX
          BY <1>1, SizesAssumption DEF IsChunk
        <4> QED BY <1>1, <1>3, <3>2, <4>1, <4>2 DEF IsChunk
      <3>3. CASE d \in DOMAIN chunk /\ d # c
        <4>1. IsChunk(chunk[d])
          BY <3>3 DEF IInv, TypeOK
        <4>2. chunk'[d].prev \in DOMAIN chunk' \cup {Null} /\ chunk'[d].next \in DOMAIN chunk' \cup {Null}
          BY <1>3, <1>5, <1>7, <3>3
        <4>3. chunk'[d] = [bufsize |-> chunk[d].bufsize, cap |-> chunk[d].cap,
                           nb |-> chunk[d].nb, next |-> chunk[d].next,
                           prev |-> IF d = chunk[c].next THEN f ELSE chunk[d].prev,
                           mem |-> chunk[d].mem]
          BY <1>3, <3>3, Zenon
        <4> QED BY <1>7, <3>3, <4>1, <4>2, <4>3 DEF IsChunk
      <3> QED BY <1>3, <3>1, <3>2, <3>3
    <2>2. iter' \in [Iterators -> IteratorStates'] /\ iter'[call.it].cur # Unmade
      <3>1. ASSUME NEW i \in Iterators PROVE iter'[i] \in IteratorStates'
        <4>1. iter[i] \in IteratorStates
          BY DEF IInv, TypeOK
        <4> QED BY <1>1, <1>2, <1>3, <4>1 DEF IInv, TypeOK, IteratorStates, StartOfChunk
      <3>2. iter'[call.it].cur = f
        BY <1>1, <1>2 DEF IInv, TypeOK, StartOfChunk
      <3> QED BY <1>1, <1>2, <3>1, <3>2 DEF IInv, TypeOK
    <2>3. place' \in [DOMAIN chunk' -> Places']
      <3>1. ASSUME NEW d \in DOMAIN chunk' PROVE place'[d] \in Places'
        <4>1. CASE d = f
          <5>1. 0 \in Nat /\ <<0>> \in Seq(Nat)
            OBVIOUS
          <5>2. place'[d] = [seg |-> s, before |-> b + nb, offs |-> <<0>>]
            BY <1>4, <4>1
          <5>3. s \in 1..Len(log') /\ b + nb \in Nat
            BY <1>2, <1>4
          <5> QED BY <5>1, <5>2, <5>3 DEF Places
        <4>2. CASE d \in DOMAIN chunk
          BY <1>2, <1>4, <4>2 DEF Places
        <4> QED BY <1>3, <4>1, <4>2
      <3> QED BY <1>4, <3>1
    <2>4. call' \in Calls /\ call'.op = "store" /\ call'.ev \in Events /\ call'.it = call.it
      BY <1>1, <1>2 DEF IInv, TypeOK, Calls
    <2>5. /\ DOMAIN chunk' \subseteq Chunks /\ firstChunk' \in DOMAIN chunk' \cup {Null}
          /\ log' \in Seq(Segments)
      BY <1>1, <1>2, <1>3 DEF IInv, TypeOK
    <2> QED BY <1>3, <2>1, <2>2, <2>3, <2>4, <2>5 DEF TypeOK, Segments
  <1>11. ChunksHoldLog'
    <2>1. ASSUME NEW d \in DOMAIN chunk', d = f
          PROVE  LET n == chunk'[d].nb  offs == place'[d].offs
                 IN  /\ Len(offs) = n + 1 /\ offs[1] = 0
                     /\ \A j, k \in 1..(n + 1) : j < k => offs[j] < offs[k]
                     /\ n <= offs[n + 1] /\ offs[n + 1] <= chunk'[d].bufsize
                     /\ place'[d].before + n <= Len(log'[place'[d].seg].events)
                     /\ \A j \in 1..n : Holds(d, j)'
      <3>1. b + nb <= Len(log[s].events)
        BY <1>1 DEF IInv, ChunksHoldLog, b, s, nb
      <3>2. /\ chunk'[d].nb = 0 /\ chunk'[d].bufsize \in Nat
            /\ place'[d].offs = <<0>> /\ place'[d].before = b + nb /\ b + nb \in Nat
            /\ b + nb <= Len(log'[place'[d].seg].events)
        BY <1>2, <1>4, <1>6, <1>9, <2>1, <3>1, SizesAssumption
      <3> QED BY <3>2
    <2>2. ASSUME NEW d \in DOMAIN chunk
          PROVE  LET n == chunk'[d].nb  offs == place'[d].offs
                 IN  /\ Len(offs) = n + 1 /\ offs[1] = 0
                     /\ \A j, k \in 1..(n + 1) : j < k => offs[j] < offs[k]
                     /\ n <= offs[n + 1] /\ offs[n + 1] <= chunk'[d].bufsize
                     /\ place'[d].before + n <= Len(log'[place'[d].seg].events)
                     /\ \A j \in 1..n : Holds(d, j)'
      <3>1. ASSUME NEW j \in 1..chunk[d].nb PROVE Holds(d, j)'
        <4>1. Holds(d, j)
          BY DEF IInv, ChunksHoldLog
        <4>2. CASE d # c
          <5>1. chunk'[d].mem = chunk[d].mem /\ place'[d] = place[d] /\ log' = log
            BY <1>2, <1>4, <1>7, <4>2
          <5> QED BY <4>1, <5>1, Zenon DEF Holds
        <4>3. CASE d = c
          <5> DEFINE o == place[d].offs[j]
          <5>1. o \in Intact(chunk[c].mem, Me.position, chunk[c].bufsize)
            <6>0. chunk[c].bufsize \in BufSizes
              BY <1>1 DEF IsChunk
            <6>1. chunk[c].bufsize \in Nat
              BY <6>0, BufSizesAreNat
            <6> QED BY <1>1, <4>3, <6>1, EventsAreIntact DEF nb
          <5>2. o \in DOMAIN mem /\ mem[o] = chunk[d].mem[o]
            <6> HIDE DEF o
            <6> QED BY <1>3, <4>3, <5>1 DEF Overwrite
          <5>3. chunk'[d].mem = mem /\ place'[d] = place[d] /\ log' = log
            BY <1>2, <1>4, <1>6, <4>3
          <5> QED BY <4>1, <5>2, <5>3, Zenon DEF Holds
        <4> QED BY <4>2, <4>3
      <3>2. place'[d] = place[d] /\ log' = log
        BY <1>2, <1>4
      <3> QED BY <1>8, <3>1, <3>2 DEF IInv, ChunksHoldLog
    <2> QED BY <1>3, <2>1, <2>2 DEF ChunksHoldLog
  <1>12. OnBoundary'
    <2> SUFFICES ASSUME NEW i \in Iterators, iter'[i].cur \in DOMAIN chunk'
                 PROVE  /\ iter'[i].eventNumber <= chunk'[iter'[i].cur].nb
                        /\ iter'[i].position
                             = place'[iter'[i].cur].offs[iter'[i].eventNumber + 1]
      BY DEF OnBoundary
    <2>1. CASE i = call.it
      <3>1. iter'[i] = StartOfChunk(f)
        BY <1>2, <2>1 DEF IInv, TypeOK
      <3> QED BY <1>6, <1>9, <3>1 DEF StartOfChunk
    <2>2. CASE i # call.it
      <3>1. iter'[i] = iter[i] /\ iter[i].cur \in DOMAIN chunk
        BY <1>1, <1>2, <1>3, <2>2 DEF IInv, TypeOK, IteratorStates
      <3> QED BY <1>4, <1>8, <3>1 DEF IInv, OnBoundary
    <2> QED BY <2>1, <2>2
  \* The new chunk takes over from c as the last one of its segment.
  <1>13. /\ \A d \in DOMAIN chunk : d # c => (LastOfSegment(d)' <=> LastOfSegment(d))
         /\ \A d \in DOMAIN chunk : d = c => ~LastOfSegment(d)'
         /\ \A d \in DOMAIN chunk' : d = f => LastOfSegment(d)'
    <2>1. ASSUME NEW d \in DOMAIN chunk, d # c PROVE LastOfSegment(d)' <=> LastOfSegment(d)
      BY <1>4, <1>5, <1>7, <2>1 DEF LastOfSegment
    <2>2. ASSUME NEW d \in DOMAIN chunk, d = c PROVE ~LastOfSegment(d)'
      <3>1. chunk'[d].next = f /\ place'[d].seg = s /\ place'[f].seg = s
        BY <1>4, <1>6, <1>9, <2>2 DEF s
      <3> QED BY <1>1, <3>1 DEF LastOfSegment
    <2>3. ASSUME NEW d \in DOMAIN chunk', d = f PROVE LastOfSegment(d)'
      <3>1. chunk'[d].next = chunk[c].next /\ place'[d].seg = s
        BY <1>6, <1>9, <2>3
      <3>2. chunk[c].next = Null \/ place[chunk[c].next].seg # s
        BY <1>1 DEF LastOfSegment, s
      <3>3. chunk[c].next # Null => place'[chunk[c].next] = place[chunk[c].next]
        BY <1>1, <1>4, <1>5
      <3> QED BY <3>1, <3>2, <3>3 DEF LastOfSegment
    <2> QED BY <2>1, <2>2, <2>3
  <1>14. b + nb = Len(log[s].events)
    BY <1>1 DEF IInv, FullBeforeLast, b, nb, s
  <1>15. FullBeforeLast'
    <2> SUFFICES ASSUME NEW d \in DOMAIN chunk'
                 PROVE  IF LastOfSegment(d)'
                        THEN place'[d].before + chunk'[d].nb = Len(log'[place'[d].seg].events)
                        ELSE /\ chunk'[d].cap = chunk'[d].nb
                             /\ place'[chunk'[d].next].before = place'[d].before + chunk'[d].nb
      BY DEF FullBeforeLast
    <2>1. CASE d = f
      <3>1. (b + nb) + 0 = b + nb
        BY <1>4
      <3> QED BY <1>2, <1>6, <1>9, <1>13, <1>14, <2>1, <3>1
    <2>2. CASE d = c
      <3>1. place'[d].before = b
        BY <1>1, <1>4, <2>2 DEF b
      <3> QED BY <1>1, <1>6, <1>9, <1>13, <2>2, <3>1
    <2>3. CASE d \in DOMAIN chunk /\ d # c
      <3>1. /\ chunk'[d].nb = chunk[d].nb /\ chunk'[d].cap = chunk[d].cap
            /\ chunk'[d].next = chunk[d].next /\ place'[d] = place[d] /\ log' = log
        BY <1>2, <1>4, <1>7, <2>3
      <3>2. ~LastOfSegment(d) => place'[chunk[d].next] = place[chunk[d].next]
        BY <1>4, <1>5, <2>3 DEF LastOfSegment
      <3> QED BY <1>13, <2>3, <3>1, <3>2, Zenon DEF IInv, FullBeforeLast
    <2> QED BY <1>3, <2>1, <2>2, <2>3
  <1>16. ChunkCapacity'
    <2> SUFFICES ASSUME NEW d \in DOMAIN chunk'
                 PROVE  /\ chunk'[d].nb <= chunk'[d].cap
                        /\ LastOfSegment(d)' =>
                             IF log'[place'[d].seg].request = UINT32_MAX
                             THEN chunk'[d].cap = UINT32_MAX
                             ELSE place'[d].before + chunk'[d].cap = log'[place'[d].seg].request
      BY DEF ChunkCapacity
    <2>1. CASE d = f
      <3> DEFINE cap == chunk[c].cap
                 r == log[s].request
      <3>1. cap \in 0..UINT32_MAX /\ nb \in Nat /\ nb < cap /\ b \in Nat
        BY <1>1, <1>4
      <3>2. r \in 0..UINT32_MAX
        <4>1. log[s] \in Segments
          BY <1>4 DEF IInv, TypeOK
        <4> QED BY <4>1 DEF Segments
      <3>3. IF r = UINT32_MAX THEN cap = UINT32_MAX ELSE b + cap = r
        BY <1>1, Zenon DEF IInv, ChunkCapacity, s, b
      <3>4. cap2 = IF cap = UINT32_MAX THEN UINT32_MAX ELSE cap - nb
        BY <1>1 DEF cap2, RemainingCapacity, nb
      <3> HIDE DEF cap, r
      <3>5. /\ 0 <= cap2
            /\ IF r = UINT32_MAX THEN cap2 = UINT32_MAX ELSE (b + nb) + cap2 = r
        BY <3>1, <3>2, <3>3, <3>4, SizesAssumption
      <3> QED BY <1>2, <1>6, <1>9, <2>1, <3>5 DEF r
    <2>2. CASE d = c
      BY <1>1, <1>6, <1>13, <2>2
    <2>3. CASE d \in DOMAIN chunk /\ d # c
      <3>1. /\ chunk'[d].nb = chunk[d].nb /\ chunk'[d].cap = chunk[d].cap
            /\ place'[d] = place[d] /\ log' = log
        BY <1>2, <1>4, <1>7, <2>3
      <3> QED BY <1>13, <2>3, <3>1, Zenon DEF IInv, ChunkCapacity
    <2> QED BY <1>3, <2>1, <2>2, <2>3
  <1>17. WellLinked'
    <2>0. /\ \A d \in DOMAIN chunk : /\ chunk[d].next # Null => chunk[chunk[d].next].prev = d
                                     /\ chunk[d].prev # Null => chunk[chunk[d].prev].next = d
                                     /\ chunk[d].prev = Null <=> d = firstChunk
          /\ chunk[c].next # c
      <3>1. chunk[c].next # c
        BY <1>1 DEF LastOfSegment
      <3> QED BY <3>1 DEF IInv, WellLinked
    <2>1. ASSUME NEW d \in DOMAIN chunk'
          PROVE  /\ chunk'[d].next # Null => chunk'[chunk'[d].next].prev = d
                 /\ chunk'[d].prev # Null => chunk'[chunk'[d].prev].next = d
                 /\ chunk'[d].prev = Null <=> d = firstChunk'
      <3>1. CASE d = f
        <4>1. chunk[c].next # Null => chunk'[chunk[c].next].prev = f
          BY <1>5, <1>1, <1>7, <2>0
        <4>2. f # firstChunk
          BY <1>1 DEF IInv, TypeOK
        <4> QED BY <1>1, <1>2, <1>6, <3>1, <4>1, <4>2
      <3>2. CASE d = c
        <4>1. chunk[c].prev # Null => chunk'[chunk[c].prev].next = c
          BY <1>1, <1>5, <1>7, <2>0
        <4> QED BY <1>1, <1>2, <1>6, <2>0, <3>2, <4>1
      <3>3. CASE d \in DOMAIN chunk /\ d # c
        <4>1. chunk'[d].next = chunk[d].next
          BY <1>7, <3>3
        <4>2. chunk[d].next # Null => chunk'[chunk[d].next].prev = d
          <5> HAVE chunk[d].next # Null
          <5>1. chunk[d].next \in DOMAIN chunk /\ chunk[chunk[d].next].prev = d
            BY <1>5, <2>0, <3>3
          <5>2. chunk[d].next # chunk[c].next
            BY <1>1, <2>0, <3>3, <5>1
          <5> QED BY <1>6, <1>7, <5>1, <5>2
        <4>3. CASE d = chunk[c].next
          BY <1>1, <1>2, <1>6, <1>7, <2>0, <3>3, <4>1, <4>2, <4>3
        <4>4. CASE d # chunk[c].next
          <5>1. chunk'[d].prev = chunk[d].prev
            BY <1>7, <3>3, <4>4
          <5>2. chunk[d].prev # Null => chunk[d].prev \in DOMAIN chunk /\ chunk[d].prev # c
            BY <1>5, <2>0, <3>3, <4>4
          <5> QED BY <1>2, <1>7, <2>0, <3>3, <4>1, <4>2, <5>1, <5>2
        <4> QED BY <4>3, <4>4
      <3> QED BY <1>3, <3>1, <3>2, <3>3
    <2>2. ASSUME NEW d \in DOMAIN chunk'
          PROVE  IF chunk'[d].next = Null
                 THEN place'[d].seg = 1
                 ELSE \/ place'[chunk'[d].next].seg = place'[d].seg
                      \/ /\ place'[chunk'[d].next].seg = place'[d].seg - 1
                         /\ place'[chunk'[d].next].before = 0
      <3>0. ASSUME NEW e \in DOMAIN chunk
            PROVE  /\ IF chunk[e].next = Null
                      THEN place[e].seg = 1
                      ELSE \/ place[chunk[e].next].seg = place[e].seg
                           \/ /\ place[chunk[e].next].seg = place[e].seg - 1
                              /\ place[chunk[e].next].before = 0
                   /\ chunk[e].next # Null => place'[chunk[e].next] = place[chunk[e].next]
        BY <1>4, <1>5 DEF IInv, WellLinked
      <3>1. CASE d = f
        <4>1. chunk'[d].next = chunk[c].next /\ place'[d].seg = s
          BY <1>6, <1>9, <3>1
        <4> QED BY <1>1, <3>0, <4>1 DEF s
      <3>2. CASE d = c
        BY <1>1, <1>4, <1>6, <1>9, <3>2 DEF s
      <3>3. CASE d \in DOMAIN chunk /\ d # c
        <4>1. chunk'[d].next = chunk[d].next /\ place'[d] = place[d]
          BY <1>4, <1>7, <3>3
        <4> QED BY <3>0, <3>3, <4>1
      <3> QED BY <1>3, <3>1, <3>2, <3>3
    <2>3. ASSUME NEW d \in DOMAIN chunk', NEW e \in DOMAIN chunk',
                 place'[d].seg = place'[e].seg, LastOfSegment(d)', LastOfSegment(e)'
          PROVE  d = e
      <3>1. \A x \in DOMAIN chunk : LastOfSegment(x) /\ place[x].seg = s => x = c
        BY <1>1 DEF IInv, WellLinked, s
      <3>2. d # c /\ e # c
        BY <1>1, <1>13, <2>3
      <3>3. CASE d \in DOMAIN chunk /\ e \in DOMAIN chunk
        <4>1. /\ LastOfSegment(d) /\ LastOfSegment(e)
              /\ place[d].seg = place[e].seg
          BY <1>4, <1>13, <2>3, <3>2, <3>3
        <4> QED BY <3>3, <4>1 DEF IInv, WellLinked
      <3>4. CASE d = f \/ e = f
        BY <1>3, <1>4, <1>9, <1>13, <2>3, <3>1, <3>2, <3>4
      <3> QED BY <1>3, <3>3, <3>4
    <2>4. /\ firstChunk' # Null /\ DOMAIN chunk' # {}
          /\ place'[firstChunk'].seg = Len(log') /\ place'[firstChunk'].before = 0
      <3>1. firstChunk \in DOMAIN chunk
        BY <1>1 DEF IInv, TypeOK, WellLinked
      <3> QED BY <1>1, <1>2, <1>3, <1>4, <3>1 DEF IInv, WellLinked
    <2> QED BY <2>1, <2>2, <2>3, <2>4 DEF WellLinked
  <1> QED BY <1>10, <1>11, <1>12, <1>15, <1>16, <1>17 DEF IInv

LEMMA IteratorKeeps == ASSUME IInv, NEW i \in Iterators, Iterator(i) PROVE IInv'
  <1>1. /\ Idle /\ UNCHANGED call /\ iter' = [iter EXCEPT ![i] = StartOfChunk(firstChunk')]
        /\ iter \in [Iterators -> IteratorStates]
    BY DEF Iterator, IInv, TypeOK
  <1>2. CASE firstChunk = Null
    <2>1. Room /\ \E size \in BufSizes : PushFront(UINT32_MAX, size)
      BY <1>2 DEF Iterator
    <2>2. UINT32_MAX \in 0..UINT32_MAX
      BY SizesAssumption
    <2>3. /\ iter' = [k \in Iterators |-> iter'[k]]
          /\ \A k \in Iterators : iter'[k] = iter[k] \/ iter'[k] = StartOfChunk(firstChunk')
      BY <1>1
    <2> QED BY <1>1, <2>1, <2>2, <2>3, PushFrontKeeps
  <1>3. CASE firstChunk # Null
    <2>1. SameHeap
      BY <1>3 DEF Iterator, SameHeap
    <2>2. firstChunk' \in DOMAIN chunk
      BY <1>3, <2>1 DEF IInv, TypeOK, SameHeap
    <2>3. iter' \in [Iterators -> IteratorStates]
      BY <1>1, <2>2, StartOfChunkOnEvent
    <2>4. TypeOK'
      BY <1>1, <2>1, <2>3, SameHeapType DEF IInv, TypeOK, Idle, Running
    <2>5. OnBoundary'
      BY <1>1, <2>1, <2>2, StartOfChunkOnEvent DEF IInv, SameHeap, OnBoundary
    <2> QED BY <2>1, <2>4, <2>5, SameHeapKeeps DEF IInv
  <1> QED BY <1>2, <1>3

LEMMA BackwardKeeps == ASSUME IInv, NEW n \in Requests, Backward(n) PROVE IInv'
  <1>1. Idle /\ UNCHANGED <<iter, call>> /\ n \in 0..UINT32_MAX
    BY SizesAssumption DEF Backward
  <1>2. CASE n = 0
    <2>1. SameHeap
      BY <1>2 DEF Backward, SameHeap
    <2>2. TypeOK' /\ OnBoundary'
      BY <1>1, <2>1, SameHeapType DEF IInv, TypeOK, OnBoundary, SameHeap, Running
    <2> QED BY <2>1, <2>2, SameHeapKeeps DEF IInv
  <1>3. CASE n # 0
    <2>1. Room /\ \E size \in BufSizes : PushFront(n, size)
      BY <1>3 DEF Backward
    <2>2. iter' = [k \in Iterators |-> iter'[k]] /\ \A k \in Iterators : iter'[k] = iter[k]
      BY <1>1 DEF IInv, TypeOK
    <2> QED BY <1>1, <2>1, <2>2, PushFrontKeeps
  <1> QED BY <1>2, <1>3

----------------------------------------------------------------------------
(* The theorems. *)

LEMMA StepKeeps == ASSUME IInv, Step PROVE IInv'
  <1>1. CASE Abort
    <2>1. Return("ABORTED") /\ SameHeap /\ UNCHANGED iter
      BY <1>1 DEF Abort, SameHeap
    <2> QED BY <2>1, ReturnKeeps DEF Codes
  <1>2. CASE NextChunk
    BY <1>2, NextChunkKeeps
  <1>3. CASE EndOfHistory
    BY <1>3, EndOfHistoryKeeps
  <1>4. CASE EndOfData
    <2>1. SameHeap /\ UNCHANGED iter
      BY <1>4 DEF EndOfData, SameHeap
    <2>2. \E code \in GenerateOutcomes : Return(code)
      BY <1>4 DEF EndOfData, GenerateOutcomes
    <2> QED BY <2>1, <2>2, ReturnKeeps DEF Codes, GenerateOutcomes
  <1>5. CASE ReadEvent
    BY <1>5, ReadEventKeeps
  <1>6. CASE NotAtEnd
    <2>1. Return("DATA_STORE_ERROR") /\ SameHeap /\ UNCHANGED iter
      BY <1>6 DEF NotAtEnd, SameHeap
    <2> QED BY <2>1, ReturnKeeps DEF Codes
  <1>7. CASE WriteEvent
    BY <1>7, WriteEventKeeps
  <1>8. CASE Split
    BY <1>8, SplitKeeps
  <1>9. CASE TooBig
    BY <1>9, TooBigKeeps
  <1> QED BY <1>1, <1>2, <1>3, <1>4, <1>5, <1>6, <1>7, <1>8, <1>9 DEF Step

LEMMA InitIsGood == Init => IInv
  <1> SUFFICES ASSUME Init PROVE IInv
    OBVIOUS
  <1>1. DOMAIN chunk = {} /\ log = << >> /\ firstChunk = Null /\ DOMAIN place = {}
        /\ chunk = [c \in {} |-> chunk[c]] /\ place = [c \in {} |-> place[c]]
    BY DEF Init, EmptyMap
  <1>2. iter \in [Iterators -> IteratorStates] /\ \A i \in Iterators : iter[i].cur = Unmade
    BY DEF Init, IteratorStates, StartOfChunk
  <1>3. call \in Calls /\ call.op = "none" /\ ~Running
    BY DEF Init, Calls, Codes, Running
  <1>4. TypeOK
    BY <1>1, <1>2, <1>3 DEF TypeOK
  <1>5. OnBoundary
    BY <1>1 DEF OnBoundary
  <1>6. ChunksHoldLog /\ FullBeforeLast /\ ChunkCapacity
    BY <1>1 DEF ChunksHoldLog, FullBeforeLast, ChunkCapacity
  <1>7. WellLinked
    BY <1>1 DEF WellLinked
  <1> QED BY <1>4, <1>5, <1>6, <1>7 DEF IInv

LEMMA NextKeeps == IInv /\ [Next]_vars => IInv'
  <1> SUFFICES ASSUME IInv, [Next]_vars PROVE IInv'
    OBVIOUS
  <1>1. ASSUME NEW i \in Iterators, Iterator(i) PROVE IInv'
    BY <1>1, IteratorKeeps
  <1>2. ASSUME NEW n \in Requests, Backward(n) PROVE IInv'
    BY <1>2, BackwardKeeps
  <1>3. ASSUME NEW i \in Iterators, NEW op \in {"load", "get"}, Invoke(op, i, None) PROVE IInv'
    BY <1>3, InvokeKeeps
  <1>4. ASSUME NEW i \in Iterators, NEW e \in Events, Invoke("store", i, e) PROVE IInv'
    BY <1>4, InvokeKeeps
  <1>5. CASE Step
    BY <1>5, StepKeeps
  <1>6. CASE UNCHANGED vars
    <2>1. SameHeap /\ UNCHANGED <<iter, call>>
      BY <1>6 DEF vars, SameHeap
    <2>2. TypeOK' /\ OnBoundary'
      BY <2>1, SameHeapType DEF IInv, TypeOK, OnBoundary, SameHeap, Running
    <2> QED BY <2>1, <2>2, SameHeapKeeps DEF IInv
  <1> QED BY <1>1, <1>2, <1>3, <1>4, <1>5, <1>6 DEF Next

\* No step appends to a segment that holds all the events it was made for.
LEMMA SegmentsFitKept == IInv /\ SegmentsFit /\ [Next]_vars => SegmentsFit'
  <1> SUFFICES ASSUME IInv, SegmentsFit, [Next]_vars PROVE SegmentsFit'
    OBVIOUS
  <1>0. log \in Seq(Segments) /\ Len(log) \in Nat
    BY DEF IInv, TypeOK
  <1>1. ASSUME UNCHANGED log PROVE SegmentsFit'
    BY <1>1 DEF SegmentsFit
  <1>2. ASSUME NEW n \in 0..UINT32_MAX, NEW size \in BufSizes, PushFront(n, size)
        PROVE  SegmentsFit'
    <2> DEFINE new == [request |-> n, events |-> << >>]
    <2>1. new \in Segments /\ new.request = n /\ Len(new.events) = 0
      BY DEF Segments
    <2>2. log' = Append(log, new) /\ n >= 0
      BY <1>2 DEF PushFront
    <2> HIDE DEF new
    <2>3. /\ Len(log') = Len(log) + 1 /\ log'[Len(log) + 1] = new
          /\ \A s \in 1..Len(log) : log'[s] = log[s]
      BY <1>0, <2>1, <2>2
    <2> SUFFICES ASSUME NEW s \in 1..Len(log'), log'[s].request # UINT32_MAX
                 PROVE  Len(log'[s].events) <= log'[s].request
      BY DEF SegmentsFit
    <2>4. CASE s = Len(log) + 1
      BY <2>1, <2>2, <2>3, <2>4
    <2>5. CASE s # Len(log) + 1
      <3>1. s \in 1..Len(log)
        BY <1>0, <2>3, <2>5
      <3> QED BY <2>3, <3>1 DEF SegmentsFit
    <2> QED BY <2>4, <2>5
  <1>3. CASE WriteEvent
    <2>1. CASE StoreCode(call.ev, End - Me.position) # "STORED"
      BY <1>1, <1>3, <2>1 DEF WriteEvent
    <2>2. CASE StoreCode(call.ev, End - Me.position) = "STORED"
      <3> DEFINE s == place[Me.cur].seg
      <3>1. /\ Me.cur \in DOMAIN chunk /\ Me.eventNumber = Cur.nb /\ Me.eventNumber < Cur.cap
            /\ LastOfSegment(Me.cur) /\ call.ev \in Events
            /\ Cur.nb \in Nat /\ Cur.cap \in 0..UINT32_MAX /\ Cur = chunk[Me.cur]
        BY <1>3, StoresAtEnd DEF WriteEvent, Cur
      <3>2. place[Me.cur] \in Places
        BY <3>1 DEF IInv, TypeOK
      <3>3. s \in 1..Len(log) /\ place[Me.cur].before \in Nat
        BY <3>2 DEF Places
      <3>4. log[s] \in Segments
        BY <1>0, <3>3
      <3>5. log[s].request \in 0..UINT32_MAX /\ log[s].events \in Seq(Events)
        BY <3>4 DEF Segments
      <3>6. place[Me.cur].before + Cur.nb = Len(log[s].events)
        BY <3>1 DEF IInv, FullBeforeLast
      <3>7. log[s].request # UINT32_MAX => place[Me.cur].before + Cur.cap = log[s].request
        BY <3>1 DEF IInv, ChunkCapacity
      <3>8. log' = [log EXCEPT ![s].events = Append(@, call.ev)]
        BY <1>3, <2>2 DEF WriteEvent
      <3>9. log[s].request # UINT32_MAX => Len(log[s].events) + 1 <= log[s].request
        <4> DEFINE before == place[Me.cur].before
        <4>1. before \in Nat /\ Cur.nb \in Nat /\ Cur.cap \in Nat /\ Cur.nb < Cur.cap
          BY <3>1, <3>3, SizesAssumption
        <4>2. Cur.nb + 1 <= Cur.cap
          BY <4>1
        <4> HIDE DEF before
        <4>3. (before + Cur.nb) + 1 <= before + Cur.cap
          BY <4>1, <4>2
        <4> QED BY <3>6, <3>7, <4>3 DEF before
      <3> HIDE DEF s
      <3>10. /\ Len(log') = Len(log)
             /\ \A r \in 1..Len(log) : r # s => log'[r] = log[r]
             /\ log'[s].request = log[s].request
             /\ log'[s].events = Append(log[s].events, call.ev)
        BY <1>0, <3>3, <3>4, <3>8 DEF Segments
      <3>11. Len(log'[s].events) = Len(log[s].events) + 1
        BY <3>1, <3>5, <3>10
      <3> SUFFICES ASSUME NEW r \in 1..Len(log), log'[r].request # UINT32_MAX
                   PROVE  Len(log'[r].events) <= log'[r].request
        BY <3>10 DEF SegmentsFit
      <3>12. CASE r = s
        BY <3>9, <3>10, <3>11, <3>12
      <3>13. CASE r # s
        BY <3>10, <3>13 DEF SegmentsFit
      <3> QED BY <3>12, <3>13
    <2> QED BY <2>1, <2>2
  <1>4. ASSUME NEW i \in Iterators, Iterator(i) PROVE SegmentsFit'
    <2>1. UINT32_MAX \in 0..UINT32_MAX
      BY SizesAssumption
    <2> QED BY <1>1, <1>2, <1>4, <2>1 DEF Iterator
  <1>5. ASSUME NEW n \in Requests, Backward(n) PROVE SegmentsFit'
    <2>1. n \in 0..UINT32_MAX
      BY SizesAssumption
    <2> QED BY <1>1, <1>2, <1>5, <2>1 DEF Backward
  <1>6. CASE UNCHANGED log
    BY <1>1, <1>6
  <1> QED
    BY <1>3, <1>4, <1>5, <1>6
    DEF Next, Step, vars, Invoke, Abort, NextChunk, EndOfHistory, EndOfData, ReadEvent,
        NotAtEnd, Split, TooBig

\* Between the split and the end of the store, its iterator stays at the
\* beginning of a chunk.
LEMMA FreshAtStartKept == IInv /\ FreshAtStart /\ [Next]_vars => FreshAtStart'
  <1> SUFFICES ASSUME IInv, FreshAtStart, [Next]_vars, Running', call'.fresh
               PROVE  iter'[call'.it].cur \in DOMAIN chunk' /\ iter'[call'.it].position = 0
    BY DEF FreshAtStart
  <1>0. call \in Calls /\ iter \in [Iterators -> IteratorStates] /\ call.it \in Iterators
    BY DEF IInv, TypeOK, Calls
  <1>1. ASSUME NEW i \in Iterators, Iterator(i) PROVE FALSE
    BY <1>1 DEF Iterator, Idle, Running
  <1>2. ASSUME NEW n \in Requests, Backward(n) PROVE FALSE
    BY <1>2 DEF Backward, Idle, Running
  <1>3. ASSUME NEW i \in Iterators, NEW op, NEW e, Invoke(op, i, e) PROVE FALSE
    BY <1>3 DEF Invoke
  <1>4. CASE NextChunk
    <2>1. iter'[call'.it] = StartOfChunk(Cur.next) /\ chunk' = chunk
      BY <1>0, <1>4 DEF NextChunk
    <2>2. Cur.next \in DOMAIN chunk
      BY <1>4, RunningCall DEF NextChunk, IsChunk
    <2> QED BY <2>1, <2>2 DEF StartOfChunk
  <1>5. CASE Split
    <2>1. iter'[call'.it] = StartOfChunk(Fresh)
      BY <1>0, <1>5 DEF Split, Calls
    <2>2. Fresh \in DOMAIN chunk'
      BY <1>5 DEF Split, Link
    <2> QED BY <2>1, <2>2 DEF StartOfChunk
  <1>6. ASSUME NEW code, Return(code), code # "RUNNING" PROVE FALSE
    BY <1>0, <1>6 DEF Return, Running, Calls
  <1>7. CASE UNCHANGED vars
    BY <1>7 DEF vars, FreshAtStart, Running
  <1>8. CASE ReadEvent
    BY <1>0, <1>6, <1>8 DEF ReadEvent, LoadCode, Running, Calls
  <1>9. CASE WriteEvent
    BY <1>6, <1>9 DEF WriteEvent, StoreCode
  <1> QED
    BY <1>1, <1>2, <1>3, <1>4, <1>5, <1>6, <1>7, <1>8, <1>9
    DEF Next, Step, Abort, EndOfHistory, EndOfData, GenerateOutcomes, NotAtEnd, TooBig

\* The inductive invariant holds in every reachable state.
THEOREM Inductive == Spec => []IInv
  BY InitIsGood, NextKeeps, PTL DEF Spec

\* So do the two facts that follow from it.
THEOREM RefinementInvariant == Spec => []RInv
  <1>1. Init => SegmentsFit /\ FreshAtStart
    BY DEF Init, SegmentsFit, FreshAtStart, Running
  <1>2. IInv /\ SegmentsFit /\ FreshAtStart /\ [Next]_vars => SegmentsFit' /\ FreshAtStart'
    BY SegmentsFitKept, FreshAtStartKept
  <1> QED BY <1>1, <1>2, Inductive, PTL DEF Spec, RInv

\* The variables always have the types of TypeOK (history.h:30-141).
THEOREM TypeCorrect == Spec => []TypeOK
  <1>1. IInv => TypeOK
    BY DEF IInv
  <1> QED BY <1>1, Inductive, PTL

\* However many iterators store, and however many chunks they split
\* (storeNextEvent, allocateNextChunk), the chunks of a segment hold the
\* events stored in it, in order, each one where a reader will look for it.
THEOREM ChunksAlwaysHoldLog == Spec => []ChunksHoldLog
  <1>1. IInv => ChunksHoldLog
    BY DEF IInv
  <1> QED BY <1>1, Inductive, PTL

\* No iterator is ever between two events or past the last one.
THEOREM CursorsStayOnEvents == Spec => []CursorOnEvent
  <1>1. RInv => CursorOnEvent
    BY DEF RInv, IInv, CursorOnEvent
  <1> QED BY <1>1, RefinementInvariant, PTL

\* Splitting a chunk (allocateNextChunk) leaves exactly full chunks before the
\* last one of the segment.
THEOREM OnlyLastChunkGrows == Spec => []FullBeforeLast
  <1>1. IInv => FullBeforeLast
    BY DEF IInv
  <1> QED BY <1>1, Inductive, PTL

\* Splitting neither loses nor invents capacity (allocateNextChunk).
THEOREM CapacityAlwaysKept == Spec => []CapacityKept
  <1>1. RInv => CapacityKept
    BY DEF RInv, IInv, CapacityKept
  <1> QED BY <1>1, RefinementInvariant, PTL

\* The list of chunks is always well formed (allocateNextChunk, backward).
THEOREM ListAlwaysWellLinked == Spec => []WellLinked
  <1>1. IInv => WellLinked
    BY DEF IInv
  <1> QED BY <1>1, Inductive, PTL

\* loadNextEvent never takes for an event bytes that are not one.
THEOREM NeverReadsGarbage == Spec => []NoGarbage
  <1>1. Init => NoGarbage
    BY DEF Init, NoGarbage
  <1>2. IInv /\ NoGarbage /\ [Next]_vars => NoGarbage'
    <2> SUFFICES ASSUME IInv, NoGarbage, [Next]_vars PROVE NoGarbage'
      OBVIOUS
    <2>1. CASE ReadEvent
      <3> DEFINE obj == ObjectAt(Cur.mem, Me.position)
      <3>1. OnChunk /\ Me.eventNumber < Cur.nb
        BY <2>1 DEF ReadEvent, InChunk
      <3>2. obj.ev # None
        BY <3>1, ReadsNextEvent
      <3>3. LoadCode(obj) \in {"LOADED", "DATA_LOAD_ERROR"}
        BY <3>2 DEF LoadCode
      <3> HIDE DEF obj
      <3>4. call' = [call EXCEPT !.ev = obj.ev, !.code = LoadCode(obj)]
            \/ call' = [call EXCEPT !.code = LoadCode(obj)]
        BY <2>1 DEF ReadEvent, Return, obj
      <3> QED BY <3>3, <3>4 DEF NoGarbage, IInv, TypeOK, Calls
    <2>2. CASE ~ReadEvent
      <3>1. \/ UNCHANGED call
            \/ call'.code = "RUNNING" \/ call'.code = call.code
            \/ \E code \in Codes \ {"GARBAGE"} : Return(code)
        BY <2>2
        DEF Next, Step, vars, Iterator, Backward, Invoke, Abort, NextChunk, EndOfHistory,
            EndOfData, GenerateOutcomes, NotAtEnd, WriteEvent, StoreCode, Split, TooBig, Codes,
            IInv, TypeOK, Calls
      <3> QED BY <3>1 DEF NoGarbage, Return, IInv, TypeOK, Calls
    <2> QED BY <2>1, <2>2
  <1> QED BY <1>1, <1>2, Inductive, PTL DEF Spec

(* Stored events stay where they are: the places and the log only grow, and *)
(* the invariant says what is in the buffers, before and after each step.   *)

Grows ==
  \A c \in DOMAIN chunk :
    /\ c \in DOMAIN chunk' /\ chunk[c].nb <= chunk'[c].nb
    /\ place'[c].seg = place[c].seg /\ place'[c].before = place[c].before
    /\ \A j \in 1..(chunk[c].nb + 1) : place'[c].offs[j] = place[c].offs[j]
    /\ \A k \in 1..Len(log[place[c].seg].events) :
         log'[place[c].seg].events[k] = log[place[c].seg].events[k]

LEMMA PushFrontGrows ==
  ASSUME IInv, Room, NEW n \in 0..UINT32_MAX, NEW size \in BufSizes, PushFront(n, size)
  PROVE  Grows
  <1> DEFINE f == Fresh
             new == HistoryChunk(n, Null, firstChunk, size)
  <1> HIDE DEF new
  <1>1. chunk' = Link(chunk, f, new) /\ place' = Placed(f, Len(log) + 1, 0)
        /\ log' = Append(log, [request |-> n, events |-> << >>])
    BY DEF PushFront, new
  <1>2. f \notin DOMAIN chunk /\ DOMAIN place = DOMAIN chunk /\ log \in Seq(Segments)
    BY FreshIsFree DEF IInv, TypeOK
  <1> HIDE DEF f
  <1> SUFFICES ASSUME NEW c \in DOMAIN chunk
               PROVE  /\ c \in DOMAIN chunk' /\ chunk[c].nb <= chunk'[c].nb
                      /\ place'[c] = place[c]
                      /\ log'[place[c].seg] = log[place[c].seg]
    BY Zenon DEF Grows
  <1>3. IsChunk(chunk[c]) /\ place[c] \in Places
    BY DEF IInv, TypeOK
  <1>4. c \in DOMAIN chunk' /\ chunk'[c].nb = chunk[c].nb
    BY <1>1, <1>2, <1>3 DEF Link, IsChunk
  <1>5. place'[c] = place[c]
    BY <1>1, <1>2 DEF Placed
  <1>6. log'[place[c].seg] = log[place[c].seg]
    <2>1. [request |-> n, events |-> << >>] \in Segments
      BY DEF Segments
    <2>2. place[c].seg \in 1..Len(log)
      BY <1>3 DEF Places
    <2> QED BY <1>1, <1>2, <2>1, <2>2, AppendFacts
  <1>7. chunk[c].nb <= chunk[c].nb
    BY <1>3 DEF IsChunk
  <1> QED BY <1>4, <1>5, <1>6, <1>7

LEMMA SplitGrows == ASSUME IInv, Split PROVE Grows
  <1>1. /\ DOMAIN chunk' = DOMAIN chunk \cup {Fresh}
        /\ chunk'[Me.cur].nb = Cur.nb
        /\ \A d \in DOMAIN chunk : d # Me.cur => chunk'[d].nb = chunk[d].nb
    <2>1. PICK size, mem :
             /\ DOMAIN chunk' = DOMAIN chunk \cup {Fresh}
             /\ chunk'[Me.cur] = [bufsize |-> Cur.bufsize, cap |-> Cur.nb, nb |-> Cur.nb,
                                  next |-> Fresh, prev |-> Cur.prev, mem |-> mem]
             /\ \A d \in DOMAIN chunk : d # Me.cur => chunk'[d] =
                   [bufsize |-> chunk[d].bufsize, cap |-> chunk[d].cap, nb |-> chunk[d].nb,
                    next |-> chunk[d].next,
                    prev |-> IF d = Cur.next THEN Fresh ELSE chunk[d].prev,
                    mem |-> chunk[d].mem]
      BY SplitChunks, Zenon
    <2>2. \A d \in DOMAIN chunk : d # Me.cur => chunk'[d].nb = chunk[d].nb
      BY <2>1
    <2> QED BY <2>1, <2>2
  <1>2. Fresh \notin DOMAIN chunk /\ DOMAIN place = DOMAIN chunk
    BY FreshIsFree DEF Split, IInv, TypeOK
  <1>3. \A d \in DOMAIN chunk : place'[d] = place[d]
    BY <1>2 DEF Split, Placed
  <1>4. log' = log
    BY DEF Split
  <1>5. \A d \in DOMAIN chunk : chunk'[d].nb = chunk[d].nb /\ chunk[d].nb \in Nat
    BY <1>1 DEF Cur, IInv, TypeOK, IsChunk
  <1>6. \A d \in DOMAIN chunk : chunk[d].nb <= chunk'[d].nb
    BY <1>5
  <1> QED BY <1>1, <1>3, <1>4, <1>6, Zenon DEF Grows

LEMMA WriteEventGrows == ASSUME IInv, WriteEvent PROVE Grows
  <1> DEFINE c == Me.cur
             s == place[c].seg
  <1>1. /\ c \in DOMAIN chunk /\ IsChunk(Cur) /\ Cur = chunk[c] /\ End \in Nat
        /\ call.ev \in Events
    BY StoresAtEnd, RunningCall DEF WriteEvent, Cur
  <1>2. /\ place[c] \in Places /\ s \in 1..Len(log) /\ log[s] \in Segments
        /\ \A d \in DOMAIN chunk : place[d].seg \in 1..Len(log)
    <2>1. \A d \in DOMAIN chunk : place[d] \in Places
      BY DEF IInv, TypeOK
    <2> QED BY <1>1, <2>1 DEF Places, IInv, TypeOK
  <1>3. \A d \in DOMAIN chunk : chunk[d].nb \in Nat
    BY DEF IInv, TypeOK, IsChunk
  <1>4. CASE StoreCode(call.ev, End - Me.position) = "STORED"
    <2>1. /\ chunk' = [chunk EXCEPT ![c] = Grown(Cur)]
          /\ place' = [place EXCEPT ![c].offs = Append(place[c].offs, End)]
          /\ log' = [log EXCEPT ![s].events = Append(log[s].events, call.ev)]
      BY <1>4 DEF WriteEvent
    <2>2. DOMAIN chunk' = DOMAIN chunk /\ Grown(Cur).nb = Cur.nb + 1
      BY <1>1, <2>1 DEF IInv, TypeOK, Grown, IsChunk
    <2>3. \A d \in DOMAIN chunk : chunk[d].nb <= chunk'[d].nb
      <3> HIDE DEF c
      <3> QED BY <1>1, <1>3, <2>1, <2>2 DEF IInv, TypeOK
    <2>4. \A d \in DOMAIN chunk : /\ place'[d].seg = place[d].seg
                                  /\ place'[d].before = place[d].before
                                  /\ d # c => place'[d] = place[d]
      BY <1>2, <2>1 DEF IInv, TypeOK, Places
    <2>5. place'[c].offs = Append(place[c].offs, End)
      BY <1>1, <1>2, <2>1 DEF IInv, TypeOK, Places
    <2>6. \A j \in 1..(chunk[c].nb + 1) : place'[c].offs[j] = place[c].offs[j]
      <3>1. place[c].offs \in Seq(Nat) /\ Len(place[c].offs) = chunk[c].nb + 1
        BY <1>1, <1>2 DEF Places, IInv, ChunksHoldLog
      <3> QED BY <1>1, <2>5, <3>1, AppendFacts
    <2>7. \A t \in 1..Len(log) : \A k \in 1..Len(log[t].events) :
             log'[t].events[k] = log[t].events[k]
      <3> TAKE t \in 1..Len(log)
      <3>1. CASE t # s
        BY <2>1, <3>1 DEF IInv, TypeOK
      <3>2. CASE t = s
        <4> HIDE DEF s
        <4>8. log \in Seq(Segments) /\ s \in 1..Len(log) /\ log[s] \in Segments
          BY <1>2 DEF IInv, TypeOK
        <4>7. log' = [log EXCEPT ![s].events = Append(log[s].events, call.ev)]
          BY <2>1
        <4> DEFINE g == [log[s] EXCEPT !.events = Append(log[s].events, call.ev)]
        <4>6. log' = [log EXCEPT ![s] = g]
          BY <4>7
        <4> HIDE DEF g
        <4>9. log'[s] = g
          BY <4>6, <4>8
        <4>1. log'[s].events = Append(log[s].events, call.ev)
          BY <4>8, <4>9 DEF Segments, g
        <4>2. log[s].events \in Seq(Events)
          BY <4>8 DEF Segments
        <4>3. \A k \in 1..Len(log[s].events) :
                 Append(log[s].events, call.ev)[k] = log[s].events[k]
          BY <1>1, <4>2, AppendFacts
        <4> QED BY <3>2, <4>1, <4>3
      <3> QED BY <3>1, <3>2
    <2> HIDE DEF c
    <2>8. ASSUME NEW d \in DOMAIN chunk, NEW j \in 1..(chunk[d].nb + 1)
          PROVE  place'[d].offs[j] = place[d].offs[j]
      BY <2>4, <2>6
    <2> QED BY <1>2, <2>2, <2>3, <2>4, <2>7, <2>8, Zenon DEF Grows
  <1>5. CASE StoreCode(call.ev, End - Me.position) # "STORED"
    <2>1. /\ chunk' = [chunk EXCEPT ![c].mem = Overwrite(@, Me.position, End)]
          /\ UNCHANGED <<place, log>>
      BY <1>5 DEF WriteEvent
    <2>2. /\ DOMAIN chunk' = DOMAIN chunk
          /\ \A d \in DOMAIN chunk : chunk'[d].nb = chunk[d].nb
      BY <1>1, <2>1 DEF IInv, TypeOK, IsChunk
    <2>3. \A d \in DOMAIN chunk : chunk[d].nb <= chunk'[d].nb
      BY <1>3, <2>2
    <2> QED BY <2>1, <2>2, <2>3, Zenon DEF Grows
  <1> QED BY <1>4, <1>5

LEMMA NextGrows == ASSUME IInv, [Next]_vars PROVE Grows
  <1>0. \A d \in DOMAIN chunk : chunk[d].nb <= chunk[d].nb
    BY DEF IInv, TypeOK, IsChunk
  <1>1. CASE SameHeap
    BY <1>0, <1>1, Zenon DEF SameHeap, Grows
  <1>2. CASE TooBig
    <2>1. Me.cur \in DOMAIN chunk /\ IsChunk(Cur) /\ Cur = chunk[Me.cur]
      BY <1>2, RunningCall DEF TooBig, OutOfBound, Storing, InChunk, Cur
    <2>2. chunk' = [chunk EXCEPT ![Me.cur] = Torn(Cur)] /\ UNCHANGED <<place, log>>
      BY <1>2 DEF TooBig
    <2>3. DOMAIN chunk' = DOMAIN chunk /\ \A d \in DOMAIN chunk : chunk'[d].nb = chunk[d].nb
      BY <2>1, <2>2 DEF IInv, TypeOK, IsChunk, Torn
    <2> QED BY <1>0, <2>2, <2>3, Zenon DEF Grows
  <1>3. ASSUME NEW n \in 0..UINT32_MAX, NEW size \in BufSizes, Room, PushFront(n, size)
        PROVE  Grows
    BY <1>3, PushFrontGrows
  <1>4. ASSUME NEW i \in Iterators, Iterator(i) PROVE Grows
    BY <1>1, <1>3, <1>4, SizesAssumption DEF Iterator, SameHeap
  <1>5. ASSUME NEW n \in Requests, Backward(n) PROVE Grows
    BY <1>1, <1>3, <1>5, SizesAssumption DEF Backward, SameHeap
  <1>6. CASE Split \/ WriteEvent
    BY <1>6, SplitGrows, WriteEventGrows
  <1>7. \/ SameHeap \/ TooBig \/ Split \/ WriteEvent
        \/ \E i \in Iterators : Iterator(i)
        \/ \E n \in Requests : Backward(n)
    BY DEF Next, Step, vars, SameHeap, Invoke, Abort, NextChunk, EndOfHistory, EndOfData,
           ReadEvent, NotAtEnd
  <1> QED BY <1>1, <1>2, <1>4, <1>5, <1>6, <1>7

\* Written events are never moved nor changed, whatever later stores do, the
\* refused and the torn ones included (storeNextEvent).
THEOREM StoredEventsNeverMove == Spec => StoredEventsStay
  <1> DEFINE Stay == \A c \in DOMAIN chunk : \A j \in 1..chunk[c].nb :
               LET o == place[c].offs[j]
               IN  c \in DOMAIN chunk' /\ j <= chunk'[c].nb /\ place'[c].offs[j] = o
                   /\ o \in DOMAIN chunk'[c].mem /\ chunk'[c].mem[o] = chunk[c].mem[o]
  <1>1. IInv /\ IInv' /\ [Next]_vars => Stay
    <2> SUFFICES ASSUME IInv, IInv', [Next]_vars, NEW c \in DOMAIN chunk,
                        NEW j \in 1..chunk[c].nb
                 PROVE  /\ c \in DOMAIN chunk' /\ j <= chunk'[c].nb
                        /\ place'[c].offs[j] = place[c].offs[j]
                        /\ place[c].offs[j] \in DOMAIN chunk'[c].mem
                        /\ chunk'[c].mem[place[c].offs[j]] = chunk[c].mem[place[c].offs[j]]
      BY DEF Stay
    <2> DEFINE nb == chunk[c].nb
               s == place[c].seg
               b == place[c].before
    <2>1. Grows
      BY NextGrows
    <2>2. c \in DOMAIN chunk' /\ nb \in Nat /\ chunk'[c].nb \in Nat /\ nb <= chunk'[c].nb
      BY <2>1 DEF Grows, IInv, TypeOK, IsChunk
    <2>3. Holds(c, j)
      BY DEF IInv, ChunksHoldLog
    <2>4. j \in 1..chunk'[c].nb /\ j \in 1..(nb + 1) /\ j + 1 \in 1..(nb + 1)
      BY <2>2
    <2>5. Holds(c, j)'
      BY <2>2, <2>4 DEF IInv, ChunksHoldLog
    <2>6. b + j \in 1..Len(log[s].events)
      <3> DEFINE l == Len(log[s].events)
      <3>1. place[c] \in Places /\ b + nb <= l
        BY DEF IInv, TypeOK, ChunksHoldLog
      <3>2. b \in Nat /\ log[s] \in Segments
        BY <3>1 DEF IInv, TypeOK, Places
      <3>3. l \in Nat
        BY <3>2 DEF Segments
      <3> HIDE DEF nb, b, l
      <3>4. b + j \in 1..l
        BY <2>2, <2>4, <3>1, <3>2, <3>3
      <3> QED BY <3>4 DEF l
    <2>7. /\ place'[c].seg = s /\ place'[c].before = b
          /\ place'[c].offs[j] = place[c].offs[j]
          /\ place'[c].offs[j + 1] = place[c].offs[j + 1]
          /\ log'[s].events[b + j] = log[s].events[b + j]
      <3> HIDE DEF b
      <3> QED BY <2>1, <2>4, <2>6, Zenon DEF Grows, b
    <2>8. j <= chunk'[c].nb
      BY <2>4
    <2> QED BY <2>2, <2>3, <2>5, <2>7, <2>8, Zenon DEF Holds
  <1>2. IInv /\ IInv' /\ [Next]_vars => [Stay]_vars
    BY <1>1
  <1> QED BY <1>2, Inductive, PTL DEF Spec, StoredEventsStay

----------------------------------------------------------------------------
(* The chunks are transparent: every step of History is a step of          *)
(* SegmentedLog, or changes nothing that its user can see.                 *)

AbstractCall == [op |-> call.op, it |-> call.it, ev |-> call.ev, code |-> call.code]
AbstractCursors == [i \in Iterators |-> AbstractCursor(i)]

Unseen == UNCHANGED <<log, AbstractCursors, AbstractCall>>

----------------------------------------------------------------------------
(* The mapping of one iterator. *)

LEMMA CursorUnmade ==
  ASSUME NEW i \in Iterators, iter[i].cur = Unmade
  PROVE  AbstractCursor(i) = [at |-> "unmade", seg |-> 0, off |-> 0]
  BY AddressAssumption DEF AbstractCursor

LEMMA CursorClosed ==
  ASSUME NEW i \in Iterators, iter[i].cur = Null
  PROVE  AbstractCursor(i) = [at |-> "closed", seg |-> 0, off |-> 0]
  BY AddressAssumption DEF AbstractCursor

LEMMA CursorOpen ==
  ASSUME TypeOK, NEW i \in Iterators, iter[i].cur \in DOMAIN chunk
  PROVE  AbstractCursor(i) = [at |-> "open", seg |-> place[iter[i].cur].seg,
                              off |-> place[iter[i].cur].before + iter[i].eventNumber]
  BY AddressAssumption DEF AbstractCursor, TypeOK

LEMMA CursorKinds ==
  ASSUME TypeOK, NEW i \in Iterators
  PROVE  \/ iter[i].cur = Unmade \/ iter[i].cur = Null \/ iter[i].cur \in DOMAIN chunk
  BY DEF TypeOK, IteratorStates

\* New places do not move the iterators of the old ones.
LEMMA CursorStays ==
  ASSUME TypeOK, TypeOK', NEW i \in Iterators, iter'[i] = iter[i],
         \A c \in DOMAIN chunk : /\ c \in DOMAIN chunk'
                                 /\ place'[c].seg = place[c].seg
                                 /\ place'[c].before = place[c].before
  PROVE  AbstractCursor(i)' = AbstractCursor(i)
  <1>1. CASE iter[i].cur = Unmade
    BY <1>1 DEF AbstractCursor
  <1>2. CASE iter[i].cur = Null
    BY <1>2, AddressAssumption DEF AbstractCursor
  <1>3. CASE iter[i].cur \in DOMAIN chunk
    <2>1. iter[i].cur # Null /\ iter[i].cur # Unmade
      BY <1>3, AddressAssumption DEF TypeOK
    <2> QED BY <1>3, <2>1 DEF AbstractCursor
  <1> QED BY <1>1, <1>2, <1>3, CursorKinds

LEMMA CursorsStay ==
  ASSUME TypeOK, TypeOK', UNCHANGED iter,
         \A c \in DOMAIN chunk : /\ c \in DOMAIN chunk'
                                 /\ place'[c].seg = place[c].seg
                                 /\ place'[c].before = place[c].before
  PROVE  AbstractCursors' = AbstractCursors
  <1>1. \A i \in Iterators : AbstractCursor(i)' = AbstractCursor(i)
    BY CursorStays
  <1> QED BY <1>1 DEF AbstractCursors

\* One iterator moves.
LEMMA CursorMoves ==
  ASSUME TypeOK, TypeOK', NEW i \in Iterators, NEW to,
         \A j \in Iterators : j # i => iter'[j] = iter[j],
         AbstractCursor(i)' = to,
         \A c \in DOMAIN chunk : /\ c \in DOMAIN chunk'
                                 /\ place'[c].seg = place[c].seg
                                 /\ place'[c].before = place[c].before
  PROVE  AbstractCursors' = [AbstractCursors EXCEPT ![i] = to]
  <1>1. \A j \in Iterators : j # i => AbstractCursor(j)' = AbstractCursor(j)
    BY CursorStays
  <1> QED BY <1>1 DEF AbstractCursors

\* A segment is complete when an iterator at its end may not go on in its
\* last chunk; inside a chunk it is not.
LEMMA RunningCursor ==
  ASSUME RInv, OnChunk
  PROVE  LET c == Me.cur
             s == place[c].seg
         IN  /\ AbstractCursor(call.it) =
                  [at |-> "open", seg |-> s, off |-> place[c].before + Me.eventNumber]
             /\ c \in DOMAIN chunk /\ Cur = chunk[c]
             /\ s \in 1..Len(log) /\ place[c].before \in Nat /\ Me.eventNumber \in Nat
             /\ Cur.nb \in Nat /\ Cur.cap \in Nat /\ Me.eventNumber <= Cur.nb /\ Cur.nb <= Cur.cap
             /\ log[s].request \in Nat /\ log[s].events \in Seq(Events)
             /\ place[c].before + Cur.nb <= Len(log[s].events)
             /\ log[s].request # UINT32_MAX => Len(log[s].events) <= log[s].request
             /\ LastOfSegment(c) => /\ place[c].before + Cur.nb = Len(log[s].events)
                                    /\ log[s].request = UINT32_MAX => Cur.cap = UINT32_MAX
                                    /\ log[s].request # UINT32_MAX =>
                                         place[c].before + Cur.cap = log[s].request
             /\ ~LastOfSegment(c) =>
                  Cur.cap = Cur.nb /\ place[Cur.next].before = place[c].before + Cur.nb
             /\ Cur.nb < UINT32_MAX
  <1> DEFINE c == Me.cur
             s == place[c].seg
  <1>1. /\ call.it \in Iterators /\ Me \in IteratorStates /\ c \in DOMAIN chunk
        /\ Cur = chunk[c] /\ IsChunk(Cur) /\ Me.eventNumber <= Cur.nb /\ TypeOK
    BY RunningCall DEF RInv, IInv, Cur
  <1>2. Me.eventNumber \in Nat /\ Cur.nb \in Nat /\ Cur.cap \in Nat
        /\ Cur.bufsize \in 1..(UINT32_MAX - 1)
    <2>1. Me.eventNumber \in Nat
      BY <1>1 DEF IteratorStates
    <2>2. Cur.nb \in Nat /\ Cur.cap \in 0..UINT32_MAX /\ Cur.bufsize \in BufSizes
      BY <1>1 DEF IsChunk
    <2>3. Cur.cap \in Nat
      BY <2>2, SizesAssumption
    <2>4. BufSizes \subseteq 1..(UINT32_MAX - 1)
      BY SizesAssumption
    <2> QED BY <2>1, <2>2, <2>3, <2>4, Zenon
  <1>3. s \in 1..Len(log) /\ place[c].before \in Nat /\ place[c].offs \in Seq(Nat)
    <2>1. place[c] \in Places
      BY <1>1 DEF TypeOK
    <2> QED BY <2>1 DEF Places
  <1>4. log[s].request \in Nat /\ log[s].events \in Seq(Events)
    <2>1. log[s] \in Segments
      BY <1>1, <1>3 DEF TypeOK
    <2> QED BY <2>1, SizesAssumption DEF Segments
  <1>5. AbstractCursor(call.it) =
          [at |-> "open", seg |-> s, off |-> place[c].before + Me.eventNumber]
    BY <1>1, CursorOpen DEF Me
  <1>6. /\ place[c].before + Cur.nb <= Len(log[s].events)
        /\ Cur.nb <= place[c].offs[Cur.nb + 1] /\ place[c].offs[Cur.nb + 1] <= Cur.bufsize
        /\ Len(place[c].offs) = Cur.nb + 1
    BY <1>1 DEF RInv, IInv, ChunksHoldLog
  <1>7. log[s].request # UINT32_MAX => Len(log[s].events) <= log[s].request
    BY <1>3 DEF RInv, SegmentsFit
  <1>8. LastOfSegment(c) => /\ place[c].before + Cur.nb = Len(log[s].events)
                            /\ log[s].request = UINT32_MAX => Cur.cap = UINT32_MAX
                            /\ log[s].request # UINT32_MAX =>
                                 place[c].before + Cur.cap = log[s].request
    BY <1>1 DEF RInv, IInv, FullBeforeLast, ChunkCapacity
  <1>9. ~LastOfSegment(c) =>
          Cur.cap = Cur.nb /\ place[Cur.next].before = place[c].before + Cur.nb
    BY <1>1 DEF RInv, IInv, FullBeforeLast
  <1>10. Cur.nb <= Cur.cap
    BY <1>1 DEF RInv, IInv, ChunkCapacity
  <1>11. Cur.nb < UINT32_MAX
    <2>1. place[c].offs[Cur.nb + 1] \in Nat
      <3>1. Cur.nb + 1 \in 1..Len(place[c].offs)
        BY <1>2, <1>6
      <3>2. place[c].offs \in Seq(Nat)
        BY <1>3
      <3> HIDE DEF c
      <3> QED BY <3>1, <3>2
    <2> HIDE DEF c
    <2> QED BY <1>2, <1>6, <2>1, SizesAssumption
  <1> QED BY <1>1, <1>2, <1>3, <1>4, <1>5, <1>6, <1>7, <1>8, <1>9, <1>10, <1>11
----------------------------------------------------------------------------
(* The calls. *)

\* Where an iterator starts, in the history as it is after the step.
LEMMA StartsAtFront ==
  ASSUME RInv', NEW i \in Iterators, iter'[i] = StartOfChunk(firstChunk'), firstChunk' # Null
  PROVE  AbstractCursor(i)' = [at |-> "open", seg |-> Len(log'), off |-> 0]
  <1>1. /\ iter'[i].cur = firstChunk' /\ iter'[i].eventNumber = 0
        /\ firstChunk' \in DOMAIN chunk' /\ TypeOK'
    BY DEF RInv, IInv, TypeOK, StartOfChunk
  <1>2. place'[firstChunk'].seg = Len(log') /\ place'[firstChunk'].before = 0
    BY DEF RInv, IInv, WellLinked
  <1>3. firstChunk' # Unmade
    BY <1>1, AddressAssumption DEF TypeOK
  <1> QED BY <1>1, <1>2, <1>3 DEF AbstractCursor

\* A log of no segments is one without chunks.
LEMMA EmptyLog == ASSUME RInv PROVE firstChunk = Null <=> log = << >>
  <1>1. log \in Seq(Segments) /\ firstChunk \in DOMAIN chunk \cup {Null}
    BY DEF RInv, IInv, TypeOK
  <1>2. CASE firstChunk = Null
    BY <1>1, <1>2 DEF RInv, IInv, WellLinked
  <1>3. CASE firstChunk # Null
    <2>1. place[firstChunk].seg \in 1..Len(log)
      BY <1>1, <1>3 DEF RInv, IInv, TypeOK, Places
    <2> QED BY <1>1, <1>3, <2>1
  <1> QED BY <1>2, <1>3

LEMMA SameHeapPlaces ==
  ASSUME UNCHANGED <<chunk, place>>
  PROVE  \A c \in DOMAIN chunk : /\ c \in DOMAIN chunk'
                                 /\ place'[c].seg = place[c].seg
                                 /\ place'[c].before = place[c].before
  OBVIOUS

LEMMA GrowsPlaces ==
  ASSUME Grows
  PROVE  \A c \in DOMAIN chunk : /\ c \in DOMAIN chunk'
                                 /\ place'[c].seg = place[c].seg
                                 /\ place'[c].before = place[c].before
  BY DEF Grows

LEMMA IteratorRefines ==
  ASSUME RInv, RInv', NEW i \in Iterators, Iterator(i)
  PROVE  Log!Iterator(i)
  <1>1. /\ Idle /\ UNCHANGED call /\ TypeOK /\ TypeOK'
        /\ iter' = [iter EXCEPT ![i] = StartOfChunk(firstChunk')]
        /\ iter \in [Iterators -> IteratorStates]
    BY DEF Iterator, RInv, IInv, TypeOK
  <1>2. Grows /\ firstChunk' # Null
        /\ IF log = << >> THEN log' = Append(log, [request |-> UINT32_MAX, events |-> << >>])
                          ELSE UNCHANGED log
    <2>1. CASE firstChunk = Null
      <3>1. PICK size \in BufSizes : Room /\ PushFront(UINT32_MAX, size)
        BY <2>1 DEF Iterator
      <3>2. UINT32_MAX \in 0..UINT32_MAX
        BY SizesAssumption
      <3>3. Grows
        BY <3>1, <3>2, PushFrontGrows DEF RInv
      <3>4. firstChunk' # Null
        BY <3>1, FreshIsFree, AddressAssumption DEF PushFront
      <3> QED BY <2>1, <3>1, <3>3, <3>4, EmptyLog DEF PushFront
    <2>2. CASE firstChunk # Null
      <3>1. UNCHANGED <<chunk, firstChunk, place, log>>
        BY <2>2 DEF Iterator
      <3>2. \A d \in DOMAIN chunk : chunk[d].nb <= chunk[d].nb
        BY DEF RInv, IInv, TypeOK, IsChunk
      <3>3. Grows
        BY <3>1, <3>2, Zenon DEF Grows
      <3> QED BY <2>2, <3>1, <3>3, EmptyLog
    <2> QED BY <2>1, <2>2
  <1>3. AbstractCursor(i)' = [at |-> "open", seg |-> Len(log'), off |-> 0]
    BY <1>1, <1>2, StartsAtFront
  <1>4. AbstractCursors' =
          [AbstractCursors EXCEPT ![i] = [at |-> "open", seg |-> Len(log'), off |-> 0]]
    <2>1. \A j \in Iterators : j # i => iter'[j] = iter[j]
      BY <1>1
    <2> QED BY <1>1, <1>2, <1>3, <2>1, GrowsPlaces, CursorMoves
  <1> QED BY <1>1, <1>2, <1>4 DEF Log!Iterator, Log!Idle, Log!NewSegment, Idle, AbstractCursors

\* backward(0) makes no chunk: nothing to see.
LEMMA BackwardRefines ==
  ASSUME RInv, RInv', NEW n \in Requests, Backward(n)
  PROVE  Log!Backward(n) \/ Unseen
  <1>1. Idle /\ UNCHANGED <<iter, call>> /\ TypeOK /\ TypeOK'
    BY DEF Backward, RInv, IInv
  <1>2. CASE n = 0
    <2>1. UNCHANGED <<chunk, place, log>>
      BY <1>2 DEF Backward
    <2> QED BY <1>1, <2>1, SameHeapPlaces, CursorsStay DEF Unseen, AbstractCall
  <1>3. CASE n # 0
    <2>1. PICK size \in BufSizes : Room /\ PushFront(n, size)
      BY <1>3 DEF Backward
    <2>2. n \in 0..UINT32_MAX
      BY SizesAssumption
    <2>3. AbstractCursors' = AbstractCursors
      BY <1>1, <2>1, <2>2, PushFrontGrows, GrowsPlaces, CursorsStay DEF RInv
    <2> QED
      BY <1>1, <2>1, <2>3
      DEF Log!Backward, Log!Idle, Log!NewSegment, Idle, PushFront, AbstractCursors
  <1> QED BY <1>2, <1>3

LEMMA InvokeRefines ==
  ASSUME RInv, RInv', NEW op, NEW i \in Iterators, NEW e, Invoke(op, i, e)
  PROVE  Log!Invoke(op, i, e)
  <1>1. /\ Idle /\ iter[i].cur # Unmade /\ UNCHANGED <<chunk, iter, place, log>>
        /\ call' = [op |-> op, it |-> i, ev |-> e, code |-> "RUNNING", fresh |-> FALSE]
        /\ TypeOK /\ TypeOK'
    BY DEF Invoke, RInv, IInv
  <1>2. AbstractCursors' = AbstractCursors
    BY <1>1, SameHeapPlaces, CursorsStay
  <1>3. AbstractCursor(i).at # "unmade"
    BY <1>1, CursorKinds, CursorOpen, CursorClosed
  <1> QED BY <1>1, <1>2, <1>3 DEF Log!Invoke, Log!Idle, Idle, AbstractCursors
----------------------------------------------------------------------------
(* The steps of a running call. *)

\* What the log of segments sees of the running call and of its iterator.
LEMMA SeenCall ==
  ASSUME RInv, OnChunk
  PROVE  LET s == place[Me.cur].seg
             off == place[Me.cur].before + Me.eventNumber
         IN  /\ Log!Open /\ (Log!Reading <=> Reading)
             /\ Log!Me = [at |-> "open", seg |-> s, off |-> off]
             /\ Log!Segment = log[s]
             /\ Log!Complete <=> log[s].request # UINT32_MAX /\ off >= log[s].request
             /\ Log!AtEnd <=> off = Len(log[s].events)
  <1>1. call.it \in Iterators /\ Running
    BY RunningCall DEF RInv, OnChunk
  <1>2. Log!Me = AbstractCursor(call.it)
    BY <1>1 DEF Log!Me
  <1>3. Log!Running /\ (Log!Reading <=> Reading)
    BY <1>1 DEF Log!Running, Running, Log!Reading, Reading
  <1> QED BY <1>2, <1>3, RunningCursor DEF Log!Open, Log!Segment, Log!Complete, Log!AtEnd

\* A call that returns a code.
LEMMA ReturnSeen ==
  ASSUME RInv, NEW code, Return(code)
  PROVE  Log!Return(code)
  BY DEF Return, Log!Return, RInv, IInv, TypeOK, Calls

\* Past the capacity of the last chunk of a segment, the segment is complete.
LEMMA CompletePastCapacity ==
  ASSUME RInv, OnChunk, PastCapacity, LastOfSegment(Me.cur)
  PROVE  Log!Complete
  <1> DEFINE s == place[Me.cur].seg
             b == place[Me.cur].before
  <1>1. /\ b \in Nat /\ Me.eventNumber \in Nat /\ Cur.cap \in Nat /\ Cur.nb \in Nat
        /\ Me.eventNumber <= Cur.nb /\ Cur.nb < UINT32_MAX
        /\ log[s].request = UINT32_MAX => Cur.cap = UINT32_MAX
        /\ log[s].request # UINT32_MAX => b + Cur.cap = log[s].request
    BY RunningCursor
  <1>2. Me.eventNumber >= Cur.cap
    BY DEF PastCapacity
  <1>3. Log!Complete <=> log[s].request # UINT32_MAX /\ b + Me.eventNumber >= log[s].request
    BY SeenCall
  <1> HIDE DEF s, b
  <1>4. log[s].request # UINT32_MAX
    BY <1>1, <1>2, SizesAssumption
  <1>5. b + Me.eventNumber >= b + Cur.cap
    BY <1>1, <1>2
  <1> QED BY <1>1, <1>3, <1>4, <1>5

\* Below it, it is not; and only its last event has none after it.
LEMMA IncompleteInChunk ==
  ASSUME RInv, InChunk
  PROVE  /\ ~Log!Complete
         /\ Log!AtEnd <=> Me.eventNumber = Cur.nb
         /\ Me.eventNumber = Cur.nb => LastOfSegment(Me.cur)
  <1> DEFINE s == place[Me.cur].seg
             b == place[Me.cur].before
             l == Len(log[s].events)
  <1>0. OnChunk
    BY DEF InChunk
  <1>1. /\ b \in Nat /\ Me.eventNumber \in Nat /\ Cur.cap \in Nat /\ Cur.nb \in Nat
        /\ Me.eventNumber <= Cur.nb /\ l \in Nat /\ log[s].request \in Nat
        /\ b + Cur.nb <= l
        /\ log[s].request # UINT32_MAX => l <= log[s].request
        /\ LastOfSegment(Me.cur) =>
             /\ b + Cur.nb = l
             /\ log[s].request # UINT32_MAX => b + Cur.cap = log[s].request
        /\ ~LastOfSegment(Me.cur) => Cur.cap = Cur.nb
    <2>1. /\ b \in Nat /\ Me.eventNumber \in Nat /\ Cur.cap \in Nat /\ Cur.nb \in Nat
          /\ Me.eventNumber <= Cur.nb /\ log[s].request \in Nat /\ b + Cur.nb <= l
          /\ log[s].request # UINT32_MAX => l <= log[s].request
      BY <1>0, RunningCursor
    <2>2. l \in Nat
      <3>1. log[s].events \in Seq(Events)
        BY <1>0, RunningCursor
      <3> HIDE DEF s
      <3> QED BY <3>1
    <2>3. LastOfSegment(Me.cur) =>
             /\ b + Cur.nb = l
             /\ log[s].request # UINT32_MAX => b + Cur.cap = log[s].request
      BY <1>0, RunningCursor
    <2>4. ~LastOfSegment(Me.cur) => Cur.cap = Cur.nb
      BY <1>0, RunningCursor
    <2> QED BY <2>1, <2>2, <2>3, <2>4, Zenon
  <1>2. Me.eventNumber < Cur.cap
    BY <1>1 DEF InChunk, PastCapacity
  <1>3. /\ Log!Complete <=> log[s].request # UINT32_MAX /\ b + Me.eventNumber >= log[s].request
        /\ Log!AtEnd <=> b + Me.eventNumber = l
    BY <1>0, SeenCall
  <1> HIDE DEF s, b, l
  <1>4. CASE LastOfSegment(Me.cur)
    <2>1. b + Me.eventNumber < b + Cur.cap
      BY <1>1, <1>2
    <2>2. b + Me.eventNumber = b + Cur.nb <=> Me.eventNumber = Cur.nb
      BY <1>1
    <2> QED BY <1>1, <1>3, <1>4, <2>1, <2>2
  <1>5. CASE ~LastOfSegment(Me.cur)
    <2>1. Me.eventNumber < Cur.nb /\ b + Me.eventNumber < b + Cur.nb
      BY <1>1, <1>2, <1>5
    <2>2. b + Me.eventNumber < l
      BY <1>1, <2>1
    <2> QED BY <1>1, <1>3, <1>5, <2>1, <2>2
  <1> QED BY <1>4, <1>5

LEMMA AbortRefines == ASSUME RInv, RInv', Abort PROVE Log!Abort
  <1>1. Running /\ Me.cur = Null /\ call.it \in Iterators /\ Return("ABORTED")
        /\ UNCHANGED <<chunk, iter, place, log>> /\ TypeOK /\ TypeOK'
    BY DEF Abort, RInv, IInv, TypeOK, Calls
  <1>2. AbstractCursors' = AbstractCursors
    BY <1>1, SameHeapPlaces, CursorsStay
  <1>3. AbstractCursor(call.it).at = "closed"
    BY <1>1, CursorClosed DEF Me
  <1>4. Log!Me = AbstractCursor(call.it) /\ Log!Running
    BY <1>1 DEF Log!Me, Log!Running, Running
  <1> QED BY <1>1, <1>2, <1>3, <1>4, ReturnSeen DEF Log!Abort, AbstractCursors

\* To the next chunk of the segment nothing is seen to move; from its last
\* chunk, the cursor crosses to the segment that follows.
LEMMA NextChunkRefines == ASSUME RInv, RInv', NextChunk PROVE Log!Cross \/ Unseen
  <1> DEFINE d == Cur.next
             to == [at |-> "open", seg |-> place[d].seg, off |-> place[d].before]
  <1>1. /\ OnChunk /\ PastCapacity /\ d # Null /\ TypeOK /\ TypeOK'
        /\ iter' = [iter EXCEPT ![call.it] = StartOfChunk(d)]
        /\ UNCHANGED <<chunk, place, log, call>> /\ iter \in [Iterators -> IteratorStates]
    BY DEF NextChunk, RInv, IInv, TypeOK
  <1>2. Me.cur \in DOMAIN chunk /\ Cur = chunk[Me.cur] /\ call.it \in Iterators
        /\ d \in DOMAIN chunk
    BY <1>1, RunningCall DEF RInv, Cur, IsChunk
  <1>3. place[d] \in Places /\ place[Me.cur] \in Places
    BY <1>1, <1>2 DEF TypeOK
  <1>4. AbstractCursors' = [AbstractCursors EXCEPT ![call.it] = to]
    <2>0. PICK k \in Iterators : k = call.it
      BY <1>2
    <2>1. iter'[k] = StartOfChunk(d) /\ \A j \in Iterators : j # k => iter'[j] = iter[j]
      BY <1>1, <2>0
    <2>2. iter'[k].cur = d /\ iter'[k].eventNumber = 0
      BY <2>1 DEF StartOfChunk
    <2>3. d # Unmade
      BY <1>1, <1>2, AddressAssumption DEF TypeOK
    <2>4. place[d].before + 0 = place[d].before
      BY <1>3 DEF Places
    <2>5. AbstractCursor(k)' = to
      BY <1>1, <2>2, <2>3, <2>4 DEF AbstractCursor
    <2> HIDE DEF to
    <2>6. AbstractCursors' = [AbstractCursors EXCEPT ![k] = to]
      BY <1>1, <2>1, <2>5, SameHeapPlaces, CursorMoves
    <2> QED BY <2>0, <2>6
  <1>5. Log!Me = AbstractCursors[call.it] /\ AbstractCursors = [AbstractCursors EXCEPT ![call.it] = @]
    BY <1>2 DEF Log!Me, AbstractCursors
  <1>6. CASE LastOfSegment(Me.cur)
    <2>1. place[d].seg = place[Me.cur].seg - 1 /\ place[d].before = 0
      BY <1>1, <1>2, <1>6 DEF RInv, IInv, WellLinked, LastOfSegment
    <2>2. Log!Complete /\ Log!Open /\ Log!Me.seg = place[Me.cur].seg
      BY <1>1, <1>6, CompletePastCapacity, SeenCall
    <2>3. place[Me.cur].seg > 1
      BY <1>3, <2>1 DEF Places
    <2>4. to = [at |-> "open", seg |-> Log!Me.seg - 1, off |-> 0]
      BY <2>1, <2>2
    <2> HIDE DEF to
    <2> QED
      BY <1>1, <1>2, <1>4, <2>2, <2>3, <2>4 DEF Log!Cross, AbstractCursors, Log!Me
  <1>7. CASE ~LastOfSegment(Me.cur)
    <2>1. place[d].seg = place[Me.cur].seg /\ d = Cur.next
      BY <1>1, <1>2, <1>7 DEF LastOfSegment
    <2>2. Cur.cap = Cur.nb /\ place[d].before = place[Me.cur].before + Cur.nb
          /\ Me.eventNumber \in Nat /\ Cur.nb \in Nat /\ Me.eventNumber <= Cur.nb
      BY <1>1, <1>7, RunningCursor
    <2>3. Me.eventNumber = Cur.nb
      BY <1>1, <2>2 DEF PastCapacity
    <2>4. to = Log!Me
      BY <1>1, <2>1, <2>2, <2>3, SeenCall
    <2> HIDE DEF to
    <2> QED BY <1>1, <1>4, <1>5, <2>4 DEF Unseen, AbstractCall
  <1> QED BY <1>6, <1>7

LEMMA EndOfHistoryRefines == ASSUME RInv, RInv', EndOfHistory PROVE Log!EndOfHistory
  <1> DEFINE to == [at |-> "closed", seg |-> 0, off |-> 0]
             code == IF Reading THEN "END_HISTORY" ELSE "DATA_STORE_ERROR"
  <1>1. /\ OnChunk /\ PastCapacity /\ Cur.next = Null /\ TypeOK /\ TypeOK' /\ Return(code)
        /\ iter' = [iter EXCEPT ![call.it].cur = Null]
        /\ UNCHANGED <<chunk, place, log>> /\ iter \in [Iterators -> IteratorStates]
    BY DEF EndOfHistory, RInv, IInv, TypeOK
  <1>2. Me.cur \in DOMAIN chunk /\ Cur = chunk[Me.cur] /\ call.it \in Iterators
    BY <1>1, RunningCall DEF RInv, Cur
  <1>3. LastOfSegment(Me.cur) /\ place[Me.cur].seg = 1
    BY <1>1, <1>2 DEF LastOfSegment, RInv, IInv, WellLinked
  <1>4. Log!Complete /\ Log!Open /\ Log!Me.seg = 1 /\ (Log!Reading <=> Reading)
    BY <1>1, <1>3, CompletePastCapacity, SeenCall
  <1>5. AbstractCursors' = [AbstractCursors EXCEPT ![call.it] = to]
    <2>0. PICK k \in Iterators : k = call.it
      BY <1>2
    <2>1. iter'[k].cur = Null /\ \A j \in Iterators : j # k => iter'[j] = iter[j]
      BY <1>1, <2>0 DEF IteratorStates
    <2>2. AbstractCursor(k)' = to
      BY <2>1, AddressAssumption DEF AbstractCursor
    <2>3. AbstractCursors' = [AbstractCursors EXCEPT ![k] = to]
      <3> HIDE DEF to
      <3> QED BY <1>1, <2>1, <2>2, SameHeapPlaces, CursorMoves
    <2> HIDE DEF to
    <2> QED BY <2>0, <2>3
  <1>6. Log!Return(IF Log!Reading THEN "END_HISTORY" ELSE "DATA_STORE_ERROR")
    <2> HIDE DEF code
    <2>1. Log!Return(code)
      BY <1>1, ReturnSeen
    <2> QED BY <1>4, <2>1 DEF code
  <1> QED BY <1>1, <1>4, <1>5, <1>6, Zenon DEF Log!EndOfHistory, AbstractCursors, AbstractCall

LEMMA EndOfDataRefines == ASSUME RInv, RInv', EndOfData PROVE Log!EndOfData
  <1>1. /\ InChunk /\ OnChunk /\ Reading /\ Me.eventNumber >= Cur.nb /\ TypeOK /\ TypeOK'
        /\ UNCHANGED <<chunk, iter, place, log>>
    BY DEF EndOfData, InChunk, RInv, IInv
  <1>2. Me.eventNumber = Cur.nb
    <2>1. Me.eventNumber \in Nat /\ Cur.nb \in Nat /\ Me.eventNumber <= Cur.nb
      BY <1>1, RunningCursor
    <2> QED BY <1>1, <2>1
  <1>3. Log!Open /\ ~Log!Complete /\ Log!AtEnd /\ Log!Reading
    BY <1>1, <1>2, IncompleteInChunk, SeenCall
  <1>4. AbstractCursors' = AbstractCursors
    BY <1>1, SameHeapPlaces, CursorsStay
  <1>5. \/ call.op = "load" /\ Log!Return("END_DATA")
        \/ call.op = "get" /\ \E code \in GenerateOutcomes : Log!Return(code)
    BY ReturnSeen DEF EndOfData
  <1> QED BY <1>1, <1>3, <1>4, <1>5 DEF Log!EndOfData, GenerateOutcomes, AbstractCursors

LEMMA NotAtEndRefines == ASSUME RInv, RInv', NotAtEnd PROVE Log!NotAtEnd
  <1>1. /\ InChunk /\ OnChunk /\ ~Reading /\ Me.eventNumber # Cur.nb /\ TypeOK /\ TypeOK'
        /\ UNCHANGED <<chunk, iter, place, log>> /\ Return("DATA_STORE_ERROR")
    BY DEF NotAtEnd, InChunk, RInv, IInv
  <1>2. Log!Open /\ ~Log!Complete /\ ~Log!AtEnd /\ ~Log!Reading
    BY <1>1, IncompleteInChunk, SeenCall
  <1>3. AbstractCursors' = AbstractCursors
    BY <1>1, SameHeapPlaces, CursorsStay
  <1> QED BY <1>1, <1>2, <1>3, ReturnSeen DEF Log!NotAtEnd, AbstractCursors

\* The iterator of the call moves by one event of its chunk.
LEMMA AdvanceSeen ==
  ASSUME RInv, RInv', OnChunk, NEW n \in Nat, iter' = [iter EXCEPT ![call.it] = Advance(Me, n)],
         \A c \in DOMAIN chunk : /\ c \in DOMAIN chunk'
                                 /\ place'[c].seg = place[c].seg
                                 /\ place'[c].before = place[c].before
  PROVE  Log!Advance
  <1> DEFINE to == [at |-> "open", seg |-> place[Me.cur].seg,
                    off |-> place[Me.cur].before + Me.eventNumber + 1]
  <1>1. /\ TypeOK /\ TypeOK' /\ iter \in [Iterators -> IteratorStates]
        /\ Me \in IteratorStates /\ call.it \in Iterators /\ Me.cur \in DOMAIN chunk
    BY RunningCall DEF RInv, IInv, TypeOK
  <1>2. PICK k \in Iterators : k = call.it
    BY <1>1
  <1>3. iter'[k] = Advance(Me, n) /\ \A j \in Iterators : j # k => iter'[j] = iter[j]
    BY <1>1, <1>2
  <1>4. iter'[k].cur = Me.cur /\ iter'[k].eventNumber = Me.eventNumber + 1
    BY <1>1, <1>3, AdvanceMoves
  <1>5. AbstractCursor(k)' = to
    <2>1. Me.cur # Null /\ Me.cur # Unmade
      BY <1>1, AddressAssumption DEF TypeOK
    <2>2. AbstractCursor(k)' =
            [at |-> "open", seg |-> place'[Me.cur].seg,
             off |-> place'[Me.cur].before + (Me.eventNumber + 1)]
      BY <1>4, <2>1 DEF AbstractCursor
    <2>3. /\ place[Me.cur].before \in Nat /\ Me.eventNumber \in Nat
          /\ place'[Me.cur].seg = place[Me.cur].seg /\ place'[Me.cur].before = place[Me.cur].before
      BY <1>1, RunningCursor
    <2>4. place[Me.cur].before + (Me.eventNumber + 1) = place[Me.cur].before + Me.eventNumber + 1
      BY <2>3
    <2> QED BY <2>2, <2>3, <2>4
  <1>6. AbstractCursors' = [AbstractCursors EXCEPT ![k] = to]
    <2> HIDE DEF to
    <2> QED BY <1>1, <1>3, <1>5, CursorMoves
  <1>7. to = [AbstractCursors[k] EXCEPT !.off = @ + 1]
    <2>1. AbstractCursors[k] = [at |-> "open", seg |-> place[Me.cur].seg,
                                off |-> place[Me.cur].before + Me.eventNumber]
      BY <1>2, RunningCursor DEF AbstractCursors
    <2> QED BY <2>1
  <1> HIDE DEF to
  <1> QED BY <1>2, <1>6, <1>7 DEF Log!Advance, AbstractCursors

LEMMA ReadEventRefines == ASSUME RInv, RInv', ReadEvent PROVE Log!Read
  <1> DEFINE obj == ObjectAt(Cur.mem, Me.position)
             at == place[Me.cur]
             e == log[at.seg].events[at.before + Me.eventNumber + 1]
  <1>1. /\ InChunk /\ OnChunk /\ Reading /\ Me.eventNumber < Cur.nb /\ TypeOK /\ TypeOK' /\ IInv
        /\ UNCHANGED <<chunk, place, log>>
    BY DEF ReadEvent, InChunk, RInv, IInv
  <1>2. obj \in Object /\ obj.ev # None /\ obj.ev = e
    BY <1>1, ReadsNextEvent
  <1>3. Log!Open /\ ~Log!Complete /\ ~Log!AtEnd /\ Log!Reading
    <2>1. Me.eventNumber # Cur.nb
      BY <1>1, RunningCursor
    <2> QED BY <1>1, <2>1, IncompleteInChunk, SeenCall
  <1>4. Log!Segment.events[Log!Me.off + 1] = e
    BY <1>1, SeenCall
  <1>5. CASE obj.ev \in LoadFails
    <2>1. Return("DATA_LOAD_ERROR") /\ UNCHANGED iter
      BY <1>2, <1>5 DEF ReadEvent, LoadCode
    <2>2. AbstractCursors' = AbstractCursors
      BY <1>1, <2>1, SameHeapPlaces, CursorsStay
    <2>3. e \in LoadFails /\ Log!Return("DATA_LOAD_ERROR")
      BY <1>2, <1>5, <2>1, ReturnSeen
    <2> HIDE DEF e
    <2> QED BY <1>1, <1>3, <1>4, <2>2, <2>3 DEF Log!Read, AbstractCursors
  <1>6. CASE obj.ev \notin LoadFails
    <2>1. /\ call' = [call EXCEPT !.ev = obj.ev, !.code = "LOADED"]
          /\ iter' = [iter EXCEPT ![call.it] = Advance(Me, obj.size)]
      BY <1>2, <1>6 DEF ReadEvent, LoadCode
    <2>2. Log!Advance
      <3>1. obj.size \in Nat
        BY <1>2 DEF Object
      <3> HIDE DEF obj
      <3> QED BY <1>1, <2>1, <3>1, SameHeapPlaces, AdvanceSeen
    <2>3. e \notin LoadFails /\ call' = [call EXCEPT !.ev = e, !.code = "LOADED"]
      BY <1>2, <1>6, <2>1
    <2> HIDE DEF e
    <2>4. AbstractCall' = [AbstractCall EXCEPT !.ev = e, !.code = "LOADED"]
      <3>1. call \in Calls
        BY <1>1 DEF TypeOK
      <3>2. /\ call'.op = call.op /\ call'.it = call.it
            /\ call'.ev = e /\ call'.code = "LOADED"
        BY <2>3, <3>1 DEF Calls
      <3>3. AbstractCall' = [op |-> call.op, it |-> call.it, ev |-> e, code |-> "LOADED"]
        BY <3>2 DEF AbstractCall
      <3>4. [AbstractCall EXCEPT !.ev = e, !.code = "LOADED"] =
              [op |-> call.op, it |-> call.it, ev |-> e, code |-> "LOADED"]
        <4> DEFINE half == [AbstractCall EXCEPT !.ev = e]
        <4>1. half = [op |-> call.op, it |-> call.it, ev |-> e, code |-> call.code]
          BY DEF AbstractCall
        <4> HIDE DEF half
        <4>2. [half EXCEPT !.code = "LOADED"] =
                [op |-> call.op, it |-> call.it, ev |-> e, code |-> "LOADED"]
          BY <4>1
        <4> QED BY <4>2 DEF half
      <3> QED BY <3>3, <3>4
    <2> QED BY <1>1, <1>3, <1>4, <2>2, <2>3, <2>4 DEF Log!Read, AbstractCall
  <1> QED BY <1>5, <1>6

\* What an event needs after the size header depends on its place by at most
\* the byte that aligns the header.
LEMMA ContentSize ==
  ASSUME NEW e \in Events, NEW p \in Nat
  PROVE  /\ ContentEnd(e, p) \in Nat /\ ContentEnd(e, p) - p <= ContentEnd(e, 1) - 1
         /\ ContentEnd(e, 1) \in Nat
  <1>1. p % 2 \in 0..1 /\ 1 % 2 = 1
    OBVIOUS
  <1>2. Body[e] \in Nat
    BY EventsAssumption
  <1> QED BY <1>1, <1>2 DEF ContentEnd, HeaderEnd

LEMMA WriteEventRefines == ASSUME RInv, RInv', WriteEvent PROVE Log!Append1 \/ Log!Refuse
  <1> DEFINE n == End - Me.position
             code == StoreCode(call.ev, n)
             s == place[Me.cur].seg
  <1>1. /\ Storing /\ IInv /\ TypeOK /\ TypeOK' /\ Return(code)
    BY DEF WriteEvent, RInv, IInv
  <1>2. /\ InChunk /\ OnChunk /\ ~Reading /\ Me.eventNumber = Cur.nb
        /\ call.ev \in Events /\ Me.position \in Nat /\ End \in Nat /\ n \in Nat
        /\ Me.cur \in DOMAIN chunk
    BY <1>1, StoresAtEnd DEF Storing
  <1>3. Log!Open /\ ~Log!Complete /\ Log!AtEnd /\ ~Log!Reading /\ Log!Me.seg = s
    BY <1>2, IncompleteInChunk, SeenCall
  <1>4. Log!Return(code)
    <2> HIDE DEF code
    <2> QED BY <1>1, ReturnSeen
  <1>5. CASE code = "STORED"
    <2>1. /\ iter' = [iter EXCEPT ![call.it] = Advance(Me, n)]
          /\ log' = [log EXCEPT ![s].events = Append(@, call.ev)]
      BY <1>5 DEF WriteEvent
    <2>2. \A c \in DOMAIN chunk : /\ c \in DOMAIN chunk'
                                  /\ place'[c].seg = place[c].seg
                                  /\ place'[c].before = place[c].before
      BY <1>1, WriteEventGrows, GrowsPlaces
    <2>3. Log!Advance
      <3> HIDE DEF n
      <3> QED BY <1>2, <2>1, <2>2, AdvanceSeen
    <2>4. call.ev \notin Invalid \cup StoreFails
      BY <1>5 DEF StoreCode
    <2>5. log' = [log EXCEPT ![Log!Me.seg].events = Append(@, call.ev)]
      BY <1>3, <2>1
    <2>6. Log!Return("STORED")
      BY <1>4, <1>5
    <2> QED BY <1>3, <2>3, <2>4, <2>5, <2>6 DEF Log!Append1
  <1>6. CASE code # "STORED"
    <2>1. UNCHANGED <<iter, place, log>> /\ DOMAIN chunk' = DOMAIN chunk
      BY <1>6 DEF WriteEvent
    <2>2. AbstractCursors' = AbstractCursors
      BY <1>1, <2>1, CursorsStay
    <2>3. code \in Log!Refusals(call.ev)
      <3>1. ContentEnd(call.ev, 1) - 1 >= n /\ ContentEnd(call.ev, 1) \in Nat
        BY <1>2, ContentSize DEF End
      <3> HIDE DEF n
      <3>2. n > OBJECTSIZE_MAX =>
              call.ev \in {e \in Events : ContentEnd(e, 1) - 1 > OBJECTSIZE_MAX}
        BY <1>2, <3>1, SizesAssumption
      <3> QED BY <1>6, <3>2 DEF StoreCode, Log!Refusals
    <2>4. Log!Refuse
      <3> HIDE DEF code
      <3> QED BY <1>3, <1>4, <2>1, <2>2, <2>3 DEF Log!Refuse, AbstractCursors
    <2> QED BY <2>4
  <1> QED BY <1>5, <1>6

\* The user does not see a chunk being split.
LEMMA SplitRefines == ASSUME RInv, RInv', Split PROVE Unseen
  <1> DEFINE c == Me.cur
             f == Fresh
  <1>1. /\ Storing /\ Room /\ IInv /\ TypeOK /\ TypeOK' /\ UNCHANGED log
        /\ iter' = [iter EXCEPT ![call.it] = StartOfChunk(f)]
        /\ call' = [call EXCEPT !.fresh = TRUE]
        /\ place' = Placed(f, place[c].seg, place[c].before + Cur.nb)
        /\ call \in Calls /\ iter \in [Iterators -> IteratorStates]
    BY DEF Split, OutOfBound, RInv, IInv, TypeOK
  <1>2. OnChunk /\ c \in DOMAIN chunk /\ call.it \in Iterators /\ Me.eventNumber = Cur.nb
        /\ f \notin DOMAIN chunk
    BY <1>1, StoresAtEnd, FreshIsFree
  <1>3. \A d \in DOMAIN chunk : /\ d \in DOMAIN chunk'
                                /\ place'[d].seg = place[d].seg
                                /\ place'[d].before = place[d].before
    BY <1>1, SplitGrows, GrowsPlaces
  <1>4. AbstractCall' = AbstractCall
    <2>1. call'.op = call.op /\ call'.it = call.it /\ call'.ev = call.ev /\ call'.code = call.code
      BY <1>1 DEF Calls
    <2> QED BY <2>1 DEF AbstractCall
  <1>5. PICK k \in Iterators : k = call.it
    BY <1>2
  <1>6. iter'[k] = StartOfChunk(f) /\ \A j \in Iterators : j # k => iter'[j] = iter[j]
    BY <1>1, <1>5
  <1>7. AbstractCursor(k) =
          [at |-> "open", seg |-> place[c].seg, off |-> place[c].before + Cur.nb]
    BY <1>2, <1>5, RunningCursor
  <1>8. AbstractCursor(k)' =
          [at |-> "open", seg |-> place[c].seg, off |-> place[c].before + Cur.nb]
    <2>1. iter'[k].cur = f /\ iter'[k].eventNumber = 0
      BY <1>6 DEF StartOfChunk
    <2>2. place'[f].seg = place[c].seg /\ place'[f].before = place[c].before + Cur.nb
      BY <1>1 DEF Placed
    <2>3. f # Null /\ f # Unmade
      BY <1>1, FreshIsFree, AddressAssumption
    <2>4. place[c].before + Cur.nb \in Nat
      BY <1>2, RunningCursor
    <2>5. (place[c].before + Cur.nb) + 0 = place[c].before + Cur.nb
      BY <2>4
    <2> HIDE DEF f, c
    <2>6. AbstractCursor(k)' =
            [at |-> "open", seg |-> place'[f].seg, off |-> place'[f].before + 0]
      BY <2>1, <2>3 DEF AbstractCursor
    <2> QED BY <2>2, <2>5, <2>6
  <1>9. AbstractCursors' = [AbstractCursors EXCEPT ![k] = AbstractCursor(k)]
    <2>1. AbstractCursor(k)' = AbstractCursor(k)
      BY <1>7, <1>8
    <2>2. \A j \in Iterators : AbstractCursor(j)' = AbstractCursor(j)
      BY <1>1, <1>3, <1>6, <2>1, CursorStays
    <2> QED BY <2>2 DEF AbstractCursors
  <1>10. AbstractCursors' = AbstractCursors
    BY <1>9 DEF AbstractCursors
  <1> QED BY <1>1, <1>4, <1>10 DEF Unseen

\* An event that an empty chunk cannot hold.
LEMMA TooBigRefines == ASSUME RInv, RInv', TooBig PROVE Log!Refuse
  <1>1. /\ Storing /\ End > Cur.bufsize /\ call.fresh /\ IInv /\ TypeOK /\ TypeOK'
        /\ Return("OBJECT_TOO_BIG") /\ UNCHANGED <<iter, place, log>>
        /\ DOMAIN chunk' = DOMAIN chunk
    BY DEF TooBig, OutOfBound, RInv, IInv
  <1>2. /\ InChunk /\ OnChunk /\ ~Reading /\ Me.eventNumber = Cur.nb /\ call.ev \in Events
        /\ IsChunk(Cur)
    BY <1>1, StoresAtEnd, RunningCall DEF Storing
  <1>3. Log!Open /\ ~Log!Complete /\ Log!AtEnd /\ ~Log!Reading
    BY <1>2, IncompleteInChunk, SeenCall
  <1>4. AbstractCursors' = AbstractCursors
    BY <1>1, CursorsStay
  <1>5. "OBJECT_TOO_BIG" \in Log!Refusals(call.ev)
    <2>1. Me.position = 0 /\ Cur.bufsize \in BufSizes
      BY <1>1, <1>2 DEF RInv, FreshAtStart, OnChunk, Me, IsChunk
    <2>2. call.ev \in {e \in Events : \E size \in BufSizes : ContentEnd(e, 0) > size}
      BY <1>1, <1>2, <2>1 DEF End
    <2> QED BY <2>2 DEF Log!Refusals
  <1>6. Log!Return("OBJECT_TOO_BIG")
    BY <1>1, ReturnSeen
  <1> QED BY <1>1, <1>3, <1>4, <1>5, <1>6 DEF Log!Refuse, AbstractCursors

----------------------------------------------------------------------------
(* The theorem. *)

LEMMA StepRefines == ASSUME RInv, RInv', Step PROVE Log!Step \/ Unseen
  BY AbortRefines, NextChunkRefines, EndOfHistoryRefines, EndOfDataRefines, ReadEventRefines,
     NotAtEndRefines, WriteEventRefines, SplitRefines, TooBigRefines
  DEF Step, Log!Step

LEMMA NextRefines == RInv /\ RInv' /\ [Next]_vars => [Log!Next]_(Log!vars)
  <1> SUFFICES ASSUME RInv, RInv', [Next]_vars PROVE Log!Next \/ Unseen
    BY DEF Unseen, AbstractCursors, AbstractCall, Log!vars
  <1>1. ASSUME NEW i \in Iterators, Iterator(i) PROVE Log!Next
    BY <1>1, IteratorRefines DEF Log!Next
  <1>2. ASSUME NEW n \in Requests, Backward(n) PROVE Log!Next \/ Unseen
    BY <1>2, BackwardRefines DEF Log!Next
  <1>3. ASSUME NEW i \in Iterators, NEW op \in {"load", "get"}, Invoke(op, i, None)
        PROVE  Log!Next
    BY <1>3, InvokeRefines DEF Log!Next
  <1>4. ASSUME NEW i \in Iterators, NEW e \in Events, Invoke("store", i, e) PROVE Log!Next
    BY <1>4, InvokeRefines DEF Log!Next
  <1>5. CASE Step
    BY <1>5, StepRefines DEF Log!Next
  <1>6. CASE UNCHANGED vars
    <2>1. TypeOK /\ TypeOK' /\ UNCHANGED <<chunk, iter, call, place, log>>
      BY <1>6 DEF vars, RInv, IInv
    <2> QED BY <2>1, SameHeapPlaces, CursorsStay DEF Unseen, AbstractCall
  <1> QED BY <1>1, <1>2, <1>3, <1>4, <1>5, <1>6 DEF Next

LEMMA InitRefines == Init => Log!Init
  <1> SUFFICES ASSUME Init PROVE Log!Init
    OBVIOUS
  <1>1. log = << >> /\ \A i \in Iterators : iter[i].cur = Unmade
    BY DEF Init, StartOfChunk
  <1>2. AbstractCursors = [i \in Iterators |-> [at |-> "unmade", seg |-> 0, off |-> 0]]
    BY <1>1, CursorUnmade DEF AbstractCursors
  <1>3. AbstractCall \in [op : {"none"}, it : Iterators, ev : {None}, code : {"NONE"}]
    BY DEF Init, AbstractCall
  <1> QED BY <1>1, <1>2, <1>3 DEF Log!Init, AbstractCursors, AbstractCall

\* However the events are spread over chunks, and whatever is split, torn or
\* refused meanwhile (loadNextEvent, storeNextEvent, backward), each call does
\* what it does on a plain list of segments.
THEOREM ChunksAreTransparent == Spec => RefinesLogSteps
  BY InitRefines, NextRefines, RefinementInvariant, PTL DEF Spec, RefinesLogSteps
=============================================================================
