----------------------------- MODULE HistoryProps -----------------------------
(***************************************************************************)
(* What makes the events history correct.                                  *)
(***************************************************************************)
EXTENDS History

Codes == {"NONE", "RUNNING", "ABORTED", "LOADED", "STORED", "END_DATA", "END_HISTORY",
          "OBJECT_TOO_BIG", "STORE_INVALID_EVENT", "DATA_LOAD_ERROR",
          "DATA_STORE_ERROR", "GARBAGE"}
Object == [ev : Events, size : Nat]
IsMem(mem) == DOMAIN mem \subseteq Nat /\ mem \in [DOMAIN mem -> Object]
IsChunk(x) ==
  /\ x = [bufsize |-> x.bufsize, cap |-> x.cap, nb |-> x.nb,
          next |-> x.next, prev |-> x.prev, mem |-> x.mem]
  /\ x.bufsize \in BufSizes /\ x.cap \in 0..UINT32_MAX /\ x.nb \in Nat
  /\ x.next \in DOMAIN chunk \cup {Null} /\ x.prev \in DOMAIN chunk \cup {Null}
  /\ IsMem(x.mem)
IteratorStates == [cur : DOMAIN chunk \cup {Null, Unmade}, position : Nat, eventNumber : Nat]
Calls == [op : {"none", "load", "get", "store"}, it : Iterators, ev : Events \cup {None},
          code : Codes, fresh : BOOLEAN]
Segments == [request : 0..UINT32_MAX, events : Seq(Events)]
Places == [seg : 1..Len(log), before : Nat, offs : Seq(Nat)]

\* The variables hold what their C++ types and the auxiliary roles say; a call
\* is running only on an iterator that exists.
TypeOK ==
  /\ DOMAIN chunk \subseteq Chunks
  /\ chunk = [c \in DOMAIN chunk |-> chunk[c]]
  /\ \A c \in DOMAIN chunk : IsChunk(chunk[c])
  /\ firstChunk \in DOMAIN chunk \cup {Null}
  /\ iter \in [Iterators -> IteratorStates]
  /\ call \in Calls
  /\ call.op = "store" => call.ev \in Events
  /\ Running => call.op # "none" /\ iter[call.it].cur # Unmade
  /\ log \in Seq(Segments)
  /\ place \in [DOMAIN chunk -> Places]

----------------------------------------------------------------------------
LastOfSegment(c) == chunk[c].next = Null \/ place[chunk[c].next].seg # place[c].seg

\* Event j of chunk c is where the sizes of the events before it put it.
Holds(c, j) ==
  LET o == place[c].offs[j]
  IN  /\ o \in DOMAIN chunk[c].mem
      /\ chunk[c].mem[o] = [ev |-> log[place[c].seg].events[place[c].before + j],
                            size |-> place[c].offs[j + 1] - o]

\* The chunks of a segment hold its events in order, one after the other in
\* their buffers, and nothing was overwritten (storeNextEvent).
ChunksHoldLog ==
  \A c \in DOMAIN chunk :
    LET nb == chunk[c].nb  offs == place[c].offs
    IN  /\ Len(offs) = nb + 1 /\ offs[1] = 0
        /\ \A j, k \in 1..(nb + 1) : j < k => offs[j] < offs[k]
        /\ nb <= offs[nb + 1] /\ offs[nb + 1] <= chunk[c].bufsize
        /\ place[c].before + nb <= Len(log[place[c].seg].events)
        /\ \A j \in 1..nb : Holds(c, j)

\* Every iterator stands on a boundary between two events of its chunk.
OnBoundary ==
  \A i \in Iterators :
    iter[i].cur \in DOMAIN chunk =>
      /\ iter[i].eventNumber <= chunk[iter[i].cur].nb
      /\ iter[i].position = place[iter[i].cur].offs[iter[i].eventNumber + 1]

\* A store that goes on in the chunk it has just allocated is at its beginning.
FreshAtStart ==
  Running /\ call.fresh => iter[call.it].cur \in DOMAIN chunk /\ iter[call.it].position = 0

\* An iterator's position and eventNumber always name the same event, however
\* the other iterators have grown or split the chunk meanwhile, and a store
\* that is refused after a split was refused by an empty chunk.
CursorOnEvent == OnBoundary /\ FreshAtStart

\* Only the last chunk of a segment can take events; the others are exactly
\* full, so that an iterator leaves them once it has read all they hold, and
\* the next one continues where they stop (allocateNextChunk).
FullBeforeLast ==
  \A c \in DOMAIN chunk :
    IF LastOfSegment(c)
    THEN place[c].before + chunk[c].nb = Len(log[place[c].seg].events)
    ELSE /\ chunk[c].cap = chunk[c].nb
         /\ place[chunk[c].next].before = place[c].before + chunk[c].nb

\* The last chunk of a segment can still take what the others left over.
ChunkCapacity ==
  \A c \in DOMAIN chunk :
    /\ chunk[c].nb <= chunk[c].cap
    /\ LastOfSegment(c) =>
         IF log[place[c].seg].request = UINT32_MAX
         THEN chunk[c].cap = UINT32_MAX
         ELSE place[c].before + chunk[c].cap = log[place[c].seg].request

\* No segment holds more events than were asked for.
SegmentsFit ==
  \A s \in 1..Len(log) :
    log[s].request # UINT32_MAX => Len(log[s].events) <= log[s].request

\* However often a segment is split, it takes the number of events that
\* backward() asked for and no more, and an unlimited one stays unlimited.
CapacityKept == ChunkCapacity /\ SegmentsFit

\* The list is doubly linked; its chunks are those of the newest segment, then
\* those of the one made before it, and so on to the end of the history.
WellLinked ==
  /\ \A c \in DOMAIN chunk :
       /\ chunk[c].next # Null => chunk[chunk[c].next].prev = c
       /\ chunk[c].prev # Null => chunk[chunk[c].prev].next = c
       /\ chunk[c].prev = Null <=> c = firstChunk
       /\ IF chunk[c].next = Null
          THEN place[c].seg = 1
          ELSE \/ place[chunk[c].next].seg = place[c].seg
               \/ /\ place[chunk[c].next].seg = place[c].seg - 1
                  /\ place[chunk[c].next].before = 0
  /\ \A c, d \in DOMAIN chunk :   \* a segment has one last chunk
       place[c].seg = place[d].seg /\ LastOfSegment(c) /\ LastOfSegment(d) => c = d
  /\ firstChunk = Null <=> DOMAIN chunk = {}
  /\ IF firstChunk = Null THEN Len(log) = 0
     ELSE place[firstChunk].seg = Len(log) /\ place[firstChunk].before = 0

\* No call ever reads bytes that are not a whole object.
NoGarbage == call.code # "GARBAGE"

\* Written events are never moved nor changed, whatever later stores do,
\* the refused and the torn ones included.
StoredEventsStay ==
  [][\A c \in DOMAIN chunk : \A j \in 1..chunk[c].nb :
       LET o == place[c].offs[j]
       IN  c \in DOMAIN chunk' /\ j <= chunk'[c].nb /\ place'[c].offs[j] = o
           /\ o \in DOMAIN chunk'[c].mem /\ chunk'[c].mem[o] = chunk[c].mem[o]]_vars

\* Every call returns, or stops the program at an assertion.
EveryCallReturns == Running ~> ~Running

\* "The event will come from the history or, if none are available, a new one
\* will be generated" (history.h:84-85): getNextEvent never lacks an event
\* as long as the history has room for one more.
GetNextEventGenerates == call.op = "get" => call.code \notin {"END_DATA", "DATA_STORE_ERROR"}

\* The inductive invariant: the properties above support one another.
IInv == TypeOK /\ ChunksHoldLog /\ OnBoundary /\ FullBeforeLast /\ ChunkCapacity /\ WellLinked

\* What the refinement below needs of a state.
RInv == IInv /\ SegmentsFit /\ FreshAtStart

----------------------------------------------------------------------------
(* The history as a log of segments. *)

AbstractCursor(i) ==
  LET it == iter[i]
  IN  CASE it.cur = Unmade -> [at |-> "unmade", seg |-> 0, off |-> 0]
        [] it.cur = Null   -> [at |-> "closed", seg |-> 0, off |-> 0]
        [] OTHER -> [at |-> "open", seg |-> place[it.cur].seg,
                     off |-> place[it.cur].before + it.eventNumber]

Log == INSTANCE SegmentedLog WITH
  cursor <- [i \in Iterators |-> AbstractCursor(i)],
  call <- [op |-> call.op, it |-> call.it, ev |-> call.ev, code |-> call.code],
  Unlimited <- UINT32_MAX,
  MayBeTooBig <- {e \in Events : \E size \in BufSizes : ContentEnd(e, 0) > size},
  MayOverflow <- {e \in Events : ContentEnd(e, 1) - 1 > OBJECTSIZE_MAX}

\* The chunks are "transparent to the user" (history.h:25): every step of the
\* code is a step of the log of segments or changes nothing the user can see.
RefinesLogSteps == Log!Init /\ [][Log!Next]_(Log!vars)

\* And calls do return.
RefinesLog == Log!Spec
=============================================================================
