# MarTo in TLA+

MarTo simulates queueing networks by perfect sampling: a sequence of random
events is applied to a set of initial states until all of them have met, and the
sequence is extended *backwards* in time, and replayed, when they have not. What
must be right for this to work is that a history of events gives the same events
each time it is read, that the transitions keep the followed points around the
points they stand for, and that random numbers can be regenerated.

This directory holds TLA+ models of the library (`src/src/core`) and of its
standard transitions (`src/src/libtransition`), the TLC configurations that check
them, and TLAPS proofs. `PROJECT.json` maps every definition to the lines it was
translated from.

    tlc -config History.cfg MCHistory.tla        # any run of the table below
    tlapm HistoryProofs.tla                      # any *Proofs module

## 1. The system

The library takes no lock, sends no message and writes no file. Its interleavings
are those of the calls that one program makes on several objects (iterators of one
history, simulations on it, random objects on one fabric), and, for the random
fabric only, which the documentation lets threads share, those of two threads. Its
failures are refusals, exceptions in the middle of a call, objects read only in
part, calls of libltdl that fail, and failed assertions, which stop the program.

| Component | State | Operations | What makes it correct |
|---|---|---|---|
| Events history: `History`, `HistoryChunk`, `HistoryIterator` (`history.cpp`) | linked chunks with buffer, capacity, number of events; per iterator a chunk, a position, an event number | `iterator`, `backward`, `loadNextEvent`, `getNextEvent`, `storeNextEvent` | chunks are invisible: what was stored is read again, in order, by every iterator; a segment takes as many events as `backward` asked for |
| History streams (`historyStream*.h`) | position in a buffer, what is left of it, size of the object, `eofbit` | `write`, `read`, `finalize`, `CompactInt` | an object comes back whole or is refused; the reader stays in it and is told what is missing; integers are short and come back |
| Events and event types (`event.cpp`, `event-impl.h`) | status, type, vector of parameters | `setType`, `generate`, `load`, `store`, `clear`, `getParameter`, `registerParameter`, `apply` | a valid event offers its own parameters, however often the object was reused |
| Event parameters (`parameters*`) | `ParameterValues`: state, formal, values, buffer | `setFormalParameterValues`, `push`, `setCapacity`, `get` | life cycle UNUSED, FPLINKED, FPFILLED; buffers large enough |
| Queues, sets of states, transitions (`queue.cpp`, `state.cpp`, `transition.cpp`, `libtransition`) | number of clients per queue; a point or a hyperrectangle | `addClient`, `removeClient`, `ArrivalReject`, `Departure`, `JSQ2`, `apply` | capacities; clients conserved; the two corners enclose the images of all the initial states, so that they meet exactly when these have |
| Random objects (`random.h`, `randomDeterministic.cpp`, `randomLecuyer.cpp`) | a generator and a current stream, each with a marked state; the seed of the fabric | draws, `newRandomStreamGenerator`, `newRandomStream`, `markCurrentState`, `storeMarkedState`, `load` | the marked state is what is stored; a restored object repeats; streams are independent |
| L'Ecuyer's generator (`RngStream.c`, embedded) | six numbers three times: current, substream, stream | values, jumps, resets, seeds | a state is the one of its place in one sequence, however it was reached |
| Configuration (`global.cpp`) | registries by name and by number, sum of the rates | `registerTransition/Queue/EventType`, `getEventType`, `getRandomEventType` | numbers keep their meaning; types are drawn by their rates |
| Loading of transition libraries (`global.cpp`, `std_transitions.cpp`) | a static flag, the state of libltdl | `loadTransitionLibrary`, `initTransitionLibrary` | nothing is opened before libltdl is set up; the user's directory comes first |
| The program (`test_simple-forward.cpp`) | one `Event`, sets of states, iterators | the loop of a simulation | a set is where the events it has passed lead; a sample is final |
| Allocators (`allocator.h`) | declared, unused | | not modelled |
| GoogleTest, Autotools | third party | | not modelled |

How they interact: a configuration gives event types the codes that the history
stores; an iterator of the history fills one `Event` object, either from the
history or (as planned by the authors, see 6) from a random object; the event
applies its transition to a set of points, whose queues are indexed with the ids
the configuration gave. The state of the random object is to be stored in the
history, at its last mark.

What is hard here, and listed as hazards with their lines in `PROJECT.json`:
one iterator splits a chunk while another stands in it or at its end; a write
throws after half of its bytes; capacities, event counts and byte positions run
together through chunk boundaries, and off-by-one errors there lose or repeat an
event; two points stand for a whole set of states, and nothing in the code would
notice that they no longer do; the past grows while simulations run on it; objects
are reused, and loads stop half-way; a mark is taken, and stored only after many
draws; a product that is rounded gives a state that looks as random as the right
one; refused registrations must leave the codes of stored events alone.

## 2. The modules

Each component has a module with its state, actions and specification, a
`...Props` module that states its properties, an `MC...` module with the values
for TLC, and, where something is proved, a `...Proofs` module. Operators named
`Op_Variant` are mutated forms of `Op`: the bugs that the properties were tried
against. No action uses them.

**History** (`history.cpp`, `history.h`, `historyStream*.h`). `chunk`,
`firstChunk`, `iter` are the C++ objects; `call` is the call in progress and its
result. A call takes one step per turn of the loops of `loadNextEvent`,
`readyToStore` and `storeNextEvent`: `NextChunk`, `EndOfHistory`, `EndOfData`,
`ReadEvent`, `NotAtEnd`, `WriteEvent`, `Split` (the exception, the new chunk and
the retry), `TooBig`, `Abort` (the assertion on an iterator without a chunk).
Bytes are positions: the header is aligned on two bytes, the content follows, and
`mem` says which object begins where; a write that stops in the middle leaves no
object. `log` and `place` are auxiliary: which events the user has stored, and
which of them each chunk holds. Falling off the end of `generateNextEvent`
(`history.cpp:111`) is undefined: `GenerateOutcomes` has each result that a build
was seen fit to give: a return code of either kind, or an abort.

**SegmentedLog** is the abstract specification of a history: segments of events
and cursors, no chunks, no bytes. `HistoryProps!RefinesLog` is the refinement,
with the mapping `AbstractCursor`; `RefinesLogSteps` is its safety half: the
initial states and the steps, without the fairness.

**Simulation** (`test_simple-forward.cpp`, with what the library does of it)
composes `SegmentedLog`, which `History` implements, and `Transitions`. Each
simulation has an iterator and a set; the program has one `Event`, "only one that
will change all the time". Between two calls, any simulation may load, store,
restart from the front (`Start`), and `Backward` extends the past. `Proceed` looks
at the return code and applies the event. The auxiliary `from` remembers where a
simulation started and with which set.

**HistoryStream** (`historyStream.h`, `historyStream-impl.h`): one object, written
and read. `buf`, `bufsize`, `objectsize` and `eof` are the fields of the streams;
`Write` and `Consume` are `write` and `read` with the padding of `std::align`;
`WriteByte` and `ReadByte` are turns of the loops of `writeToHOS` and
`readFromHIS` for an integer type of `Width` bits, including the truncation of
shifts. A buffer may be too small, a reader may ask for fewer fields than were
written or for one more. `sval` has any value when the loop reads what is missing.
Powers of two are `pow2`, a function given by its recursive equation, so that the
proofs can use that.

**Transitions** (`queue.cpp`, `libtransition/*.cpp`): queues and what a transition
does to one point. **StateSpace** (`state.h`, `state.cpp`, `transition.cpp`) applies
it to sets: `inf` and `sup` are the corners that `HyperRectangle` keeps; the
auxiliary `inside` has the image of every point of the initial set. `ApplySet` is
the dispatch of `Transition::apply` and the visitor of `state.cpp`.

**EventObject** (`event.cpp`, `event-impl.h`, `parameters*`). One event, its
vector of `ParameterValues` as it is *reserved* and never resized, and event types
whose parameters are still being registered. `outcome` is the result of the last
call. `next_power2` is what it is on x86-64 (its shift count exceeds the width of
an `int`, `macros.h:22-25`).

**DeterministicStreams** (`random.h`, `randomDeterministic.cpp`). `gen` and `crs`
are the generator and the current stream of each `Random`. `Load(o, s, k)` reads
an object cut after `k` of its three fields; what a read beyond the end gives is
any value of `Garbage`. The auxiliary variables number the marked states, so that
two objects that go on from the same one can be compared.

**LecuyerStreams** (`randomLecuyer.cpp`, the calls into `RngStream.c`). Six doubles
are the point they stand for: stream, substream, offset. `Uninit` is memory that
was not written, or a mixture of two points. `nextSeed` of the fabric is never
initialised by the class (`randomLecuyer.h:46`): the model starts once the program
has set it. The assertion at `randomLecuyer.cpp:168` reads such memory: it passes
or stops the program.

**LecuyerFabric** (`randomLecuyer.cpp:260-271`): the same fabric under two threads,
one step per access to a word of `nextSeed`, in program order.

**RngStream** (`RngStream.c`): every function that changes a stream, with the
arithmetic it does. `D[x]` is the double nearest to an integer, exact up to `Two53`,
halves going to the even one, at any size; fractions are integers over `Unit`, a power
of two, so that `D` rounds them, too. `MultModM` has the split by `Two17` and all its
intermediate results; the values, `U01d` and `RandInt` round wherever the code does, from
`norm` on; `MatTwoPowModM` and `MatPowModM` follow their loops. The moduli, multipliers
and powers are constants. The auxiliary `at` says which place of the sequence
(`Orbit`, by the recurrence alone) each state should be at.

**Configuration** (`global.cpp`, `std_transitions.cpp`, constructors of
`EventType`, `Transition`, `QueueConfig`, `Point`). Rates are natural numbers, and
`Chosen(r)` is the loop of `getRandomEventType` for a draw `r`.
`LoadTransitionLibrary` is the initialization of libltdl by the first call, each
step of which may fail (`InitializeFails`: `ltdl` is the calls that succeeded, the
static flag stays unset and the next load begins again), then a library that is
missing, or whose `initTransitionLibrary` stops at the first name that exists.

## 3. What TLC checks

| Run | States | Shows |
|---|---|---|
| `history` | 292,826 | two iterators, three chunks of 4 or 7 bytes, an event that fits everywhere, one that fits only the larger buffer, an invalid one: the invariants, `StoredEventsStay`, the refinement `RefinesLogSteps`, and `EveryCallReturns` |
| `history_refusals` | 71,045 | one iterator, all ways to refuse: invalid, not storable, not loadable, longer than an object may be (`OBJECTSIZE_MAX` = 5 brings that limit into the buffer): the whole refinement `RefinesLog`, with its fairness |
| `simulation` | 1,084,276 | two simulations on two queues, two segments, three events, loads and stores in any order: `SetFollowsHistory`, `SampleIsFinal` |
| `history_stream` | 117,089 | 16-bit integers of both kinds, all values from -200 to 200 and those next to powers of two, in buffers with 1, 2 or 3 bytes for them; objects of up to three fields at even and odd addresses |
| `transitions` | 1,739 | arrivals and departures on all hyperrectangles of three queues and the outside, all three transitions on points |
| `jsq_joins_shortest` | violation | see 6 |
| `event_reuse` | 50,496 | two event types, three formals, one of which does not load, two under one name |
| `deterministic_streams` | 693,117 | two `Random` objects that mark, store, load whole and cut objects |
| `lecuyer_streams` | 773,234 | two generators, three streams, loads at any time |
| `fabric_threads` | violation | see 6 |
| `rng_stream` | 8,405 | moduli 113 and 109, doubles of 11 bits: values of both precisions, antithetic or not, resets, jumps forwards and backwards, legal and illegal seeds |
| `configuration` | 796,865 | three event types (two under one name, one of rate 0), three queues, two library transitions and one of the program, in any order, and one failure of libltdl at any of its calls |

The invariants of each run are described where they are defined. The ones that say
most:

- `RefinesLogSteps`: each step of the chunked history is a step of `SegmentedLog`, or
  changes nothing a user can see, whatever the other iterators did in between.
- `CursorOnEvent`, `FullBeforeLast`, `ChunksHoldLog`, `CapacityKept`: position,
  event number, capacity and contents agree through every split.
- `SetFollowsHistory`: the set of a simulation is where the events between its
  start and its iterator lead, however the past grew and whatever the other
  simulation did with the history and the shared event. `SampleIsFinal`: once all
  the states have met, starting further back gives the same sample.
- `Envelope` and `CouplingDetected`: perfect sampling stops at the right time,
  with the right state.
- `StaysInObject`, `ReadsBack`, `EofMeansMissing`, `Compact`: an object and its
  reader agree on where it ends, byte for byte. `TypeOK`, of that module: the reader of
  an integer that is there never shifts by more than its type allows.
- `KnownParametersAvailable`, `AbortsOnlyOnLateParameter`: the reused event object
  never offers a parameter of an earlier type.
- `StoredStateIsMarked`, `StreamsReplay`, `StreamsDiffer`; `OwnSubstreams`.
- `StateIsPlace`: values, resets and matrix jumps in both directions agree on one
  sequence, with no product rounded. `AntitheticMirrors`, up to two units of the last
  bit, and `ValuesInRange`, but for the 1.0 of section 6: both with the sums,
  differences and products of values rounded as doubles are.
- `CodesDecode`, `IdsFindQueues`, `DrawsFollowRates`, `LibrariesFound`.

**Bounds.** Constants whose names begin with `Max` are bounds of the model, in
guards; everything else about sizes comes from the code. Three chunks are the
fewest with a chunk that has both neighbours, in one segment (two splits) or in
several; the two buffer sizes make an event fit one chunk and not the other, and
leave a gap that alignment takes; a request of 0 makes a segment that is complete
when it is made. Two iterators are enough for one to change a chunk under
another, and no action involves more than one. `Capacity` has 1, 2 and 3, so that
some queue is full and another is not, and `INT_MAX` is one more than the largest.
Two marked moments and one stored object are the fewest where an object may go
back to the older one. In `simulation`, two segments and three events are the
fewest with a past that is put in front of a simulation that is under way and
events on both sides; simulations are interchangeable (symmetry). In `rng_stream` doubles
have 11 bits, and every size stands to the others as in the real generator: products
of two residues are above `Two53`, the parts into which `MultModM` splits them (by
2^3) below it, as are a multiplier times a residue; `Fact` (2^6) is below the moduli,
and m1 * `Fact` above `Two53`, so that the sums of `U01d` are rounded. The package
seed is such that a value drawn from place 9 on is the one of section 6. The two
components have periods that differ, a stream has 16 values and a substream 4, and
`MaxPlace` lets two streams begin. `MaxCalls` = 11 calls of libltdl before it is
initialized allow one failed initialization, at any of its six calls, before the one
that succeeds. The proofs
below hold without these bounds.

**Fairness.** `History` assumes `WF_vars(Step)` and `HistoryStream`
`WF_vars(Next)`: the next statement of a call that is running is executed, which a
single thread does. Nothing is assumed about which calls the program makes.
`EveryCallReturns` then says that no retry loop runs for ever, and
`EveryObjectTravels` that the loops of integers end, but for the one of 6.

**Deadlock** is not checked where the program may stop for good: a failed
assertion, an exhausted bound, the end of an object's travel. It is checked in
`configuration`, `rng_stream` and the `StateSpace` runs.

## 4. What is proved

The proofs hold for all values of the constants that satisfy the named
assumptions (`EventsAssumption`, `AddressAssumption`, `SizesAssumption` in
`History`, and so on). These say that addresses are distinct from `nullptr`, that
sizes are natural numbers, that there are finitely many queues (a configuration
registers them one by one), that a capacity leaves `addClient` room below
`INT_MAX`, that JSQ2 is given standard queues as destinations, the only ones
its comparison supports, that `backward` is asked for at least one event
(`RequestsAssumption`: it takes an unsigned number, and does nothing for 0),
that queues and event types are different objects, and that what is written to a
stream has a value of its type, in a buffer that lies in memory
(`StreamAssumption`). Every property of a passing run
that is not named at the end of this section is stated by a theorem.

Some operators fold over a sequence or a set: what a sequence of events does to a
set, the sum of rates, the number of clients. The library defines a fold by a
recursive function, and the provers know of such a function, as of `pow2`, only that
it was `CHOOSE`n. Each proof that needs one therefore shows first that the function
exists (`FoldExists`, `TotalExists`, `PowersExist`), then what it gives for one
element more (`FoldAppend`, `TotalValues`, `PowerValues`). Both are inductions over numbers, done with the set
of the numbers that a fact holds for (`SetInduction`, `SeqInduction`, from the
well-foundedness of `Nat`), since no theorem that takes a predicate can be used.

**HistoryProofs**: `TypeCorrect`, `ChunksAlwaysHoldLog`, `CursorsStayOnEvents`,
`OnlyLastChunkGrows`, `CapacityAlwaysKept`, `ListAlwaysWellLinked`,
`NeverReadsGarbage`, the action property `StoredEventsNeverMove`, and the refinement
`ChunksAreTransparent`. None of the
first six is inductive by itself. A store is only right if the iterator stands
where the last event of the chunk ends (`CursorOnEvent`), which is known because
the position is a boundary of the chunk (`ChunksHoldLog`), and a cursor that leaves
a full chunk lands at the right event only if the next chunk continues the same
segment (`FullBeforeLast`, `WellLinked`); splitting keeps that only if capacities
were kept (`CapacityKept`). Their conjunction `IInv` is inductive (`Inductive`), and
TLC checks all its parts in run `history`. The proof has one lemma per action,
with a step per conjunct, on top of lemmas about what stores and splits do to the
chunks and their places.

`ChunksAreTransparent` is that a history implements `SegmentedLog`
(`RefinesLogSteps`): the initial states are initial, and each step is a step of the
abstract log or changes nothing of it. To `IInv` its invariant (`RefinementInvariant`)
adds where the call in progress stands: an iterator that has not yet loaded anything
is at the start of its segment (`FreshAtStart`), and the events of a segment fit the
request that made it (`SegmentsFit`). Moving to the next chunk, or splitting one,
are stutters; reading and writing an event, reporting the end of the data or of the
history, refusals and `backward` are steps of the abstract log.

**HistoryStreamProofs**: `TypeCorrect`, `AlwaysStaysInObject`, `AlwaysReadsBack`,
`EofAlwaysMeansMissing`, `AlwaysCompact`, for integers of any width. An integer is described by what its bytes should be, without the loops: its
`Magnitude` is what is left of it without its sign, `Weight(j, item)` the bits in
front of its byte `j`, `Left(j, item)` what remains from there on, and
`Encoded(j, item)` the byte, which goes on as long as something remains behind it.
The invariant (`Inductive`) says that every field that was written lies where it
should, with these bytes (`FieldsStored`); that the header tells a finished object
from another (`HeaderStored`); that the writer, in the middle of an integer, holds
its next byte and what remains (`WriterPlace`); and that the reader holds the low
bits of the magnitude, as many as the bytes behind it carry (`ReaderPlace`). Both
loops then turn by the same lemmas on quotients and remainders by powers of two
(`LeftStep`, `LowStep`, from `DivDiv` and `ModParts`), and the byte that ends the
loop of the reader is the one with which the writer stopped (`LastByte`). That the
encoding is the shortest is `HoldsAll`: bytes hold an integer exactly when nothing
remains of it. TLC checked this invariant, too, on the inputs of `history_stream`.

**StateSpaceProofs**: `TypeCorrect` for all events; `EnvelopeHolds` and
`CouplingIsExact` when there are no JSQ2 events (`Jsqs = {}`), from the monotony of
`ArrivalReject` and `Departure`, and the fact that both corners belong to `inside`.
JSQ2 is excluded because it is not monotone (see 6): with it the statements are
false. `ClientsAreConserved` holds for all events: two points that differ at one
queue have populations that differ by as much (`OneQueueDiffers`), and a transition
is at most one `addClient` followed by one `removeClient`.

Both this module and the next begin with the same lemmas on what a transition does to
a point.

**SimulationProofs**: `SetsFollowHistory`, for any number of simulations, all
transitions and all requests; `TypeCorrect` and `SamplesAreFinal` when there are no
JSQ2 events. The invariant (`SimulationInvariant`) says that the set of a simulation
is where the events that its iterator has passed lead, but for the one that the shared
`Event` still holds for it between the call and its use (`SetLags`, `Upcoming`); and
that the segments an iterator has left are complete, so that what it has passed cannot
change any more (`PassedComplete`). Samples are final because what
a simulation that starts further back has passed is a prefix followed by all that
the other one has passed: it arrives inside the other's set, which a sequence of
monotone transitions keeps around it, and which is one point.

**EventObjectProofs**: `ParametersOfValidEvents` and `AssertionsHold`. The invariant
adds that the parameters known to the event are a prefix of those its type has
now: types only grow.

**DeterministicStreamsProofs**: `TypeCorrect`, `StoredIsMarked`, `StreamsAlwaysReplay`,
`StreamsAlwaysDiffer`. The invariant adds that the mark of an object is what its
auxiliary variable says (`MarkIsMark`), that no moment lies in the future
(`MomentsPast`), that all objects, live or stored, that have a moment have the same
first stream (`SameStart`), and that the streams made since are the next ones from
there (`SpawnedInOrder`). Construction, marks and loads are one lemma (`Going`).

**LecuyerStreamsProofs**: `TypeCorrect` and `StreamsOwnSubstreams`. For the first, the
invariant `TInv` says the same of the states that were stored, which a load brings
back: every point stored for a generator, unless it is a mixture, belongs to a stream
that the fabric had given out. For the second, it adds that the two
halves of a generator agree, that no two generators have the same stream
(`GensDiffer`), and that all seeds given out lie behind `nextSeed`; all of it only
for objects into which nothing was loaded. Every action but two moves nothing to
another substream (`Inside`).

**ConfigurationProofs**: `TypeCorrect`, `CodesAlwaysDecode`, `IdsAlwaysFindQueues`,
`LibrariesAlwaysFound`, `DrawsAlwaysFollowRates`. The first three rest on the places of
objects in the vectors being their numbers (`InPlace`), which also makes the vectors
injective, on a new object having no number yet
(`Range(eventTypesVector) = Range(eventTypesMap)`), and on a point being a prefix of
the vector of queues (`PointsArePrefixes`). `LibrariesAlwaysFound` rests on `Preceded`,
which prefixes and concatenations of the sequence of calls keep. `DrawsAlwaysFollowRates`
rests on `ratesSum` being the sum of the rates in the vector (`RatesInv`), which every
registration, refused or not, keeps: the draws that reach a type first are those
between two partial sums, as many as its rate (`HitsFollowRates`).

**Only model-checked**: `RefinesLog` (its fairness; its steps are
`ChunksAreTransparent`), `EveryCallReturns` and `EveryObjectTravels`, because liveness
is out of the prover's reach; and RngStream (`StateIsPlace`, `ValuesInRange`,
`AntitheticMirrors`). What it computes are products of matrices and their powers, by
loops that are operators of the model and not steps: TLC compares them with their
definition over all the bounded inputs; a proof would be an induction over each of
these loops, and has not been tried.

## 5. What is not modelled

- GoogleTest, with its generated headers and its sources, is most of the C and
  C++ text of the repository (about 32,000 of 36,600 lines); it is third-party and
  no part of the simulator. `PROJECT.json` maps somewhat more than half of the code
  lines of the library itself.
- Memory allocation succeeds; nobody deletes a history or an iterator in use;
  histories are used by one thread.
- The values of parameters; the values of random numbers outside `RngStream`, where
  only whose they are and which place in which stream they have is kept; the
  rounding of doubles in rates, and in the quotients `p / m` and `a * s / m` before
  `(long)` drops their fraction: rounded up to an integer, it moves the remainder by `m`
  from one side of 0 to the other, where it may be anyway, and the last `if` makes it
  positive.
- The real constants of `RngStream.c`: its matrices of jumps are 2^76 and 2^127 steps
  long. `rng_stream` computes the matrices of its small generator with the code's
  own `MatTwoPowModM`.
- `Anti` and `Ig` of the states that `randomLecuyer.cpp` builds are not set
  (`randomLecuyer.cpp:68`): `RngStream` models a stream made by
  `RngStream_CreateStream`.
- The constructors of `Point` that take values; `LecuyerFabric` keeps the accesses
  in program order, where a compiler or a processor may do otherwise.
- `ParameterValues::release` and the variadic and random parameters have no
  caller or no definition in the library. A `Union` set is always empty, since
  nothing can add to it. `allocator.h` is not used.
- The work of libltdl, printing, the Autotools build.

## 6. Where code and documentation disagree

Runs that end in a violation:

- `jsq_joins_shortest`: JSQ2 sends a client to the *longer* of its two queues
  (`jsq2.cpp:24`), the pseudo-code to the shorter (`info.org:78`).
- `fabric_threads`: two threads that call `newRandomStreamGenerator` of one fabric
  get the same seed (`randomLecuyer.cpp:266`, against `random.h:131`).

### Further counterexamples

Each line gives TLC a property taken from a comment or an
assertion, and a counterexample (of the files with several, TLC stops at the first
property that fails: comment it out to see the next):

| Configuration, module | Property | What the counterexample shows |
|---|---|---|
| `HistoryGenerate.cfg`, MCHistory | `GetNextEventGenerates` | `getNextEvent` is to generate an event when none is left (`history.h:84-85`); `generateNextEvent` is not written |
| `HistoryStreamEnds.cfg`, MCHistoryStream | `EveryReadEnds` | an integer read past the end of its object is read for ever when the byte left in `sval` has its highest bit set (`historyStream-impl.h:41`); TLC shows the turn of the loop that changes nothing as stuttering |
| `StateSpaceRectangle.cfg`, MCStateSpace | `StaysRectangle` | JSQ2 does not override `apply` on hyperrectangles (`transition.cpp:30-31`) and is not monotone: `inf` is no longer below `sup` |
| `EventDisagreements.cfg`, MCEventObject | `BufferHoldsValues` | `setCapacity` shrinks buffers that are too large and never grows one (`parameters-impl.h:49`, against `parameters.h:317`) |
| `EventDisagreements.cfg`, MCEventObject | `ValidMeansAvailable` | a parameter registered on the type of a valid event has no slot (`event.h:45`, FIXME in `event.cpp:29-30`) |
| `EventDisagreements.cfg`, MCEventObject | `ParametersReused` | `setType` reserves the vector without resizing it: parameters are never reused (`parameters.h:246-247`) |
| `DeterministicDraws.cfg`, MCDeterministicStreams | `DrawsReplay` | `load` of a deterministic stream overwrites the position it read (`randomDeterministic.cpp:95-98`, against `random.h:26`) |
| `LecuyerDisagreements.cfg`, MCLecuyerStreams | `AssertionHolds` | `randomLecuyer.cpp:168` compares `Bg`, which the constructor never sets |
| `LecuyerDisagreements.cfg`, MCLecuyerStreams | `StreamsReplay` | a loaded generator has the right `Bg`, but copies its old `Cg` into new streams |
| `LecuyerDisagreements.cfg`, MCLecuyerStreams | `LoadReplacesState` | a loaded stream goes back to the beginning of its own substream (`randomLecuyer.cpp:194`) |
| `RngStreamRange.cfg`, MCRngStream | `ValueBelowOne` | an antithetic stream of increased precision returns exactly 1.0, and `RngStream_RandInt` then `j + 1` (`RngStream.c:270`, against `random.h:62` and `68`) |

The last one needs a first combination near m1, so that `1 - u` is a few times 2^-32, and
a second one that leaves a negative number above -2^-54 of it, to which 1.0 is added.
The library sets `IncPrec` in every stream and leaves `Anti` as the memory was
(`randomLecuyer.cpp:68`); it never calls `RngStream_SetAntithetic`. `RngStream.c`,
compiled, does the same with its own constants: from the seed (1898701142, 777,
1492527976, 89594152, 3387282538, 5), `RngStream_RandInt(g, 0, 9)` is 10.

Also met, and not stated as properties: `registerParameter` is documented to return
false for a name in use (`event.h:108`) and throws `ExistingName`; the program of
`test_simple-forward.cpp` applies its event before it looks at the result of its
first load (lines 104-105).

## 7. Plan

Done, in this order, the most important behaviour first: History with SegmentedLog
and its proofs; StateSpace; EventObject; DeterministicStreams; LecuyerStreams;
Configuration; then Simulation, the composition; HistoryStream; RngStream;
LecuyerFabric; the loading of libraries; the proofs about Configuration and
LecuyerStreams; the refinement of `SegmentedLog`; the proofs about Simulation; the
sums of clients and of rates; the proofs about HistoryStream.

Left, in order:

1. `MultModM` within `Two53` for any modulus; `ValuesInRange`.
2. `RandomHistory`: objects of a history that hold the marked state of a `Random`,
   between events.
