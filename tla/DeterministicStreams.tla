------------------------- MODULE DeterministicStreams -------------------------
(***************************************************************************)
(* Random objects (random.h) on the streams of RandomDeterministic         *)
(* (randomDeterministic.cpp): values are drawn from a current stream, more *)
(* streams are made, and the marked state is stored into objects of a      *)
(* history, from which any Random object can be restored.  The values of a *)
(* stream are the positions it has; a draw that throws has moved, too.     *)
(***************************************************************************)
EXTENDS Integers, Sequences

CONSTANTS Randoms,     \* the Random objects of the program
          NStreams,    \* how many streams the fabric was given
          Garbage,     \* what reading beyond the end of an object may give
          MaxId,       \* bound: value of next_stream_id
          MaxPos,      \* bound: value of next_pos
          MaxMoments,  \* bound: states marked with markCurrentState
          MaxSaved     \* bound: objects in the history

ASSUME StreamsAssumption ==
  /\ NStreams \in Nat \ {0} /\ Garbage \subseteq Nat
  /\ MaxId \in Nat \ {0} /\ MaxPos \in Nat /\ MaxMoments \in Nat /\ MaxSaved \in Nat

VARIABLES created,  \* the Random objects built so far
          gen,      \* their generator: [next_stream_id, marked_next_stream_id]
          crs,      \* their current stream: [stream_id, next_pos, marked_pos]
          others,   \* the set of ids of the other streams they made (their positions are
                    \* neither stored nor shared, and left out)
          saved,    \* objects of the history: the fields, and the moment stored
          moments,  \* Auxiliary: how many states were marked
          moment,   \* Auxiliary: the marked moment an object goes on from; 0 from
                    \* a load that failed to one that succeeds
          mark,     \* Auxiliary: its state at its last mark, << >> after a failed load
          spawned,  \* Auxiliary: the ids taken by newRandomStream since that moment
          drawn     \* Auxiliary: the values taken from crs since that moment
code == <<created, gen, crs, others, saved>>
aux == <<moments, moment, mark, spawned, drawn>>
vars == <<code, aux>>

----------------------------------------------------------------------------
Exists(id) == id < NStreams   \* sgen->stream(id) throws otherwise

Stream(id) == [stream_id |-> id, next_pos |-> 0, marked_pos |-> 0]
Generator(id) == [next_stream_id |-> id, marked_next_stream_id |-> id]

MarkedStream(st) == [st EXCEPT !.marked_pos = st.next_pos]
MarkedGenerator(g) == [g EXCEPT !.marked_next_stream_id = g.next_stream_id]

Fields_Current(g, st) == <<g.next_stream_id, st.stream_id, st.next_pos>>
Fields(g, st) == <<g.marked_next_stream_id, st.stream_id, st.marked_pos>>
Current(g, st) == <<g.next_stream_id, st.stream_id, st.next_pos>>

\* Reading an object cut after its first k fields; a field that is missing is
\* given some value (if that read ends at all) and the load stops with an error.
LoadGenerator_MarkOnly(g, f, k, garbage) ==
  IF k = 0 THEN [g EXCEPT !.next_stream_id = garbage]
  ELSE [g EXCEPT !.marked_next_stream_id = f[1]]
LoadGenerator(g, f, k, garbage) ==
  IF k = 0 THEN [g EXCEPT !.next_stream_id = garbage] ELSE Generator(f[1])

\* The position is read into marked_pos, which is then marked from next_pos.
LoadStream(st, f, k, garbage) ==
  CASE k < 2 -> [st EXCEPT !.stream_id = garbage]
    [] k >= 2 /\ ~Exists(f[2]) -> [st EXCEPT !.stream_id = f[2]]
    [] k = 2 /\ Exists(f[2]) -> [st EXCEPT !.stream_id = f[2], !.marked_pos = garbage]
    [] OTHER -> MarkedStream([st EXCEPT !.stream_id = f[2], !.marked_pos = f[3]])

Loaded(f, k) == k = 3 /\ Exists(f[2])

\* The auxiliary variables when o goes on from moment m with that mark.
Continue(o, m, marked) ==
  /\ moment' = [moment EXCEPT ![o] = m]
  /\ mark' = [mark EXCEPT ![o] = marked]
  /\ spawned' = [spawned EXCEPT ![o] = << >>]
  /\ drawn' = [drawn EXCEPT ![o] = << >>]

----------------------------------------------------------------------------
Init ==
  /\ created = {}
  /\ gen = [o \in Randoms |-> Generator(0)]
  /\ crs = [o \in Randoms |-> Stream(0)]
  /\ others = [o \in Randoms |-> {}]
  /\ saved = << >>
  /\ moments = 0
  /\ moment = [o \in Randoms |-> 0]
  /\ mark = [o \in Randoms |-> << >>]
  /\ spawned = [o \in Randoms |-> << >>]
  /\ drawn = [o \in Randoms |-> << >>]

\* Random(fabric): the first stream of a new generator, then a mark.
NewRandom(o) ==
  /\ o \notin created /\ moments < MaxMoments
  /\ created' = created \cup {o}
  /\ gen' = [gen EXCEPT ![o] = Generator(1)]
  /\ crs' = [crs EXCEPT ![o] = Stream(0)]
  /\ moments' = moments + 1
  /\ Continue(o, moments', Current(Generator(1), Stream(0)))
  /\ UNCHANGED <<others, saved>>

\* Random(fabric, istream): neither constructor looks at what load returns; the
\* one of the stream marks whatever was read, the members of the generator are
\* not initialised.
NewRandomFrom(o, s, k) ==
  /\ o \notin created
  /\ \E g0, garbage \in Garbage :
       LET f == saved[s].fields
           g == LoadGenerator(Generator(g0), f, k, garbage)
           st == MarkedStream(LoadStream(Stream(0), f, k, garbage))
       IN  /\ k >= 2 => Exists(f[2])   \* else the constructor throws: no object
           /\ created' = created \cup {o}
           /\ gen' = [gen EXCEPT ![o] = g]
           /\ crs' = [crs EXCEPT ![o] = st]
           /\ IF Loaded(f, k) THEN Continue(o, saved[s].moment, Current(g, st))
              ELSE Continue(o, 0, << >>)
  /\ UNCHANGED <<others, saved, moments>>

Load(o, s, k) ==
  /\ o \in created
  /\ \E garbage \in Garbage :
       LET f == saved[s].fields
           g == LoadGenerator(gen[o], f, k, garbage)
           st == IF k = 0 THEN crs[o] ELSE LoadStream(crs[o], f, k, garbage)
       IN  /\ gen' = [gen EXCEPT ![o] = g]
           /\ crs' = [crs EXCEPT ![o] = st]
           /\ IF Loaded(f, k) THEN Continue(o, saved[s].moment, Current(g, st))
              ELSE Continue(o, 0, << >>)
  /\ UNCHANGED <<created, others, saved, moments>>

MarkCurrentState(o) ==
  /\ o \in created /\ moments < MaxMoments
  /\ gen' = [gen EXCEPT ![o] = MarkedGenerator(@)]
  /\ crs' = [crs EXCEPT ![o] = MarkedStream(@)]
  /\ moments' = moments + 1
  /\ Continue(o, IF moment[o] = 0 THEN 0 ELSE moments', Current(gen[o], crs[o]))
  /\ UNCHANGED <<created, others, saved>>

StoreMarkedState(o) ==
  /\ o \in created /\ Len(saved) < MaxSaved
  /\ saved' = Append(saved, [fields |-> Fields(gen[o], crs[o]), moment |-> moment[o], mark |-> mark[o]])
  /\ UNCHANGED <<created, gen, crs, others, aux>>

NewRandomStream_NoCheck(o) ==
  /\ o \in created /\ gen[o].next_stream_id < MaxId
  /\ gen' = [gen EXCEPT ![o].next_stream_id = @ + 1]
  /\ spawned' = [spawned EXCEPT ![o] = Append(@, gen[o].next_stream_id)]
  /\ others' = [others EXCEPT ![o] = @ \cup {gen[o].next_stream_id}]
  /\ UNCHANGED <<created, crs, saved, moments, moment, mark, drawn>>
NewRandomStream_SameId(o) ==
  /\ o \in created /\ gen[o].next_stream_id < MaxId /\ Len(spawned[o]) < MaxId
  /\ spawned' = [spawned EXCEPT ![o] = Append(@, gen[o].next_stream_id)]
  /\ UNCHANGED <<created, gen, crs, others, saved, moments, moment, mark, drawn>>
\* The id is taken before the constructor of the stream may throw.
NewRandomStream(o) ==
  /\ o \in created /\ gen[o].next_stream_id < MaxId
  /\ gen' = [gen EXCEPT ![o].next_stream_id = @ + 1]
  /\ spawned' = [spawned EXCEPT ![o] = Append(@, gen[o].next_stream_id)]
  /\ others' = IF Exists(gen[o].next_stream_id)
               THEN [others EXCEPT ![o] = @ \cup {gen[o].next_stream_id}]
               ELSE others
  /\ UNCHANGED <<created, crs, saved, moments, moment, mark, drawn>>

\* U01, Uab, Iab.  When the stream does not exist, next_pos may or may not have
\* been incremented before that is found out.
Draw(o) ==
  /\ o \in created /\ crs[o].next_pos < MaxPos
  /\ \/ crs' = [crs EXCEPT ![o].next_pos = @ + 1]
     \/ ~Exists(crs[o].stream_id) /\ UNCHANGED crs
  /\ drawn' = [drawn EXCEPT ![o] = Append(@, <<crs[o].stream_id, crs[o].next_pos>>)]
  /\ Len(drawn[o]) < MaxPos
  /\ UNCHANGED <<created, gen, others, saved, moments, moment, mark, spawned>>

Next ==
  \E o \in Randoms :
    \/ NewRandom(o) \/ NewRandomStream(o) \/ Draw(o)
    \/ MarkCurrentState(o) \/ StoreMarkedState(o)
    \/ \E s \in DOMAIN saved, k \in 0..3 : Load(o, s, k) \/ NewRandomFrom(o, s, k)

Spec == Init /\ [][Next]_vars
=============================================================================
