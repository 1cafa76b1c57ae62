---------------------------- MODULE LecuyerStreams ----------------------------
(***************************************************************************)
(* The generators and streams of RandomLecuyer (randomLecuyer.cpp).  A     *)
(* state of L'Ecuyer's generator, six doubles in the code, is the point it *)
(* stands for: so many values into such a substream of such a stream.      *)
(* Generators and streams both have a Bg, where their substream begins,    *)
(* and a Cg, where they are; the former are to use only Bg and the latter  *)
(* only Cg.  The Random object of random.h calls these operations on one   *)
(* generator, then on one stream.                                          *)
(***************************************************************************)
EXTENDS Integers, Sequences

CONSTANTS Generators, Streams,
          Uninit,     \* what memory holds before it is written, or torn doubles
          MaxSub,     \* bound: substreams a generator goes through
          MaxOffset,  \* bound: values drawn from a stream
          MaxMarks,   \* bound: states of generators marked
          MaxSaved    \* bound: objects in the history

Points == [stream : Nat, sub : Nat, off : Nat]
ASSUME LecuyerAssumption ==
  /\ Uninit \notin Points
  /\ MaxSub \in Nat /\ MaxOffset \in Nat /\ MaxMarks \in Nat /\ MaxSaved \in Nat

VARIABLES nextSeed,  \* of the fabric: the stream of its next generator
          gens,      \* [generators made -> [Cg, Bg, marked]]
          strs,      \* [streams made -> [Cg, Bg, marked]]
          saved,     \* objects of the history: [kind, point, moment]
          aborted,   \* an assertion failed
          moments,   \* Auxiliary: how many states of generators were marked
          moment,    \* Auxiliary: the marked state each generator goes on from
          spawned,   \* Auxiliary: where its streams since then begin
          loaded,    \* Auxiliary: the generators and streams that were ever loaded
          wanted     \* Auxiliary: where each stream should be, Uninit if undefined
code == <<nextSeed, gens, strs, saved, aborted>>
aux == <<moments, moment, spawned, loaded, wanted>>
vars == <<code, aux>>

----------------------------------------------------------------------------
Put(f, x, v) == [y \in DOMAIN f \cup {x} |-> IF y = x THEN v ELSE f[y]]

\* RngStream.c on points: the next value, the next substream, and the resets.
NextValue(p) == IF p = Uninit THEN p ELSE [p EXCEPT !.off = @ + 1]
NextSubstream(p) == IF p = Uninit THEN p ELSE [p EXCEPT !.sub = @ + 1, !.off = 0]
ResetStartSubstream(g) == [g EXCEPT !.Cg = g.Bg]
ResetNextSubstream_CgStays(g) == [g EXCEPT !.Bg = NextSubstream(g.Bg)]
ResetNextSubstream(g) == [g EXCEPT !.Bg = NextSubstream(g.Bg), !.Cg = NextSubstream(g.Bg)]

Objects(kind) == {i \in DOMAIN saved : saved[i].kind = kind}
Store(kind, point, m) ==
  /\ Len(saved) < MaxSaved
  /\ saved' = Append(saved, [kind |-> kind, point |-> point, moment |-> m])
GoesOn(g, m) == moment' = Put(moment, g, m) /\ spawned' = Put(spawned, g, << >>)

Init ==
  /\ nextSeed = 0
  /\ gens = << >> /\ strs = << >> /\ saved = << >>
  /\ aborted = FALSE
  /\ moments = 0 /\ moment = << >> /\ spawned = << >>
  /\ loaded = {} /\ wanted = << >>

----------------------------------------------------------------------------
(* Generators. *)

NewGenerator_SameSeed(g) ==
  LET seed == [stream |-> nextSeed, sub |-> 0, off |-> 0]
  IN  /\ g \notin DOMAIN gens /\ moments < MaxMarks
      /\ gens' = Put(gens, g, [Cg |-> seed, Bg |-> seed, marked |-> seed])
      /\ moments' = moments + 1
      /\ GoesOn(g, moments')
      /\ UNCHANGED <<nextSeed, strs, saved, aborted, loaded, wanted>>
\* newRandomStreamGenerator(): from the seed of the fabric, which advances.
NewGenerator(g) ==
  LET seed == [stream |-> nextSeed, sub |-> 0, off |-> 0]
  IN  /\ g \notin DOMAIN gens /\ moments < MaxMarks
      /\ gens' = Put(gens, g, [Cg |-> seed, Bg |-> seed, marked |-> seed])
      /\ nextSeed' = nextSeed + 1
      /\ moments' = moments + 1
      /\ GoesOn(g, moments')
      /\ UNCHANGED <<strs, saved, aborted, loaded, wanted>>

\* load() fills Bg, and leaves a part of it when the object is cut.
LoadGenerator(g, i, whole) ==
  LET point == IF whole THEN saved[i].point ELSE Uninit IN
  /\ gens' = IF g \in DOMAIN gens THEN [gens EXCEPT ![g].Bg = point]
             ELSE Put(gens, g, [Cg |-> Uninit, Bg |-> point, marked |-> Uninit])
  /\ GoesOn(g, IF point = Uninit THEN 0 ELSE saved[i].moment)
  /\ loaded' = loaded \cup {g}
  /\ UNCHANGED <<nextSeed, strs, saved, aborted, moments, wanted>>

MarkGenerator(g) ==
  /\ g \in DOMAIN gens /\ moments < MaxMarks
  /\ gens' = [gens EXCEPT ![g].marked = gens[g].Bg]
  /\ moments' = moments + 1
  /\ GoesOn(g, moments')
  /\ UNCHANGED <<nextSeed, strs, saved, aborted, loaded, wanted>>

StoreGenerator(g) ==
  /\ g \in DOMAIN gens
  /\ Store("generator", gens[g].marked, IF gens[g].marked = Uninit THEN 0 ELSE moment[g])
  /\ UNCHANGED <<nextSeed, gens, strs, aborted, aux>>

----------------------------------------------------------------------------
(* Streams. *)

\* A stream copies the Cg it is given and never sets the Bg that its
\* constructor asserts to be equal; the generator moves to its next substream.
MakeStream(s, g, Cg, want) ==
  /\ g \in DOMAIN gens /\ s \notin DOMAIN strs
  /\ gens[g].Bg # Uninit => gens[g].Bg.sub < MaxSub
  /\ Len(spawned[g]) < MaxSub
  /\ \/ /\ strs' = Put(strs, s, [Cg |-> Cg, Bg |-> Cg, marked |-> Cg])
        /\ gens' = [gens EXCEPT ![g] = ResetNextSubstream(@)]
        /\ spawned' = [spawned EXCEPT ![g] = Append(@, Cg)]
        /\ wanted' = Put(wanted, s, want)
        /\ loaded' = IF g \in loaded \/ Cg = Uninit THEN loaded \cup {s} ELSE loaded
        /\ UNCHANGED aborted
     \/ aborted' = TRUE /\ UNCHANGED <<strs, gens, spawned, wanted, loaded>>
  /\ UNCHANGED <<nextSeed, saved, moments, moment>>

NewStream(s, g) ==
  /\ g \in DOMAIN gens
  /\ MakeStream(s, g, gens[g].Cg, gens[g].Cg)

\* newRandomHistoryStream(istream): the istream is converted to a temporary
\* generator, whose Cg is not set, and the stream is made from that one.
NewStreamFrom(s, g, i) == MakeStream(s, g, Uninit, saved[i].point)

\* load() fills Cg, then goes back to Bg; a cut object, which fills a part of
\* Cg, comes to the same.
LoadStream(s, i) ==
  /\ s \in DOMAIN strs
  /\ strs' = [strs EXCEPT ![s] = ResetStartSubstream([@ EXCEPT !.Cg = saved[i].point])]
  /\ wanted' = [wanted EXCEPT ![s] = saved[i].point]
  /\ loaded' = loaded \cup {s}
  /\ UNCHANGED <<nextSeed, gens, saved, aborted, moments, moment, spawned>>

MarkStream(s) ==
  /\ s \in DOMAIN strs
  /\ strs' = [strs EXCEPT ![s].marked = strs[s].Cg]
  /\ UNCHANGED <<nextSeed, gens, saved, aborted, aux>>

StoreStream(s) ==
  /\ s \in DOMAIN strs
  /\ Store("stream", strs[s].marked, 0)
  /\ UNCHANGED <<nextSeed, gens, strs, aborted, aux>>

Draw(s) ==
  /\ s \in DOMAIN strs
  /\ strs[s].Cg # Uninit => strs[s].Cg.off < MaxOffset
  /\ wanted[s] # Uninit => wanted[s].off < MaxOffset
  /\ strs' = [strs EXCEPT ![s].Cg = NextValue(@)]
  /\ wanted' = [wanted EXCEPT ![s] = NextValue(@)]
  /\ UNCHANGED <<nextSeed, gens, saved, aborted, moments, moment, spawned, loaded>>

----------------------------------------------------------------------------
Next ==
  /\ ~aborted
  /\ \/ \E g \in Generators :
          \/ NewGenerator(g) \/ MarkGenerator(g) \/ StoreGenerator(g)
          \/ \E i \in Objects("generator"), whole \in BOOLEAN : LoadGenerator(g, i, whole)
     \/ \E s \in Streams :
          \/ \E g \in Generators :
               NewStream(s, g) \/ \E i \in Objects("stream") : NewStreamFrom(s, g, i)
          \/ \E i \in Objects("stream") : LoadStream(s, i)
          \/ MarkStream(s) \/ StoreStream(s) \/ Draw(s)

Spec == Init /\ [][Next]_vars
=============================================================================
