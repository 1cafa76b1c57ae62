-------------------------- MODULE LecuyerStreamsProofs --------------------------
(***************************************************************************)
(* Proofs that streams keep to substreams of their own, and that every     *)
(* generator is at a point the fabric gave out, for any generators,        *)
(* streams and bounds.                                                     *)
(***************************************************************************)
EXTENDS LecuyerStreamsProps, SequenceTheorems, TLAPS

Fields == {"Cg", "Bg", "marked"}
Gens == DOMAIN gens \ loaded
Strs == DOMAIN strs \ loaded

\* Where nothing was loaded, a generator stands at the beginning of a substream
\* of a stream that the fabric gave out, to it alone; so do its streams.
GensStand == \A g \in Gens :
  /\ DOMAIN gens[g] = Fields
  /\ gens[g].Cg = gens[g].Bg /\ gens[g].Bg \in Points /\ gens[g].Bg.stream < nextSeed
StrsStand == \A s \in Strs :
  DOMAIN strs[s] = Fields /\ strs[s].Cg \in Points /\ strs[s].Cg.stream < nextSeed
GensDiffer == \A g, h \in Gens : gens[g].Bg.stream = gens[h].Bg.stream => g = h
StrsDiffer == \A s, t \in Strs :
  strs[s].Cg.stream = strs[t].Cg.stream /\ strs[s].Cg.sub = strs[t].Cg.sub => s = t
StrsBehind == \A s \in Strs, g \in Gens :
  strs[s].Cg.stream = gens[g].Bg.stream => strs[s].Cg.sub < gens[g].Bg.sub

IInv == nextSeed \in Nat /\ GensStand /\ StrsStand /\ GensDiffer /\ StrsDiffer /\ StrsBehind

----------------------------------------------------------------------------
LEMMA PointFields ==
  /\ \A p \in Points : p.stream \in Nat /\ p.sub \in Nat /\ p.off \in Nat /\ p # Uninit
  /\ \A i \in Nat : [stream |-> i, sub |-> 0, off |-> 0] \in Points
  BY LecuyerAssumption DEF Points

LEMMA NextSubstreamMoves ==
  ASSUME NEW p \in Points
  PROVE  /\ NextSubstream(p) \in Points
         /\ NextSubstream(p).stream = p.stream /\ NextSubstream(p).sub = p.sub + 1
  <1>1. p # Uninit /\ p.stream \in Nat /\ p.sub \in Nat
    BY PointFields
  <1>2. NextSubstream(p) = [p EXCEPT !.sub = p.sub + 1, !.off = 0]
    BY <1>1 DEF NextSubstream
  <1>3. NextSubstream(p) = [stream |-> p.stream, sub |-> p.sub + 1, off |-> 0]
    BY <1>1, <1>2 DEF Points
  <1> QED BY <1>1, <1>3 DEF Points

LEMMA NextValueStays ==
  ASSUME NEW p \in Points
  PROVE  /\ NextValue(p) \in Points
         /\ NextValue(p).stream = p.stream /\ NextValue(p).sub = p.sub
  BY PointFields DEF NextValue, Points

LEMMA StrsArePoints ==
  ASSUME IInv PROVE \A t \in Strs : DOMAIN strs[t] = Fields /\ strs[t].Cg \in Points
  BY DEF IInv, StrsStand

\* A step that gives out no seed and no substream, and moves streams inside
\* theirs only; it may load what it wants.
LEMMA Inside ==
  ASSUME IInv, UNCHANGED nextSeed,
         Gens' \subseteq Gens, Strs' \subseteq Strs,
         \A g \in Gens' : /\ DOMAIN gens'[g] = DOMAIN gens[g]
                          /\ gens'[g].Cg = gens[g].Cg /\ gens'[g].Bg = gens[g].Bg,
         \A s \in Strs' : /\ DOMAIN strs'[s] = Fields /\ strs'[s].Cg \in Points
                          /\ strs'[s].Cg.stream = strs[s].Cg.stream
                          /\ strs'[s].Cg.sub = strs[s].Cg.sub
  PROVE  IInv'
  <1>1. GensStand' /\ GensDiffer'
    BY DEF IInv, GensStand, GensDiffer
  <1>2. StrsStand' /\ StrsDiffer'
    BY DEF IInv, StrsStand, StrsDiffer
  <1>3. StrsBehind'
    BY DEF IInv, StrsBehind
  <1> QED BY <1>1, <1>2, <1>3 DEF IInv

\* The seed of a new generator is in no use.
LEMMA NewGeneratorStep ==
  ASSUME IInv, NEW g \in Generators, NewGenerator(g)
  PROVE  IInv'
  <1> DEFINE seed == [stream |-> nextSeed, sub |-> 0, off |-> 0]
  <1>1. /\ g \notin DOMAIN gens
        /\ gens' = Put(gens, g, [Cg |-> seed, Bg |-> seed, marked |-> seed])
        /\ nextSeed' = nextSeed + 1 /\ strs' = strs /\ loaded' = loaded
    BY DEF NewGenerator
  <1>2. seed \in Points /\ seed.stream = nextSeed /\ nextSeed \in Nat
    BY PointFields DEF IInv
  <1>3. gens'[g].Cg = seed /\ gens'[g].Bg = seed /\ DOMAIN gens'[g] = Fields
    BY <1>1 DEF Put, Fields
  <1>4. \A h \in Gens : h # g /\ gens'[h] = gens[h]
    BY <1>1 DEF Put, Gens
  <1>5. Gens' \subseteq Gens \cup {g} /\ Strs' = Strs
    BY <1>1 DEF Put, Gens, Strs
  <1> HIDE DEF seed
  <1>6. \A h \in Gens : /\ DOMAIN gens[h] = Fields
                        /\ gens[h].Cg = gens[h].Bg /\ gens[h].Bg \in Points
                        /\ gens[h].Bg.stream \in Nat /\ gens[h].Bg.stream < nextSeed
    BY PointFields DEF IInv, GensStand
  <1>7. \A s \in Strs : /\ DOMAIN strs[s] = Fields /\ strs[s].Cg \in Points
                        /\ strs[s].Cg.stream \in Nat /\ strs[s].Cg.stream < nextSeed
    BY PointFields DEF IInv, StrsStand
  <1>8. GensStand'
    BY <1>1, <1>2, <1>3, <1>4, <1>5, <1>6 DEF GensStand
  <1>9. StrsStand' /\ StrsDiffer'
    BY <1>1, <1>2, <1>5, <1>7 DEF StrsStand, StrsDiffer, IInv
  <1>10. GensDiffer'
    BY <1>2, <1>3, <1>4, <1>5, <1>6 DEF GensDiffer, IInv
  <1>11. StrsBehind'
    BY <1>1, <1>2, <1>3, <1>4, <1>5, <1>7 DEF StrsBehind, IInv
  <1> QED BY <1>1, <1>2, <1>8, <1>9, <1>10, <1>11 DEF IInv

\* A new stream takes the substream its generator stands at, which moves on.
LEMMA MakeStreamStep ==
  ASSUME IInv, NEW s \in Streams, NEW g \in Generators, NEW Cg, NEW want,
         MakeStream(s, g, Cg, want), Cg = gens[g].Cg \/ Cg = Uninit
  PROVE  IInv'
  <1>1. CASE UNCHANGED <<nextSeed, strs, gens, loaded>>
    <2>1. Gens' = Gens /\ Strs' = Strs
      BY <1>1 DEF Gens, Strs
    <2> QED BY <1>1, <2>1, StrsArePoints, Inside
  <1>2. CASE /\ strs' = Put(strs, s, [Cg |-> Cg, Bg |-> Cg, marked |-> Cg])
             /\ gens' = [gens EXCEPT ![g] = ResetNextSubstream(@)]
             /\ loaded' = (IF g \in loaded \/ Cg = Uninit THEN loaded \cup {s} ELSE loaded)
             /\ UNCHANGED nextSeed
    <2>1. g \in DOMAIN gens /\ s \notin DOMAIN strs
      BY DEF MakeStream
    <2>2. \A h \in Gens : h # g => gens'[h] = gens[h]
      BY <1>2 DEF Gens
    <2>3. \A t \in Strs : t # s /\ strs'[t] = strs[t]
      BY <1>2, <2>1 DEF Put, Strs
    <2>4. strs'[s].Cg = Cg /\ DOMAIN strs'[s] = Fields
      BY <1>2 DEF Put, Fields
    <2>5. g \in Gens => /\ DOMAIN gens'[g] = DOMAIN gens[g]
                        /\ gens'[g].Bg = NextSubstream(gens[g].Bg)
                        /\ gens'[g].Cg = NextSubstream(gens[g].Bg)
      <3>1. gens'[g] = ResetNextSubstream(gens[g])
        BY <1>2, <2>1
      <3>2. gens'[g] = [gens[g] EXCEPT !.Bg = NextSubstream(gens[g].Bg),
                                       !.Cg = NextSubstream(gens[g].Bg)]
        BY <3>1 DEF ResetNextSubstream
      <3> QED BY <3>2 DEF IInv, GensStand, Fields
    <2>6. Gens' \subseteq Gens /\ Strs' \subseteq Strs \cup {s}
      BY <1>2 DEF Gens, Strs, Put
    <2>7. s \in Strs' => g \in Gens /\ Cg = gens[g].Cg
      BY <1>2, <2>1 DEF Gens, Strs
    <2>8. \A h \in Gens : /\ DOMAIN gens[h] = Fields
                          /\ gens[h].Cg = gens[h].Bg /\ gens[h].Bg \in Points
                          /\ gens[h].Bg.sub \in Nat /\ gens[h].Bg.stream < nextSeed
      BY PointFields DEF IInv, GensStand
    <2>9. \A t \in Strs : /\ DOMAIN strs[t] = Fields
                          /\ strs[t].Cg \in Points /\ strs[t].Cg.sub \in Nat
                          /\ strs[t].Cg.stream < nextSeed
      BY PointFields DEF IInv, StrsStand
    <2>10. g \in Gens => /\ gens'[g].Bg \in Points /\ gens'[g].Bg.stream = gens[g].Bg.stream
                         /\ gens'[g].Bg.sub = gens[g].Bg.sub + 1 /\ gens'[g].Cg = gens'[g].Bg
                         /\ DOMAIN gens'[g] = DOMAIN gens[g]
      BY <2>5, <2>8, NextSubstreamMoves
    <2>11. s \in Strs' => g \in Gens /\ strs'[s].Cg = gens[g].Bg
      BY <2>4, <2>7, <2>8
    <2>12. GensStand' /\ GensDiffer'
      BY <1>2, <2>2, <2>6, <2>8, <2>10 DEF GensStand, GensDiffer, IInv
    <2>13. StrsStand'
      BY <1>2, <2>3, <2>4, <2>6, <2>8, <2>9, <2>11 DEF StrsStand
    <2>14. ASSUME s \in Strs', NEW t \in Strs
           PROVE  ~(strs'[s].Cg.stream = strs'[t].Cg.stream /\ strs'[s].Cg.sub = strs'[t].Cg.sub)
      <3>1. g \in Gens /\ strs'[s].Cg = gens[g].Bg /\ strs'[t] = strs[t]
        BY <2>3, <2>11, <2>14
      <3>2. strs[t].Cg.stream = gens[g].Bg.stream => strs[t].Cg.sub < gens[g].Bg.sub
        BY <3>1 DEF IInv, StrsBehind
      <3> QED BY <2>8, <2>9, <3>1, <3>2
    <2>15. StrsDiffer'
      BY <2>3, <2>6, <2>14 DEF StrsDiffer, IInv
    <2>16. ASSUME NEW t \in Strs', NEW h \in Gens', strs'[t].Cg.stream = gens'[h].Bg.stream
           PROVE  strs'[t].Cg.sub < gens'[h].Bg.sub
      <3>1. h \in Gens /\ gens'[h].Bg.stream = gens[h].Bg.stream
        BY <2>2, <2>6, <2>10
      <3>2. gens[h].Bg.sub <= gens'[h].Bg.sub /\ gens'[h].Bg.sub \in Nat
        BY <2>2, <2>8, <2>10, <3>1
      <3>3. CASE t \in Strs
        <4>1. strs[t].Cg.sub < gens[h].Bg.sub
          BY <2>3, <2>16, <3>1, <3>3 DEF IInv, StrsBehind
        <4> QED BY <2>3, <2>8, <2>9, <3>1, <3>2, <3>3, <4>1
      <3>4. CASE t = s
        <4>1. g \in Gens /\ strs'[t].Cg = gens[g].Bg
          BY <2>11, <2>16, <3>4
        <4>2. h = g
          BY <2>16, <3>1, <4>1 DEF IInv, GensDiffer
        <4> QED BY <2>8, <2>10, <4>1, <4>2
      <3> QED BY <2>6, <2>16, <3>3, <3>4
    <2>17. StrsBehind'
      BY <2>16 DEF StrsBehind
    <2> QED BY <1>2, <2>12, <2>13, <2>15, <2>17 DEF IInv
  <1> QED BY <1>1, <1>2 DEF MakeStream

LEMMA LoadGeneratorStep ==
  ASSUME IInv, NEW g \in Generators, NEW i, NEW whole, LoadGenerator(g, i, whole)
  PROVE  IInv'
  <1>1. nextSeed' = nextSeed /\ strs' = strs /\ loaded' = loaded \cup {g}
    BY DEF LoadGenerator
  <1>2. /\ DOMAIN gens' \subseteq DOMAIN gens \cup {g}
        /\ \A h \in DOMAIN gens : h # g => gens'[h] = gens[h]
    BY DEF LoadGenerator, Put
  <1>3. Gens' \subseteq Gens /\ Strs' \subseteq Strs /\ \A h \in Gens' : h # g
    BY <1>1, <1>2 DEF Gens, Strs
  <1>4. \A h \in Gens' : gens'[h] = gens[h]
    BY <1>2, <1>3 DEF Gens
  <1> QED BY StrsArePoints, <1>1, <1>3, <1>4, Inside

LEMMA MarkGeneratorStep ==
  ASSUME IInv, NEW g \in Generators, MarkGenerator(g)
  PROVE  IInv'
  <1>1. /\ nextSeed' = nextSeed /\ strs' = strs /\ loaded' = loaded
        /\ gens' = [gens EXCEPT ![g].marked = gens[g].Bg]
    BY DEF MarkGenerator
  <1>2. Gens' = Gens /\ Strs' = Strs
    BY <1>1 DEF Gens, Strs
  <1>3. \A h \in Gens : /\ DOMAIN gens'[h] = DOMAIN gens[h]
                        /\ gens'[h].Cg = gens[h].Cg /\ gens'[h].Bg = gens[h].Bg
    BY <1>1 DEF Gens
  <1> QED BY StrsArePoints, <1>1, <1>2, <1>3, Inside

LEMMA LoadStreamStep ==
  ASSUME IInv, NEW s \in Streams, NEW i, LoadStream(s, i)
  PROVE  IInv'
  <1>1. /\ nextSeed' = nextSeed /\ gens' = gens /\ loaded' = loaded \cup {s}
        /\ DOMAIN strs' = DOMAIN strs /\ \A t \in DOMAIN strs : t # s => strs'[t] = strs[t]
    BY DEF LoadStream
  <1>2. Gens' \subseteq Gens /\ Strs' \subseteq Strs /\ \A t \in Strs' : t # s
    BY <1>1 DEF Gens, Strs
  <1>3. \A t \in Strs' : strs'[t] = strs[t]
    BY <1>1, <1>2 DEF Strs
  <1> QED BY StrsArePoints, <1>1, <1>2, <1>3, Inside

LEMMA MarkStreamStep ==
  ASSUME IInv, NEW s \in Streams, MarkStream(s)
  PROVE  IInv'
  <1>1. /\ nextSeed' = nextSeed /\ gens' = gens /\ loaded' = loaded
        /\ strs' = [strs EXCEPT ![s].marked = strs[s].Cg]
    BY DEF MarkStream, aux
  <1>2. Gens' = Gens /\ Strs' = Strs
    BY <1>1 DEF Gens, Strs
  <1>3. \A t \in Strs : DOMAIN strs'[t] = Fields /\ strs'[t].Cg = strs[t].Cg
    BY <1>1, StrsArePoints DEF Strs, Fields
  <1> QED BY <1>1, <1>2, <1>3, StrsArePoints, Inside

LEMMA DrawStep ==
  ASSUME IInv, NEW s \in Streams, Draw(s)
  PROVE  IInv'
  <1>1. /\ nextSeed' = nextSeed /\ gens' = gens /\ loaded' = loaded
        /\ strs' = [strs EXCEPT ![s].Cg = NextValue(strs[s].Cg)]
    BY DEF Draw
  <1>2. Gens' = Gens /\ Strs' = Strs
    BY <1>1 DEF Gens, Strs
  <1>3. \A t \in Strs : /\ DOMAIN strs'[t] = Fields
                        /\ strs'[t].Cg = strs[t].Cg \/ strs'[t].Cg = NextValue(strs[t].Cg)
    BY <1>1, StrsArePoints DEF Strs, Fields
  <1>4. \A t \in Strs : /\ DOMAIN strs'[t] = Fields /\ strs'[t].Cg \in Points
                        /\ strs'[t].Cg.stream = strs[t].Cg.stream
                        /\ strs'[t].Cg.sub = strs[t].Cg.sub
    BY <1>3, StrsArePoints, NextValueStays
  <1> QED BY <1>1, <1>2, <1>4, Inside

LEMMA Stutter ==
  ASSUME IInv, UNCHANGED <<nextSeed, gens, strs, loaded>>
  PROVE  IInv'
  <1>1. Gens' = Gens /\ Strs' = Strs
    BY DEF Gens, Strs
  <1> QED BY <1>1, StrsArePoints, Inside

LEMMA Inductive == IInv /\ [Next]_vars => IInv'
  <1> SUFFICES ASSUME IInv, [Next]_vars PROVE IInv'
    OBVIOUS
  <1>1. ASSUME NEW g \in Generators, NewGenerator(g) PROVE IInv'
    BY <1>1, NewGeneratorStep
  <1>2. ASSUME NEW s \in Streams, NEW g \in Generators, NewStream(s, g) PROVE IInv'
    BY <1>2, MakeStreamStep DEF NewStream
  <1>3. ASSUME NEW s \in Streams, NEW g \in Generators, NEW i \in Objects("stream"),
               NewStreamFrom(s, g, i)
        PROVE  IInv'
    BY <1>3, MakeStreamStep DEF NewStreamFrom
  <1>4. ASSUME NEW g \in Generators, NEW i, NEW whole, LoadGenerator(g, i, whole) PROVE IInv'
    BY <1>4, LoadGeneratorStep
  <1>5. ASSUME NEW g \in Generators, MarkGenerator(g) PROVE IInv'
    BY <1>5, MarkGeneratorStep
  <1>6. ASSUME NEW s \in Streams, NEW i, LoadStream(s, i) PROVE IInv'
    BY <1>6, LoadStreamStep
  <1>7. ASSUME NEW s \in Streams, MarkStream(s) \/ Draw(s) PROVE IInv'
    BY <1>7, MarkStreamStep, DrawStep
  <1>8. ASSUME \/ \E g \in Generators : StoreGenerator(g)
               \/ \E s \in Streams : StoreStream(s)
               \/ UNCHANGED vars
        PROVE  IInv'
    BY <1>8, Stutter DEF StoreGenerator, StoreStream, vars, code, aux
  <1> QED BY <1>1, <1>2, <1>3, <1>4, <1>5, <1>6, <1>7, <1>8 DEF Next

\* No two streams draw from one substream, and no generator will make another
\* stream there, however generators and streams are used, if nothing is loaded
\* into them.
THEOREM StreamsOwnSubstreams == Spec => []OwnSubstreams
  <1>1. Init => IInv
    BY DEF Init, IInv, Gens, Strs, GensStand, StrsStand, GensDiffer, StrsDiffer, StrsBehind
  <1>2. IInv => OwnSubstreams
    BY DEF IInv, StrsDiffer, StrsBehind, Gens, Strs, OwnSubstreams
  <1> QED BY <1>1, <1>2, Inductive, PTL DEF Spec

----------------------------------------------------------------------------
(* Types, whatever is loaded.  A generator goes back to the states that it *)
(* or another one stored, so those must have been given out too.           *)

States == [Cg : Point, Bg : Point, marked : Point]
Object(n) == [kind : {"generator", "stream"}, point : Point, moment : 0..n]
Given(p, n) == p # Uninit => p.stream < n

ScalarsTyped == nextSeed \in Nat /\ aborted \in BOOLEAN /\ moments \in Nat
GensTyped ==
  /\ DOMAIN gens \subseteq Generators
  /\ \A g \in DOMAIN gens :
       gens[g] \in States /\ Given(gens[g].Bg, nextSeed) /\ Given(gens[g].marked, nextSeed)
StrsTyped ==
  /\ DOMAIN strs \subseteq Streams /\ DOMAIN wanted = DOMAIN strs
  /\ \A s \in DOMAIN strs : strs[s] \in States
SavedTyped ==
  /\ saved \in Seq(Object(moments))
  /\ \A i \in Objects("generator") : Given(saved[i].point, nextSeed)
MomentsTyped ==
  /\ DOMAIN moment = DOMAIN gens /\ DOMAIN spawned = DOMAIN gens
  /\ \A g \in DOMAIN gens : moment[g] \in 0..moments
TInv == ScalarsTyped /\ GensTyped /\ StrsTyped /\ SavedTyped /\ MomentsTyped

LEMMA SavedKept ==
  ASSUME ScalarsTyped, SavedTyped, saved' = saved,
         nextSeed' \in Nat, moments' \in Nat, nextSeed' >= nextSeed, moments' >= moments
  PROVE  SavedTyped'
  <1>1. saved \in Seq(Object(moments)) /\ nextSeed \in Nat /\ moments \in Nat
    BY DEF SavedTyped, ScalarsTyped
  <1>2. Object(moments) \subseteq Object(moments')
    BY <1>1 DEF Object
  <1>3. saved' \in Seq(Object(moments'))
    BY <1>1, <1>2, SeqMonotonic
  <1>4. ASSUME NEW i \in Objects("generator") PROVE Given(saved[i].point, nextSeed')
    <2>1. saved[i] \in Object(moments)
      BY <1>1, ElementOfSeq, LenProperties DEF Objects
    <2>2. saved[i].point \in Points => saved[i].point.stream \in Nat
      BY DEF Points
    <2>3. Given(saved[i].point, nextSeed) /\ saved[i].point \in Points \cup {Uninit}
      BY <2>1 DEF SavedTyped, Object, Point
    <2> QED BY <1>1, <2>2, <2>3 DEF Given
  <1> QED BY <1>3, <1>4 DEF SavedTyped, Objects

LEMMA StoreTyped ==
  ASSUME TInv, NEW kind \in {"generator", "stream"}, NEW point \in Point, NEW m \in 0..moments,
         kind = "generator" => Given(point, nextSeed), Store(kind, point, m),
         UNCHANGED <<nextSeed, moments>>
  PROVE  SavedTyped'
  <1> DEFINE o == [kind |-> kind, point |-> point, moment |-> m]
             S == Object(moments)
  <1>1. o \in S /\ o.kind = kind /\ o.point = point
    BY DEF Object
  <1>2. saved \in Seq(S) /\ saved' = Append(saved, o)
    BY DEF TInv, SavedTyped, Store
  <1> HIDE DEF o, S
  <1>3. /\ saved' \in Seq(S) /\ Len(saved) \in Nat /\ Len(saved') = Len(saved) + 1
        /\ saved'[Len(saved) + 1] = o /\ \A i \in 1..Len(saved) : saved'[i] = saved[i]
        /\ DOMAIN saved = 1..Len(saved) /\ DOMAIN saved' = 1..(Len(saved) + 1)
    BY <1>1, <1>2
  <1>4. ASSUME NEW i \in Objects("generator")' PROVE Given(saved'[i].point, nextSeed)
    <2>1. i \in 1..(Len(saved) + 1) /\ saved'[i].kind = "generator"
      BY <1>3 DEF Objects
    <2>2. CASE i = Len(saved) + 1
      BY <1>1, <1>3, <2>1, <2>2
    <2>3. CASE i # Len(saved) + 1
      <3>1. i \in Objects("generator") /\ saved'[i] = saved[i]
        BY <1>3, <2>1, <2>3 DEF Objects
      <3> QED BY <3>1 DEF TInv, SavedTyped
    <2> QED BY <2>2, <2>3
  <1> QED BY <1>3, <1>4 DEF SavedTyped, S

LEMMA NextPoints ==
  ASSUME NEW p \in Point
  PROVE  /\ NextValue(p) \in Point
         /\ NextSubstream(p) \in Point /\ (Given(p, nextSeed) => Given(NextSubstream(p), nextSeed))
  <1>1. CASE p = Uninit
    BY <1>1 DEF NextValue, NextSubstream, Point
  <1>2. CASE p # Uninit
    <2>1. p \in Points
      BY <1>2 DEF Point
    <2> QED BY <1>2, <2>1, NextValueStays, NextSubstreamMoves DEF Point, Given
  <1> QED BY <1>1, <1>2

LEMMA InitTyped == ASSUME Init PROVE TInv
  <1>1. saved \in Seq(Object(moments)) /\ DOMAIN saved = {}
    BY EmptySeq DEF Init
  <1> QED BY <1>1 DEF Init, TInv, ScalarsTyped, GensTyped, StrsTyped, SavedTyped, Objects,
                      MomentsTyped

\* A generator that is made, filled or marked goes on from a moment.
LEMMA GeneratorTyped ==
  ASSUME TInv, NEW g \in Generators, NEW x \in States, NEW m \in 0..moments',
         nextSeed' \in Nat, moments' \in Nat, nextSeed' >= nextSeed, moments' >= moments,
         Given(x.Bg, nextSeed'), Given(x.marked, nextSeed'),
         DOMAIN gens' = DOMAIN gens \cup {g}, gens'[g] = x,
         \A h \in DOMAIN gens : h # g => gens'[h] = gens[h],
         GoesOn(g, m), UNCHANGED <<strs, saved, aborted, wanted>>
  PROVE  TInv'
  <1>1. ScalarsTyped /\ GensTyped /\ StrsTyped /\ SavedTyped /\ MomentsTyped
    BY DEF TInv
  <1>2. nextSeed \in Nat /\ moments \in Nat
    BY <1>1 DEF ScalarsTyped
  <1>3. GensTyped'
    <2>1. ASSUME NEW h \in DOMAIN gens, h # g
          PROVE  /\ gens'[h] \in States
                 /\ Given(gens'[h].Bg, nextSeed') /\ Given(gens'[h].marked, nextSeed')
      <3>1. /\ gens'[h] = gens[h] /\ gens[h] \in States
            /\ Given(gens[h].Bg, nextSeed) /\ Given(gens[h].marked, nextSeed)
        BY <1>1, <2>1 DEF GensTyped
      <3>2. ASSUME NEW p \in Point, Given(p, nextSeed) PROVE Given(p, nextSeed')
        <4>1. p # Uninit => p.stream \in Nat
          BY DEF Point, Points
        <4> QED BY <1>2, <3>2, <4>1 DEF Given
      <3> QED BY <3>1, <3>2 DEF States
    <2> QED BY <1>1, <2>1 DEF GensTyped
  <1>4. StrsTyped'
    BY <1>1 DEF StrsTyped
  <1>5. SavedTyped'
    BY <1>1, SavedKept
  <1>6. MomentsTyped'
    <2>1. /\ DOMAIN moment' = DOMAIN moment \cup {g} /\ DOMAIN spawned' = DOMAIN spawned \cup {g}
          /\ moment'[g] = m /\ \A h \in DOMAIN moment : h # g => moment'[h] = moment[h]
      BY DEF GoesOn, Put
    <2>2. \A h \in DOMAIN gens : moment[h] \in 0..moments'
      BY <1>1, <1>2 DEF MomentsTyped
    <2> QED BY <1>1, <2>1, <2>2 DEF MomentsTyped
  <1>7. ScalarsTyped'
    BY <1>1 DEF ScalarsTyped
  <1> QED BY <1>3, <1>4, <1>5, <1>6, <1>7 DEF TInv

LEMMA NewGeneratorTyped == ASSUME TInv, NEW g \in Generators, NewGenerator(g) PROVE TInv'
  <1> DEFINE seed == [stream |-> nextSeed, sub |-> 0, off |-> 0]
             x == [Cg |-> seed, Bg |-> seed, marked |-> seed]
  <1>1. nextSeed \in Nat /\ moments \in Nat
    BY DEF TInv, ScalarsTyped
  <1>2. /\ g \notin DOMAIN gens /\ gens' = Put(gens, g, x)
        /\ nextSeed' = nextSeed + 1 /\ moments' = moments + 1
        /\ GoesOn(g, moments') /\ UNCHANGED <<strs, saved, aborted, wanted>>
    BY DEF NewGenerator
  <1>3. seed \in Point /\ seed.stream = nextSeed
    BY <1>1, PointFields DEF Point
  <1> HIDE DEF seed
  <1>4. x \in States /\ x.Bg = seed /\ x.marked = seed
    BY <1>3 DEF States
  <1> HIDE DEF x
  <1>5. Given(x.Bg, nextSeed') /\ Given(x.marked, nextSeed')
    BY <1>1, <1>2, <1>3, <1>4 DEF Given
  <1>6. /\ DOMAIN gens' = DOMAIN gens \cup {g} /\ gens'[g] = x
        /\ \A h \in DOMAIN gens : h # g => gens'[h] = gens[h]
    BY <1>2 DEF Put
  <1>7. moments' \in 0..moments' /\ moments' \in Nat /\ nextSeed' \in Nat
        /\ nextSeed' >= nextSeed /\ moments' >= moments
    BY <1>1, <1>2
  <1> QED BY <1>2, <1>4, <1>5, <1>6, <1>7, GeneratorTyped

LEMMA LoadGeneratorTyped ==
  ASSUME TInv, NEW g \in Generators, NEW i \in Objects("generator"), NEW whole \in BOOLEAN,
         LoadGenerator(g, i, whole)
  PROVE  TInv'
  <1> DEFINE point == IF whole THEN saved[i].point ELSE Uninit
             m == IF point = Uninit THEN 0 ELSE saved[i].moment
             x == IF g \in DOMAIN gens THEN [gens[g] EXCEPT !.Bg = point]
                  ELSE [Cg |-> Uninit, Bg |-> point, marked |-> Uninit]
  <1>1. nextSeed \in Nat /\ moments \in Nat
    BY DEF TInv, ScalarsTyped
  <1>2. saved[i] \in Object(moments) /\ Given(saved[i].point, nextSeed)
    BY ElementOfSeq, LenProperties DEF TInv, SavedTyped, Objects
  <1>3. point \in Point /\ Given(point, nextSeed) /\ m \in 0..moments
    BY <1>1, <1>2 DEF Object, Point, Given
  <1>4. /\ UNCHANGED <<nextSeed, strs, saved, aborted, moments, wanted>> /\ GoesOn(g, m)
        /\ gens' = IF g \in DOMAIN gens THEN [gens EXCEPT ![g].Bg = point]
                   ELSE Put(gens, g, [Cg |-> Uninit, Bg |-> point, marked |-> Uninit])
    BY DEF LoadGenerator
  <1> HIDE DEF point, m
  <1>5. x \in States /\ x.Bg = point /\ Given(x.marked, nextSeed)
    <2>1. CASE g \in DOMAIN gens
      <3>1. gens[g] \in States /\ Given(gens[g].marked, nextSeed)
        BY <2>1 DEF TInv, GensTyped
      <3> QED BY <1>3, <2>1, <3>1 DEF States
    <2>2. CASE g \notin DOMAIN gens
      BY <1>3, <2>2 DEF States, Point, Given
    <2> QED BY <2>1, <2>2
  <1>6. DOMAIN gens' = DOMAIN gens \cup {g} /\ gens'[g] = x
        /\ \A h \in DOMAIN gens : h # g => gens'[h] = gens[h]
    BY <1>4 DEF Put
  <1> HIDE DEF x
  <1>7. Given(x.Bg, nextSeed') /\ Given(x.marked, nextSeed')
    BY <1>3, <1>4, <1>5 DEF Given
  <1> QED BY <1>1, <1>3, <1>4, <1>5, <1>6, <1>7, GeneratorTyped

LEMMA MarkGeneratorTyped == ASSUME TInv, NEW g \in Generators, MarkGenerator(g) PROVE TInv'
  <1> DEFINE x == [gens[g] EXCEPT !.marked = gens[g].Bg]
  <1>1. nextSeed \in Nat /\ moments \in Nat
    BY DEF TInv, ScalarsTyped
  <1>2. /\ g \in DOMAIN gens /\ gens' = [gens EXCEPT ![g].marked = gens[g].Bg]
        /\ nextSeed' = nextSeed /\ moments' = moments + 1
        /\ GoesOn(g, moments') /\ UNCHANGED <<strs, saved, aborted, wanted>>
    BY DEF MarkGenerator
  <1>3. gens[g] \in States /\ Given(gens[g].Bg, nextSeed)
    BY <1>2 DEF TInv, GensTyped
  <1>4. x \in States /\ x.Bg = gens[g].Bg /\ x.marked = gens[g].Bg
    BY <1>3 DEF States
  <1>5. DOMAIN gens' = DOMAIN gens \cup {g} /\ gens'[g] = x
        /\ \A h \in DOMAIN gens : h # g => gens'[h] = gens[h]
    BY <1>2
  <1> HIDE DEF x
  <1>6. Given(x.Bg, nextSeed') /\ Given(x.marked, nextSeed')
    BY <1>2, <1>3, <1>4 DEF Given
  <1>7. moments' \in 0..moments' /\ moments' \in Nat /\ nextSeed' \in Nat
        /\ nextSeed' >= nextSeed /\ moments' >= moments
    BY <1>1, <1>2
  <1> QED BY <1>2, <1>4, <1>5, <1>6, <1>7, GeneratorTyped

\* The other steps leave the seed and the moments alone.
LEMMA StreamStepTyped ==
  ASSUME TInv, UNCHANGED <<nextSeed, moments, moment>>, aborted' \in BOOLEAN,
         GensTyped', StrsTyped', SavedTyped',
         DOMAIN gens' = DOMAIN gens, DOMAIN spawned' = DOMAIN spawned
  PROVE  TInv'
  BY DEF TInv, ScalarsTyped, MomentsTyped

LEMMA MakeStreamTyped ==
  ASSUME TInv, NEW s \in Streams, NEW g \in Generators, NEW Cg \in Point, NEW want,
         MakeStream(s, g, Cg, want)
  PROVE  TInv'
  <1>1. /\ g \in DOMAIN gens /\ UNCHANGED <<nextSeed, saved, moments, moment>>
    BY DEF MakeStream
  <1>2. SavedTyped'
    BY <1>1 DEF TInv, SavedTyped, Objects, Given
  <1>3. CASE aborted' = TRUE /\ UNCHANGED <<strs, gens, spawned, wanted, loaded>>
    <2>1. GensTyped' /\ StrsTyped'
      BY <1>1, <1>3 DEF TInv, GensTyped, StrsTyped, Given
    <2> QED BY <1>1, <1>2, <1>3, <2>1, StreamStepTyped
  <1>4. CASE /\ strs' = Put(strs, s, [Cg |-> Cg, Bg |-> Cg, marked |-> Cg])
             /\ gens' = [gens EXCEPT ![g] = ResetNextSubstream(@)]
             /\ spawned' = [spawned EXCEPT ![g] = Append(@, Cg)]
             /\ wanted' = Put(wanted, s, want)
             /\ UNCHANGED aborted
    <2>1. gens[g] \in States /\ Given(gens[g].Bg, nextSeed) /\ Given(gens[g].marked, nextSeed)
      BY <1>1 DEF TInv, GensTyped
    <2> DEFINE n == NextSubstream(gens[g].Bg)
               x == [gens[g] EXCEPT !.Bg = n, !.Cg = n]
    <2>2. n \in Point /\ Given(n, nextSeed)
      BY <2>1, NextPoints DEF States
    <2>3. gens' = [gens EXCEPT ![g] = x]
      BY <1>4 DEF ResetNextSubstream
    <2> HIDE DEF n
    <2>4. x \in States /\ x.Bg = n /\ x.marked = gens[g].marked
      BY <2>1, <2>2 DEF States
    <2> HIDE DEF x
    <2>5. GensTyped'
      <3>1. \A h \in DOMAIN gens : /\ gens'[h] \in States
                                   /\ Given(gens'[h].Bg, nextSeed) /\ Given(gens'[h].marked, nextSeed)
        BY <2>1, <2>2, <2>3, <2>4 DEF TInv, GensTyped
      <3> QED BY <1>1, <2>3, <3>1 DEF GensTyped, TInv, Given
    <2>6. StrsTyped'
      BY <1>4 DEF TInv, StrsTyped, Put, States
    <2>7. aborted' \in BOOLEAN
      BY <1>4 DEF TInv, ScalarsTyped
    <2> QED BY <1>1, <1>2, <1>4, <2>3, <2>5, <2>6, <2>7, StreamStepTyped
  <1> QED BY <1>3, <1>4 DEF MakeStream

\* A step that changes one stream only.
LEMMA OneStreamTyped ==
  ASSUME TInv, NEW s \in DOMAIN strs, NEW x \in States, strs' = [strs EXCEPT ![s] = x],
         DOMAIN wanted' = DOMAIN wanted,
         UNCHANGED <<nextSeed, gens, saved, aborted, moments, moment, spawned>>
  PROVE  TInv'
  <1>1. GensTyped' /\ SavedTyped'
    BY DEF TInv, GensTyped, SavedTyped, Objects, Given
  <1>2. StrsTyped'
    BY DEF TInv, StrsTyped
  <1> QED BY <1>1, <1>2, StreamStepTyped DEF TInv, ScalarsTyped

LEMMA StoreStepTyped ==
  ASSUME TInv, SavedTyped', UNCHANGED <<nextSeed, gens, strs, aborted, aux>>
  PROVE  TInv'
  <1>1. GensTyped' /\ StrsTyped'
    BY DEF TInv, GensTyped, StrsTyped, Given, aux
  <1> QED BY <1>1, StreamStepTyped DEF TInv, ScalarsTyped, aux

LEMMA InductiveTypes == TInv /\ [Next]_vars => TInv'
  <1> SUFFICES ASSUME TInv, [Next]_vars PROVE TInv'
    OBVIOUS
  <1>0. /\ \A g \in DOMAIN gens : gens[g] \in States /\ Given(gens[g].marked, nextSeed)
        /\ \A s \in DOMAIN strs : strs[s] \in States
    BY DEF TInv, GensTyped, StrsTyped
  <1>1. ASSUME NEW g \in Generators, StoreGenerator(g) PROVE TInv'
    <2> DEFINE m == IF gens[g].marked = Uninit THEN 0 ELSE moment[g]
    <2>1. /\ g \in DOMAIN gens /\ Store("generator", gens[g].marked, m)
          /\ UNCHANGED <<nextSeed, gens, strs, aborted, aux>> /\ UNCHANGED moments
      BY <1>1 DEF StoreGenerator, aux
    <2>2. gens[g].marked \in Point /\ Given(gens[g].marked, nextSeed)
      BY <1>0, <2>1 DEF States
    <2>3. m \in 0..moments
      BY <2>1 DEF TInv, MomentsTyped, ScalarsTyped
    <2> HIDE DEF m
    <2>4. SavedTyped'
      BY <2>1, <2>2, <2>3, StoreTyped
    <2> QED BY <2>1, <2>4, StoreStepTyped
  <1>2. ASSUME NEW s \in Streams, StoreStream(s) PROVE TInv'
    <2>1. /\ s \in DOMAIN strs /\ Store("stream", strs[s].marked, 0)
          /\ UNCHANGED <<nextSeed, gens, strs, aborted, aux>> /\ UNCHANGED moments
      BY <1>2 DEF StoreStream, aux
    <2>2. strs[s].marked \in Point /\ 0 \in 0..moments
      BY <1>0, <2>1 DEF States, TInv, ScalarsTyped
    <2>3. SavedTyped'
      BY <2>1, <2>2, StoreTyped
    <2> QED BY <2>1, <2>3, StoreStepTyped
  <1>3. ASSUME NEW s \in Streams, NEW g \in Generators, NewStream(s, g) PROVE TInv'
    <2>1. g \in DOMAIN gens /\ MakeStream(s, g, gens[g].Cg, gens[g].Cg)
      BY <1>3 DEF NewStream
    <2>2. gens[g].Cg \in Point
      BY <1>0, <2>1 DEF States
    <2> QED BY <2>1, <2>2, MakeStreamTyped
  <1>4. ASSUME NEW s \in Streams, NEW g \in Generators, NEW i \in Objects("stream"),
               NewStreamFrom(s, g, i)
        PROVE  TInv'
    BY <1>4, MakeStreamTyped DEF NewStreamFrom, Point
  <1>5. ASSUME NEW s \in Streams, NEW i \in Objects("stream"), LoadStream(s, i) PROVE TInv'
    <2> DEFINE x == ResetStartSubstream([strs[s] EXCEPT !.Cg = saved[i].point])
    <2>1. /\ s \in DOMAIN strs /\ strs' = [strs EXCEPT ![s] = x]
          /\ DOMAIN wanted' = DOMAIN wanted
          /\ UNCHANGED <<nextSeed, gens, saved, aborted, moments, moment, spawned>>
      BY <1>5 DEF LoadStream
    <2>2. x \in States
      <3> DEFINE p == saved[i].point
                 y == strs[s]
      <3>1. y \in States /\ p \in Point
        <4>1. saved[i] \in Object(moments)
          BY ElementOfSeq, LenProperties DEF TInv, SavedTyped, Objects
        <4> QED BY <1>0, <2>1, <4>1 DEF Object
      <3> HIDE DEF p, y
      <3>2. [y EXCEPT !.Cg = p] \in States
        BY <3>1 DEF States
      <3> QED BY <3>2 DEF ResetStartSubstream, States, y, p
    <2> HIDE DEF x
    <2> QED BY <2>1, <2>2, OneStreamTyped
  <1>6. ASSUME NEW s \in Streams, MarkStream(s) PROVE TInv'
    <2> DEFINE x == [strs[s] EXCEPT !.marked = strs[s].Cg]
    <2>1. /\ s \in DOMAIN strs /\ strs' = [strs EXCEPT ![s] = x] /\ DOMAIN wanted' = DOMAIN wanted
          /\ UNCHANGED <<nextSeed, gens, saved, aborted, moments, moment, spawned>>
      BY <1>6 DEF MarkStream, aux
    <2>2. x \in States
      BY <1>0, <2>1 DEF States
    <2> HIDE DEF x
    <2> QED BY <2>1, <2>2, OneStreamTyped
  <1>7. ASSUME NEW s \in Streams, Draw(s) PROVE TInv'
    <2> DEFINE x == [strs[s] EXCEPT !.Cg = NextValue(strs[s].Cg)]
    <2>1. /\ s \in DOMAIN strs /\ strs' = [strs EXCEPT ![s] = x] /\ DOMAIN wanted' = DOMAIN wanted
          /\ UNCHANGED <<nextSeed, gens, saved, aborted, moments, moment, spawned>>
      BY <1>7 DEF Draw
    <2>2. x \in States
      <3>1. strs[s] \in States /\ NextValue(strs[s].Cg) \in Point
        BY <1>0, <2>1, NextPoints DEF States
      <3> QED BY <3>1 DEF States
    <2> HIDE DEF x
    <2> QED BY <2>1, <2>2, OneStreamTyped
  <1>8. CASE UNCHANGED vars
    <2>1. SavedTyped' /\ UNCHANGED <<nextSeed, gens, strs, aborted, aux>>
      BY <1>8 DEF TInv, SavedTyped, Objects, Given, vars, code, aux
    <2> QED BY <2>1, StoreStepTyped
  <1> QED BY <1>1, <1>2, <1>3, <1>4, <1>5, <1>6, <1>7, <1>8, NewGeneratorTyped,
             LoadGeneratorTyped, MarkGeneratorTyped DEF Next

\* Every generator is at a point of a stream that the fabric gave out, also
\* when it went back to a state that was stored, or to a part of one.
THEOREM TypeCorrect == Spec => []TypeOK
  <1>1. Init => TInv
    BY InitTyped
  <1>2. TInv => TypeOK
    <2>1. \A x \in States : IsState(x)
      BY DEF States, IsState
    <2> QED BY <2>1 DEF TInv, ScalarsTyped, GensTyped, StrsTyped, SavedTyped, MomentsTyped,
                        TypeOK, Given, Object
  <1> QED BY <1>1, <1>2, InductiveTypes, PTL DEF Spec
===============================================================================
