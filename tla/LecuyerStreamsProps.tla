-------------------------- MODULE LecuyerStreamsProps --------------------------
(***************************************************************************)
(* What the streams of L'Ecuyer's generator are to give MarTo: independent *)
(* sequences, and the same ones again when an object is restored.          *)
(***************************************************************************)
EXTENDS LecuyerStreams

IsPrefix(s, t) == Len(s) <= Len(t) /\ \A i \in 1..Len(s) : s[i] = t[i]
Point == Points \cup {Uninit}
IsState(s) == s = [Cg |-> s.Cg, Bg |-> s.Bg, marked |-> s.marked] /\ {s.Cg, s.Bg, s.marked} \subseteq Point

\* Every point is in a stream that the fabric has given out.
TypeOK ==
  /\ nextSeed \in Nat /\ aborted \in BOOLEAN
  /\ DOMAIN gens \subseteq Generators /\ DOMAIN strs \subseteq Streams
  /\ \A g \in DOMAIN gens : IsState(gens[g])
  /\ \A s \in DOMAIN strs : IsState(strs[s])
  /\ saved \in Seq([kind : {"generator", "stream"}, point : Point, moment : 0..moments])
  /\ DOMAIN moment = DOMAIN gens /\ DOMAIN spawned = DOMAIN gens /\ DOMAIN wanted = DOMAIN strs
  /\ \A g \in DOMAIN gens : gens[g].Bg # Uninit => gens[g].Bg.stream < nextSeed

\* Each uses only a half of its state (randomLecuyer.cpp:56-57), which is right
\* as long as nothing is loaded: the halves of a generator agree, and a stream
\* has its substream's beginning behind it.
HalvesAgree ==
  /\ \A g \in DOMAIN gens \ loaded : gens[g].Cg = gens[g].Bg /\ gens[g].Bg.off = 0
  /\ \A s \in DOMAIN strs \ loaded :
       strs[s].Cg = [strs[s].Bg EXCEPT !.off = strs[s].Cg.off] /\ strs[s].Bg.off = 0

\* "a RandomLecuyerStream manages uses only one Lecuyer substream"
\* (randomLecuyer.cpp:41): no two streams draw from the same one, whatever
\* generators made them, and no generator will make another one there.
OwnSubstreams ==
  LET Place(p) == <<p.stream, p.sub>> IN
  /\ \A s, t \in DOMAIN strs \ loaded : Place(strs[s].Cg) = Place(strs[t].Cg) => s = t
  /\ \A s \in DOMAIN strs \ loaded, g \in DOMAIN gens \ loaded :
       strs[s].Cg.stream = gens[g].Bg.stream => strs[s].Cg.sub < gens[g].Bg.sub

\* assert(g->Bg[i] == g->Cg[i]) in the constructor of a stream
\* (randomLecuyer.cpp:168).
AssertionHolds == ~aborted

\* load is to "replace the current state by the one from the history"
\* (random.h:26): a generator then makes the streams that were made at first.
StreamsReplay ==
  \A g, h \in DOMAIN gens :
    moment[g] # 0 /\ moment[g] = moment[h] =>
      IsPrefix(spawned[g], spawned[h]) \/ IsPrefix(spawned[h], spawned[g])

\* The same for a stream: it is where the object that it loaded says.
LoadReplacesState == \A s \in DOMAIN strs : wanted[s] # Uninit => strs[s].Cg = wanted[s]
=============================================================================
