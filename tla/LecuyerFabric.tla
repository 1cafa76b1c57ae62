----------------------------- MODULE LecuyerFabric -----------------------------
(***************************************************************************)
(* RandomLecuyer, the fabric that gives threads their random generators    *)
(* (randomLecuyer.cpp).  Its six words hold the seed of the next one.      *)
(* newRandomStreamGenerator copies them into a new generator and moves     *)
(* them one stream on, the first three words, then the other three.        *)
(* Nothing is locked: threads interleave between two accesses to a word.   *)
(* A word is the number of the stream whose seed it belongs to, or Torn    *)
(* if it was computed from words of different streams.                     *)
(***************************************************************************)
EXTENDS Naturals, Sequences

CONSTANTS Threads,
          Torn,
          MaxGenerators   \* bound on the calls

VARIABLES nextSeed,   \* RandomLecuyer::nextSeed
          pc,         \* [Threads -> the place in newRandomStreamGenerator, or 0]
          Bg,         \* [Threads -> Bg of the generator being made]
          s,          \* [Threads -> the words MatVecModM has read]
          seeds       \* Auxiliary: Bg of the generators returned
vars == <<nextSeed, pc, Bg, s, seeds>>

Words == 1..6
Unset == [w \in Words |-> 0]

\* The accesses to nextSeed, in program order: the constructor copies the words;
\* MatVecModM, called for each half, reads its vector and then writes it.
Accesses(op, first, last) == [n \in 1..(last - first + 1) |-> <<op, first + n - 1>>]
LecuyerAdvanceStream ==
  Accesses("read", 1, 3) \o Accesses("write", 1, 3) \o Accesses("read", 4, 6) \o Accesses("write", 4, 6)
newRandomStreamGenerator == Accesses("copy", 1, 6) \o LecuyerAdvanceStream

HalfOf(w) == IF w <= 3 THEN 1..3 ELSE 4..6
\* A product with A1p127 or A2p127 is the seed of the next stream.
MatVecModM(v, w) == IF \A u \in HalfOf(w) : v[u] = v[w] THEN v[w] + 1 ELSE Torn

Init ==
  /\ nextSeed = Unset
  /\ pc = [t \in Threads |-> 0]
  /\ Bg = [t \in Threads |-> Unset] /\ s = [t \in Threads |-> Unset]
  /\ seeds = << >>

Call(t) ==
  /\ pc[t] = 0
  /\ Len(seeds) + 1 <= MaxGenerators
  /\ pc' = [pc EXCEPT ![t] = 1]
  /\ UNCHANGED <<nextSeed, Bg, s, seeds>>

At(t, op, w) == pc[t] \in DOMAIN newRandomStreamGenerator /\ newRandomStreamGenerator[pc[t]] = <<op, w>>
Advance(t) == pc' = [pc EXCEPT ![t] = @ + 1]

Copy(t, w) ==
  /\ At(t, "copy", w) /\ Advance(t)
  /\ Bg' = [Bg EXCEPT ![t][w] = nextSeed[w]]
  /\ UNCHANGED <<nextSeed, s, seeds>>

Read(t, w) ==
  /\ At(t, "read", w) /\ Advance(t)
  /\ s' = [s EXCEPT ![t][w] = nextSeed[w]]
  /\ UNCHANGED <<nextSeed, Bg, seeds>>

Write(t, w) ==
  /\ At(t, "write", w) /\ Advance(t)
  /\ nextSeed' = [nextSeed EXCEPT ![w] = MatVecModM(s[t], w)]
  /\ UNCHANGED <<Bg, s, seeds>>

Return(t) ==
  /\ pc[t] = Len(newRandomStreamGenerator) + 1
  /\ seeds' = Append(seeds, Bg[t])
  /\ pc' = [pc EXCEPT ![t] = 0]
  /\ UNCHANGED <<nextSeed, Bg, s>>

Next == \E t \in Threads : \/ Call(t) \/ Return(t)
                           \/ \E w \in Words : Copy(t, w) \/ Read(t, w) \/ Write(t, w)

Spec == Init /\ [][Next]_vars

----------------------------------------------------------------------------
\* "this object can used in parallel by different threads" (random.h:131): each
\* call of newRandomStreamGenerator gives a generator on a stream of its own.
GeneratorsDiffer == \A m, n \in DOMAIN seeds : m # n => seeds[m] # seeds[n]
=============================================================================
