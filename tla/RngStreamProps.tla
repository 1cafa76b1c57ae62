---------------------------- MODULE RngStreamProps ----------------------------
(***************************************************************************)
(* What makes one sequence of numbers serve as many independent streams.   *)
(***************************************************************************)
EXTENDS RngStream

\* Residues of the moduli, and no triple zero, where a component would stay for
\* ever (CheckSeed).
IsState(s) ==
  \A c \in Components : s[c] \in Seq(0..(M[c] - 1)) /\ Len(s[c]) = 3 /\ s[c] # <<0, 0, 0>>

\* However it was reached, by values drawn one at a time or by powers of
\* matrices, forwards or backwards, a state is the one of its place in the
\* sequence: no product was rounded, no jump is too short or too long, and no
\* seed was taken that is not a state.
StateIsPlace ==
  /\ IsState(nextSeed) /\ nextSeed = Orbit[nextAt + 1]
  /\ g # NULL => \A part \in {"Cg", "Bg", "Ig"} :
       IsState(g[part]) /\ g[part] = Orbit[at[part] + 1]

\* U01 is in [0,1) and Iab in [min,max] (random.h:62, 68), also when two values
\* are combined and whatever is rounded; but for an antithetic value of increased
\* precision that is less than half a bit from 1.0, see ValueBelowOne.
ValuesInRange ==
  g # NULL /\ ~(g.Anti /\ g.IncPrec /\ Value = Unit) =>
    /\ Value \in 0..(Unit - 1)
    /\ \A i \in -2..2 : \A j \in i..3 : RandInt(i, j) \in i..j

\* An antithetic stream gives 1 - u where the other gives u, also when two values
\* are combined (RngStream.c:269), up to two units of the last bit that a double
\* below 1 has: the sums and the differences are rounded.
AntitheticMirrors ==
  g # NULL =>
    LET sum == U01d(g.Cg, TRUE) + U01d(g.Cg, FALSE)  Ulp == Unit \div Two53
    IN  \E whole \in {0, Unit} : sum - whole \in -2 * Ulp..2 * Ulp

\* "uniform random value in [0,1)" (random.h:62), without exception.
ValueBelowOne == g # NULL => Value < Unit
=============================================================================
