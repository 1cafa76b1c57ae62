------------------------------- MODULE RngStream -------------------------------
(***************************************************************************)
(* L'Ecuyer's random number generator as the library embeds it             *)
(* (RngStream.c), with its two moduli, its multipliers and its powers as   *)
(* parameters.  A state is two triples of numbers, one for each modulus.   *)
(* Doubles hold these numbers, exactly as long as they stay within 2^53:   *)
(* every operation whose result may be larger goes through D.  A fraction  *)
(* is its numerator over Unit, a power of two, and D rounds it, too.       *)
(***************************************************************************)
EXTENDS Integers, SequencesExt

CONSTANTS M,             \* <<m1, m2>>
          A12, A13N, A21, A23N,
          A13Inverse, A23Inverse,   \* of A13N modulo m1, of A23N modulo m2
          Two17, Two53,  \* two17, two53
          Fact,          \* 1 / fact
          Unit,          \* 1.0: a value and its product with fact are multiples of 1 / Unit
          SubPower,      \* 2^SubPower values in a substream,
          StreamPower,   \* 2^StreamPower in a stream
          Package,       \* the seed that the package starts with
          SeedsGiven,    \* arguments of SetSeed and SetPackageSeed, and
          AdvancesGiven, \* <<e, c>> of AdvanceState
          NULL,
          MaxPlace       \* bound on the values of the sequence

Components == 1..2

VARIABLES nextSeed,   \* the seed of the next stream
          g,          \* a stream, [Cg, Bg, Ig, Anti, IncPrec]
          at,         \* Auxiliary: [Cg, Bg, Ig], the places they should be at
          nextAt      \* Auxiliary: and that of nextSeed
vars == <<nextSeed, g, at, nextAt>>

----------------------------------------------------------------------------
(* Arithmetic. *)

\* The double nearest to an integer: between 2^53 and 2^54 they are two apart, and
\* so on; half way between two, it is the even multiple.
Powers == {2^k : k \in 1..16}
Gap(x) == CHOOSE e \in Powers :
            \E size \in {x, -x} : Two53 * (e \div 2) < size /\ size <= Two53 * e
D[x \in Int] ==
  LET e == Gap(x)  q == x \div e  r == x % e
  IN  IF x \in -Two53..Two53 THEN x
      ELSE IF 2 * r < e \/ (2 * r = e /\ q % 2 = 0) THEN q * e ELSE (q + 1) * e
\* (long) (x / m) drops the fraction.
Quotient(x, m) == IF x >= 0 THEN x \div m ELSE -((-x) \div m)
Positive[x \in Int, m \in Nat] ==
  LET r == D[x - D[Quotient(x, m) * m]] IN IF r < 0 THEN r + m ELSE r

MultModM_NoSplit(a, s, c, m) == Positive[D[D[a * s] + c], m]
MultModM(a, s, c, m) ==
  LET v  == D[D[a * s] + c]
      a1 == Quotient(a, Two17)
      w  == D[a1 * s]
      v1 == D[w - D[Quotient(w, m) * m]]
  IN  Positive[IF v >= Two53 \/ v <= -Two53
               THEN D[D[D[v1 * Two17] + D[(a - a1 * Two17) * s]] + c]
               ELSE v, m]

MatVecModM(A, s, m) ==
  [i \in 1..3 |-> FoldLeft(LAMBDA x, j : MultModM(A[i][j], s[j], x, m), 0, <<1, 2, 3>>)]

Transpose(V) == [i \in 1..3 |-> [j \in 1..3 |-> V[j][i]]]
MatMatModM(A, B, m) ==
  LET V == Transpose(B) IN Transpose([i \in 1..3 |-> MatVecModM(A, V[i], m)])

Square(B, m) == MatMatModM(B, B, m)
MatTwoPowModM(A, m, e) == FoldLeft(LAMBDA B, i : Square(B, m), A, [i \in 1..e |-> i])

Identity == <<<<1, 0, 0>>, <<0, 1, 0>>, <<0, 0, 1>>>>
MatPowModM(A, m, n) ==
  LET Turn(x) == [W |-> Square(x.W, m), n |-> x.n \div 2,
                  B |-> IF x.n % 2 = 1 THEN MatMatModM(x.W, x.B, m) ELSE x.B]
  IN  FoldLeft(LAMBDA x, i : IF x.n > 0 THEN Turn(x) ELSE x,
               [W |-> A, B |-> Identity, n |-> n], [i \in 1..n |-> i]).B

----------------------------------------------------------------------------
(* The matrices, for each component. *)

Ap0 == << <<<<0, 1, 0>>, <<0, 0, 1>>, <<-A13N, A12, 0>>>>,
          <<<<0, 1, 0>>, <<0, 0, 1>>, <<-A23N, 0, A21>>>> >>
InvA == << <<<<(A12 * A13Inverse) % M[1], 0, M[1] - A13Inverse>>, <<1, 0, 0>>, <<0, 1, 0>>>>,
           <<<<0, (A21 * A23Inverse) % M[2], M[2] - A23Inverse>>, <<1, 0, 0>>, <<0, 1, 0>>>> >>
Ap76 == << MatTwoPowModM(Ap0[1], M[1], SubPower), MatTwoPowModM(Ap0[2], M[2], SubPower) >>
Ap127 == << MatTwoPowModM(Ap0[1], M[1], StreamPower), MatTwoPowModM(Ap0[2], M[2], StreamPower) >>

Times(A, s) == <<MatVecModM(A[1], s[1], M[1]), MatVecModM(A[2], s[2], M[2])>>

ASSUME \A c \in Components : MatMatModM(InvA[c], Ap0[c], M[c]) = Identity

----------------------------------------------------------------------------
(* Values. *)

NextState(s) ==
  LET p == << D[D[A12 * s[1][2]] - D[A13N * s[1][1]]], D[D[A21 * s[2][3]] - D[A23N * s[2][1]]] >>
  IN  << <<s[1][2], s[1][3], Positive[p[1], M[1]]>>, <<s[2][2], s[2][3], Positive[p[2], M[2]]>> >>

\* The double nearest to 1 / (m1 + 1).
norm == D[Unit \div (M[1] + 1)]
\* The value that a combination c gives.
Value01 == [c \in 1..M[1], Anti \in BOOLEAN |->
              LET u == D[norm * c] IN IF Anti THEN D[Unit - u] ELSE u]
Combination(s) ==
  LET p1 == s[1][3]  p2 == s[2][3]
  IN  IF p1 > p2 THEN p1 - p2 ELSE p1 - p2 + M[1]
U01(s, Anti) == Value01[Combination(NextState(s)), Anti]

U01d_NotReduced(s, Anti) ==
  LET low == U01(NextState(s), Anti)
  IN  D[U01(s, Anti) + (IF Anti THEN D[low - Unit] ELSE low) \div Fact]
U01d_Added(s, Anti) ==
  LET sum == D[U01(s, Anti) + U01(NextState(s), Anti) \div Fact]
  IN  IF sum < Unit THEN sum ELSE D[sum - Unit]
\* Both last results are rounded again: diff + 1.0 may be 1.0.
U01d(s, Anti) ==
  LET low  == U01(NextState(s), Anti)
      sum  == D[U01(s, FALSE) + low \div Fact]
      diff == D[U01(s, TRUE) + D[low - Unit] \div Fact]
  IN  IF ~Anti THEN (IF sum < Unit THEN sum ELSE D[sum - Unit])
      ELSE IF diff < 0 THEN D[diff + Unit] ELSE diff

\* Unit is fine enough for every value to be multiplied by fact.
ASSUME /\ \E k \in 0..Unit : Unit = 2^k
       /\ \A c \in 1..M[1], Anti \in BOOLEAN : Value01[c, Anti] % Fact = 0

----------------------------------------------------------------------------
(* The package. *)

\* Auxiliary: the sequence that all states belong to, by its definition.
Orbit ==
  LET After(s) == << <<s[1][2], s[1][3], (A12 * s[1][2] - A13N * s[1][1]) % M[1]>>,
                     <<s[2][2], s[2][3], (A21 * s[2][3] - A23N * s[2][1]) % M[2]>> >>
  IN  FoldLeft(LAMBDA seq, i : Append(seq, After(Last(seq))), <<Package>>, [i \in 1..MaxPlace |-> i])
Place(seed) == SelectInSeq(Orbit, LAMBDA state : state = seed) - 1

Legal(seed) ==
  \A c \in Components : (\A i \in 1..3 : seed[c][i] < M[c]) /\ \E i \in 1..3 : seed[c][i] # 0

Init ==
  /\ nextSeed = Package /\ nextAt = 0
  /\ g = NULL
  /\ at = NULL

CreateStream ==
  /\ nextAt + 2^StreamPower <= MaxPlace
  /\ g' = [Cg |-> nextSeed, Bg |-> nextSeed, Ig |-> nextSeed, Anti |-> FALSE, IncPrec |-> FALSE]
  /\ nextSeed' = Times(Ap127, nextSeed)
  /\ at' = [Cg |-> nextAt, Bg |-> nextAt, Ig |-> nextAt] /\ nextAt' = nextAt + 2^StreamPower

DeleteStream ==
  /\ g' = NULL /\ at' = NULL
  /\ UNCHANGED <<nextSeed, nextAt>>

ResetStartStream ==
  /\ g' = [g EXCEPT !.Cg = g.Ig, !.Bg = g.Ig]
  /\ at' = [at EXCEPT !.Cg = at.Ig, !.Bg = at.Ig]
  /\ UNCHANGED <<nextSeed, nextAt>>

ResetNextSubstream ==
  /\ at.Bg + 2^SubPower <= MaxPlace
  /\ g' = [g EXCEPT !.Cg = Times(Ap76, g.Bg), !.Bg = Times(Ap76, g.Bg)]
  /\ at' = [at EXCEPT !.Cg = at.Bg + 2^SubPower, !.Bg = at.Bg + 2^SubPower]
  /\ UNCHANGED <<nextSeed, nextAt>>

ResetStartSubstream ==
  /\ g' = [g EXCEPT !.Cg = g.Bg]
  /\ at' = [at EXCEPT !.Cg = at.Bg]
  /\ UNCHANGED <<nextSeed, nextAt>>

\* A seed that is not legal is refused.
SetPackageSeed(seed) ==
  /\ Legal(seed)
  /\ nextSeed' = seed /\ nextAt' = Place(seed)
  /\ UNCHANGED <<g, at>>

SetSeed(seed) ==
  /\ Legal(seed)
  /\ g' = [g EXCEPT !.Cg = seed, !.Bg = seed, !.Ig = seed]
  /\ at' = [Cg |-> Place(seed), Bg |-> Place(seed), Ig |-> Place(seed)]
  /\ UNCHANGED <<nextSeed, nextAt>>

\* C = A^(2^e + c), or A^(-2^-e + c) for a negative e, or A^c for e = 0.
Advanced(e, c) ==
  LET B(k) == MatTwoPowModM((IF e > 0 THEN Ap0 ELSE InvA)[k], M[k], IF e > 0 THEN e ELSE -e)
      C(k) == MatPowModM((IF c >= 0 THEN Ap0 ELSE InvA)[k], M[k], IF c >= 0 THEN c ELSE -c)
      A(k) == IF e # 0 THEN MatMatModM(B(k), C(k), M[k]) ELSE C(k)
  IN  <<A(1), A(2)>>
\* A constant, so that TLC computes it once.
Jumps == [move \in AdvancesGiven |-> Advanced(move[1], move[2])]
Distance(e, c) == c + (CASE e > 0 -> 2^e [] e < 0 -> -(2^(-e)) [] OTHER -> 0)

AdvanceState(e, c) ==
  /\ at.Cg + Distance(e, c) \in 0..MaxPlace
  /\ g' = [g EXCEPT !.Cg = Times(Jumps[<<e, c>>], @)]
  /\ at' = [at EXCEPT !.Cg = @ + Distance(e, c)]
  /\ UNCHANGED <<nextSeed, nextAt>>

IncreasedPrecis(incp) == g' = [g EXCEPT !.IncPrec = incp] /\ UNCHANGED <<nextSeed, at, nextAt>>
SetAntithetic(a) == g' = [g EXCEPT !.Anti = a] /\ UNCHANGED <<nextSeed, at, nextAt>>

\* The value that RandU01 returns, what RandInt makes of it, and what it leaves.
Value == IF g.IncPrec THEN U01d(g.Cg, g.Anti) ELSE U01(g.Cg, g.Anti)
RandInt(i, j) == i + D[(j - i + 1) * Value] \div Unit
RandU01 ==
  LET n == IF g.IncPrec THEN 2 ELSE 1 IN
  /\ at.Cg + n <= MaxPlace
  /\ g' = [g EXCEPT !.Cg = IF g.IncPrec THEN NextState(NextState(@)) ELSE NextState(@)]
  /\ at' = [at EXCEPT !.Cg = @ + n]
  /\ UNCHANGED <<nextSeed, nextAt>>

Next ==
  \/ g = NULL /\ CreateStream
  \/ \E seed \in SeedsGiven : SetPackageSeed(seed)
  \/ /\ g # NULL
     /\ \/ DeleteStream \/ ResetStartStream \/ ResetNextSubstream \/ ResetStartSubstream
        \/ \E seed \in SeedsGiven : SetSeed(seed)
        \/ \E move \in AdvancesGiven : AdvanceState(move[1], move[2])
        \/ \E b \in BOOLEAN : IncreasedPrecis(b) \/ SetAntithetic(b)
        \/ RandU01

Spec == Init /\ [][Next]_vars
=============================================================================
