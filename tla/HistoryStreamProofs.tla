--------------------------- MODULE HistoryStreamProofs --------------------------
(***************************************************************************)
(* Proofs of the properties of HistoryStreamProps, for integers of any     *)
(* width and for any objects, wherever they lie and whether they fit.      *)
(*                                                                         *)
(* An integer is split by the powers of two at which its bytes begin: what *)
(* the writer has left is Left, what the reader has gathered is Low, and   *)
(* the two meet at the same number of bytes (NextByteValues, NextBits).    *)
(***************************************************************************)
EXTENDS HistoryStreamProps, WellFoundedInduction, TLAPS

----------------------------------------------------------------------------
(* Numbers. *)

LEMMA LessThanNat == ASSUME NEW x \in Nat, NEW y \in Nat, y < x PROVE <<y, x>> \in OpToRel(<, Nat)
  BY DEF OpToRel

\* A set of numbers that contains 0 and the successor of each of its members.
LEMMA SetInduction ==
  ASSUME NEW T, T \subseteq Nat, 0 \in T, \A n \in Nat : n \in T => n + 1 \in T
  PROVE  T = Nat
  <1> DEFINE U == Nat \ T
             R == OpToRel(<, Nat)
  <1>1. SUFFICES ASSUME U # {} PROVE FALSE
    OBVIOUS
  <1>2. U \subseteq Nat
    OBVIOUS
  <1>3. IsWellFoundedOn(R, Nat)
    BY NatLessThanWellFounded
  <1> HIDE DEF R, U
  <1>4. PICK x \in U : \A y \in U : ~(<<y, x>> \in R)
    BY <1>1, <1>2, <1>3, WFMin
  <1>5. x \in Nat /\ x # 0 /\ x - 1 \in Nat /\ x - 1 < x
    BY <1>4 DEF U
  <1>6. x - 1 \notin U
    BY <1>4, <1>5, LessThanNat DEF R
  <1> QED BY <1>4, <1>5, <1>6 DEF U

\* pow2 is a function that satisfies its equations, if there is one: those on
\* the first numbers agree, and are parts of one on all numbers.
IsPow2(f, D) == f = [n \in D |-> IF n = 0 THEN 1 ELSE 2 * f[n - 1]]

LEMMA FirstPowers == ASSUME NEW m \in Nat PROVE \E f : IsPow2(f, 0..m)
  <1> DEFINE T == {n \in Nat : \E f : IsPow2(f, 0..n)}
  <1>1. 0 \in T
    <2>1. IsPow2([n \in 0..0 |-> 1], 0..0)
      BY DEF IsPow2
    <2> QED BY <2>1
  <1>2. ASSUME NEW n \in Nat, n \in T PROVE n + 1 \in T
    <2>1. PICK f : IsPow2(f, 0..n)
      BY <1>2
    <2> DEFINE g == [i \in 0..(n + 1) |-> IF i = n + 1 THEN 2 * f[n] ELSE f[i]]
    <2>2. ASSUME NEW i \in 0..(n + 1) PROVE g[i] = IF i = 0 THEN 1 ELSE 2 * g[i - 1]
      <3>1. \A k \in 0..n : f[k] = IF k = 0 THEN 1 ELSE 2 * f[k - 1]
        BY <2>1 DEF IsPow2
      <3> QED BY <3>1
    <2>3. g = [i \in 0..(n + 1) |-> g[i]]
      OBVIOUS
    <2> HIDE DEF g
    <2>4. IsPow2(g, 0..(n + 1))
      BY <2>2, <2>3 DEF IsPow2
    <2> QED BY <2>4
  <1> HIDE DEF T
  <1>3. m \in T
    <2>1. T \subseteq Nat
      BY DEF T
    <2> QED BY <1>1, <1>2, <2>1, SetInduction
  <1> QED BY <1>3 DEF T

LEMMA PowersAgree ==
  ASSUME NEW m \in Nat, NEW k \in Nat, NEW f, NEW g, IsPow2(f, 0..m), IsPow2(g, 0..k),
         NEW n \in Nat, n <= m, n <= k
  PROVE  f[n] = g[n]
  <1> DEFINE T == {i \in Nat : i <= m /\ i <= k => f[i] = g[i]}
  <1>1. /\ \A i \in 0..m : f[i] = IF i = 0 THEN 1 ELSE 2 * f[i - 1]
        /\ \A i \in 0..k : g[i] = IF i = 0 THEN 1 ELSE 2 * g[i - 1]
    BY DEF IsPow2
  <1>2. 0 \in T
    BY <1>1
  <1>3. ASSUME NEW i \in Nat, i \in T PROVE i + 1 \in T
    BY <1>1, <1>3
  <1> HIDE DEF T
  <1>4. n \in T
    <2>1. T \subseteq Nat
      BY DEF T
    <2> QED BY <1>2, <1>3, <2>1, SetInduction
  <1> QED BY <1>4 DEF T

LEMMA PowersExist == IsPow2(pow2, Nat)
  <1> DEFINE part(n) == CHOOSE f : IsPow2(f, 0..n)
             F == [n \in Nat |-> part(n)[n]]
  <1>1. ASSUME NEW n \in Nat PROVE IsPow2(part(n), 0..n)
    BY FirstPowers
  <1> HIDE DEF part
  <1>2. ASSUME NEW n \in Nat PROVE F[n] = IF n = 0 THEN 1 ELSE 2 * F[n - 1]
    <2>1. part(n)[n] = IF n = 0 THEN 1 ELSE 2 * part(n)[n - 1]
      BY <1>1 DEF IsPow2
    <2>2. CASE n = 0
      BY <2>1, <2>2
    <2>3. CASE n # 0
      <3>1. n - 1 \in Nat
        BY <2>3
      <3>2. part(n)[n - 1] = part(n - 1)[n - 1]
        <4>1. IsPow2(part(n), 0..n) /\ IsPow2(part(n - 1), 0..(n - 1))
          BY <1>1, <3>1
        <4>2. n - 1 <= n /\ n - 1 <= n - 1
          OBVIOUS
        <4> QED BY <3>1, <4>1, <4>2, PowersAgree
      <3> QED BY <2>1, <2>3, <3>1, <3>2
    <2> QED BY <2>2, <2>3
  <1>3. IsPow2(F, Nat)
    <2>1. F = [n \in Nat |-> F[n]]
      OBVIOUS
    <2> HIDE DEF F
    <2> QED BY <1>2, <2>1 DEF IsPow2
  <1>4. pow2 = CHOOSE f : IsPow2(f, Nat)
    BY DEF pow2, IsPow2
  <1> QED BY <1>3, <1>4

LEMMA PowerValues ==
  /\ pow2[0] = 1 /\ pow2[1] = 2 /\ pow2[6] = 64 /\ pow2[7] = 128
  /\ \A n \in Nat : pow2[n + 1] = 2 * pow2[n]
  <1>1. \A n \in Nat : pow2[n] = IF n = 0 THEN 1 ELSE 2 * pow2[n - 1]
    BY PowersExist DEF IsPow2
  <1>2. pow2[0] = 1 /\ \A n \in Nat : pow2[n + 1] = 2 * pow2[n]
    BY <1>1
  <1>3. pow2[1] = 2 /\ pow2[2] = 4 /\ pow2[3] = 8
    BY <1>1
  <1>4. pow2[4] = 16 /\ pow2[5] = 32 /\ pow2[6] = 64 /\ pow2[7] = 128
    BY <1>1, <1>3
  <1> QED BY <1>2, <1>3, <1>4

LEMMA PowerType == ASSUME NEW n \in Nat PROVE pow2[n] \in Nat \ {0}
  <1> DEFINE T == {i \in Nat : pow2[i] \in Nat \ {0}}
  <1>1. 0 \in T
    BY PowerValues
  <1>2. ASSUME NEW i \in Nat, i \in T PROVE i + 1 \in T
    BY <1>2, PowerValues
  <1>3. T \subseteq Nat
    OBVIOUS
  <1> HIDE DEF T
  <1>4. n \in T
    BY <1>1, <1>2, <1>3, SetInduction
  <1> QED BY <1>4 DEF T

LEMMA PowerSums ==
  ASSUME NEW n \in Nat PROVE pow2[n + 6] = 64 * pow2[n] /\ pow2[n + 7] = 128 * pow2[n]
  <1>1. pow2[n + 1] = 2 * pow2[n] /\ pow2[n + 2] = 2 * pow2[n + 1] /\ pow2[n + 3] = 2 * pow2[n + 2]
    BY PowerValues
  <1>2. /\ pow2[n + 4] = 2 * pow2[n + 3] /\ pow2[n + 5] = 2 * pow2[n + 4]
        /\ pow2[n + 6] = 2 * pow2[n + 5] /\ pow2[n + 7] = 2 * pow2[n + 6]
    BY PowerValues
  <1> QED BY <1>1, <1>2, PowerType

LEMMA PowersGrow == ASSUME NEW m \in Nat, NEW n \in Nat, m <= n PROVE pow2[m] <= pow2[n]
  <1> DEFINE T == {d \in Nat : pow2[m] <= pow2[m + d]}
  <1>1. 0 \in T
    BY PowerType
  <1>2. ASSUME NEW d \in Nat, d \in T PROVE d + 1 \in T
    <2>1. pow2[m + (d + 1)] = 2 * pow2[m + d]
      BY PowerValues
    <2>2. pow2[m] \in Nat /\ pow2[m + d] \in Nat
      BY PowerType
    <2> QED BY <1>2, <2>1, <2>2
  <1>3. T \subseteq Nat
    OBVIOUS
  <1> HIDE DEF T
  <1>4. n - m \in T
    <2>1. T = Nat
      BY <1>1, <1>2, <1>3, SetInduction
    <2> QED BY <2>1
  <1>5. pow2[m] <= pow2[m + (n - m)]
    BY <1>4 DEF T
  <1> QED BY <1>5

LEMMA DivMod ==
  ASSUME NEW a \in Nat, NEW m \in Nat \ {0}
  PROVE  /\ a \div m \in Nat /\ a % m \in 0..(m - 1)
         /\ a = m * (a \div m) + (a % m)
         /\ a \div m = 0 <=> a < m
         /\ a < m => a % m = a
         /\ a \div m <= a
  OBVIOUS

LEMMA DivDiv ==
  ASSUME NEW a \in Nat, NEW m \in Nat \ {0}, NEW k \in Nat \ {0}
  PROVE  (a \div m) \div k = a \div (m * k)
  OBVIOUS

LEMMA Remainder ==
  ASSUME NEW d \in Nat \ {0}, NEW q \in Nat, NEW r \in 0..(d - 1)
  PROVE  ((d * q) + r) % d = r /\ ((d * q) + r) \div d = q
  OBVIOUS

LEMMA ModParts ==
  ASSUME NEW a \in Nat, NEW m \in Nat \ {0}, NEW k \in Nat \ {0}
  PROVE  a % (m * k) = (a % m) + (m * ((a \div m) % k))
  <1> DEFINE q == a \div m
             r == a % m
             q2 == q \div k
             r2 == q % k
  <1>1. q \in Nat /\ r \in 0..(m - 1) /\ a = (m * q) + r
    BY DivMod
  <1>2. q2 \in Nat /\ r2 \in 0..(k - 1) /\ q = (k * q2) + r2
    BY <1>1, DivMod
  <1> HIDE DEF q, r, q2, r2
  <1>3. m * k \in Nat \ {0}
    OBVIOUS
  <1>4. a = ((m * k) * q2) + ((m * r2) + r)
    <2>1. m * q = ((m * k) * q2) + (m * r2)
      BY <1>2
    <2>2. ((m * k) * q2) \in Nat /\ m * r2 \in Nat /\ r \in Nat
      BY <1>1, <1>2
    <2> QED BY <1>1, <2>1, <2>2
  <1>5. (m * r2) + r \in 0..((m * k) - 1)
    <2>1. r2 <= k - 1 /\ r <= m - 1
      BY <1>1, <1>2
    <2>2. m * r2 <= m * (k - 1)
      BY <1>2, <2>1
    <2>3. m * (k - 1) = (m * k) - m
      OBVIOUS
    <2>4. m * r2 \in Nat
      BY <1>2
    <2> QED BY <1>1, <1>3, <2>1, <2>2, <2>3, <2>4
  <1>6. a % (m * k) = (m * r2) + r
    BY <1>2, <1>3, <1>4, <1>5, Remainder
  <1> QED BY <1>1, <1>2, <1>6 DEF q, r, r2

----------------------------------------------------------------------------
(* An integer, byte by byte: what the first j bytes hold, and what is left. *)

Signed(item) == item.type = "signed"
Negative(item) == Signed(item) /\ item.value < 0
Magnitude(item) == IF Negative(item) THEN Not(item.value) ELSE item.value
Payload(j, item) == IF j = 0 /\ Signed(item) THEN 6 ELSE 7
Weight(j, item) == IF Signed(item) THEN IF j = 0 THEN 0 ELSE 7 * j - 1 ELSE 7 * j
Left(j, item) == Shift(Magnitude(item), Weight(j, item))
Digit(j, item) == Low(Left(j, item), Payload(j, item)) + (IF j = 0 /\ Negative(item) THEN 64 ELSE 0)
Encoded(j, item) == Byte(Digit(j, item), Left(j + 1, item))
\* A byte follows the first n ones, or ends them.
GoesOn(n, item) == n = 0 \/ Left(n, item) # 0

----------------------------------------------------------------------------
LEMMA ItemTypes ==
  ASSUME NEW item \in Items
  PROVE  /\ item.type \in Types /\ item.value \in Int
         /\ item.type = "signed" =>
              item.value >= -pow2[Width - 1] /\ item.value <= pow2[Width - 1] - 1
         /\ item.type = "unsigned" => item.value >= 0 /\ item.value <= pow2[Width] - 1
         /\ item.type = "byte" => item.value \in 0..255
  <1>1. /\ item \in [type : Types, value : Int] /\ InType(item.value, item.type)
    BY DEF Items
  <1>2. pow2[Width - 1] \in Nat /\ pow2[Width] \in Nat
    BY PowerType, StreamAssumption
  <1> QED BY <1>1, <1>2 DEF InType

LEMMA MagnitudeRange ==
  ASSUME NEW item \in Items, item.type \in Integers2
  PROVE  /\ Magnitude(item) \in Nat /\ Magnitude(item) < pow2[Width]
         /\ Signed(item) => Magnitude(item) < pow2[Width - 1]
         /\ item.value = IF Negative(item) THEN Not(Magnitude(item)) ELSE Magnitude(item)
  <1>1. pow2[Width - 1] \in Nat \ {0} /\ pow2[Width] = 2 * pow2[Width - 1]
    <2>1. Width - 1 \in Nat /\ (Width - 1) + 1 = Width
      BY StreamAssumption
    <2> QED BY <2>1, PowerValues, PowerType
  <1>2. CASE item.type = "signed"
    BY <1>1, <1>2, ItemTypes DEF Magnitude, Negative, Signed, Not
  <1>3. CASE item.type = "unsigned"
    BY <1>1, <1>3, ItemTypes DEF Magnitude, Negative, Signed, Not
  <1> QED BY <1>2, <1>3 DEF Integers2

LEMMA WeightStep ==
  ASSUME NEW item, NEW j \in Nat
  PROVE  /\ Weight(j, item) \in Nat /\ Payload(j, item) \in {6, 7}
         /\ Weight(0, item) = 0 /\ (Weight(j, item) = 0 <=> j = 0)
         /\ Weight(j + 1, item) = Weight(j, item) + Payload(j, item)
         /\ pow2[Weight(j + 1, item)] = pow2[Weight(j, item)] * pow2[Payload(j, item)]
  <1>1. /\ Weight(j, item) \in Nat /\ Payload(j, item) \in {6, 7}
        /\ Weight(0, item) = 0 /\ (Weight(j, item) = 0 <=> j = 0)
        /\ Weight(j + 1, item) = Weight(j, item) + Payload(j, item)
    BY DEF Weight, Payload
  <1>2. pow2[Weight(j, item) + 6] = 64 * pow2[Weight(j, item)]
    BY <1>1, PowerSums
  <1>3. pow2[Weight(j, item) + 7] = 128 * pow2[Weight(j, item)]
    BY <1>1, PowerSums
  <1>4. pow2[Weight(j, item)] \in Nat
    BY <1>1, PowerType
  <1> QED BY <1>1, <1>2, <1>3, <1>4, PowerValues

LEMMA LeftStep ==
  ASSUME NEW item \in Items, item.type \in Integers2, NEW j \in Nat
  PROVE  /\ Left(j, item) \in Nat /\ Left(j, item) < pow2[Width]
         /\ Left(0, item) = Magnitude(item)
         /\ Left(j + 1, item) = Shift(Left(j, item), Payload(j, item))
         /\ Left(j, item) = 0 <=> Magnitude(item) < pow2[Weight(j, item)]
  <1> DEFINE a == Magnitude(item)
             m == pow2[Weight(j, item)]
             k == pow2[Payload(j, item)]
  <1>1. a \in Nat /\ a < pow2[Width] /\ pow2[Width] \in Nat
    BY MagnitudeRange, PowerType, StreamAssumption
  <1>2. m \in Nat \ {0} /\ k \in Nat \ {0} /\ pow2[Weight(j + 1, item)] = m * k
    BY WeightStep, PowerType
  <1>3. Left(j, item) = a \div m /\ Left(j + 1, item) = a \div (m * k)
    BY <1>2 DEF Left, Shift
  <1>4. Left(0, item) = a
    BY <1>1, WeightStep, PowerValues DEF Left, Shift
  <1>5. Shift(Left(j, item), Payload(j, item)) = (a \div m) \div k
    BY <1>3 DEF Shift
  <1> HIDE DEF a, m, k
  <1>6. (a \div m) \div k = a \div (m * k)
    BY <1>1, <1>2, DivDiv
  <1>7. a \div m \in Nat /\ a \div m <= a /\ (a \div m = 0 <=> a < m)
    BY <1>1, <1>2, DivMod
  <1> QED BY <1>1, <1>3, <1>4, <1>5, <1>6, <1>7 DEF a, m

\* What a byte holds, and how it is taken apart again.
LEMMA BytesDecode ==
  ASSUME NEW item \in Items, item.type \in Integers2, NEW j \in Nat
  PROVE  /\ Digit(j, item) \in 0..127 /\ Encoded(j, item) \in 0..255
         /\ HighBit(Encoded(j, item), 7) = 1 <=> Left(j + 1, item) # 0
         /\ Signed(item) /\ j = 0 => (HighBit(Encoded(j, item), 6) = 1 <=> Negative(item))
         /\ Low(Encoded(j, item), Payload(j, item)) = Low(Left(j, item), Payload(j, item))
  <1> DEFINE d == Digit(j, item)
             e == Encoded(j, item)
             x == Left(j, item)
             y == Left(j + 1, item)
  <1>1. x \in Nat /\ y \in Nat
    BY LeftStep
  <1>2. HighBit(e, 7) = (e \div 128) % 2 /\ HighBit(e, 6) = (e \div 64) % 2
    BY PowerValues DEF HighBit, Low, Shift
  <1>3. e = IF y # 0 THEN d + 128 ELSE d
    BY DEF Encoded, Byte
  <1>4. CASE j = 0 /\ Signed(item)
    <2>1. d = (x % 64) + (IF Negative(item) THEN 64 ELSE 0) /\ Payload(j, item) = 6
      BY <1>4, PowerValues DEF Digit, Low, Payload
    <2>2. Low(e, Payload(j, item)) = e % 64 /\ Low(x, Payload(j, item)) = x % 64
      BY <2>1, PowerValues DEF Low
    <2>3. x % 64 \in 0..63
      BY <1>1
    <2>4. (e \div 64) % 2 = (IF Negative(item) THEN 1 ELSE 0) /\ e % 64 = x % 64
      <3>1. e = (x % 64) + (IF Negative(item) THEN 64 ELSE 0) + (IF y # 0 THEN 128 ELSE 0)
        BY <1>3, <2>1, <2>3
      <3> HIDE DEF e, x, y
      <3> QED BY <2>3, <3>1
    <2>5. d \in 0..127 /\ e \in 0..255 /\ ((e \div 128) % 2 = 1 <=> y # 0)
      <3> HIDE DEF d, e, x, y
      <3> QED BY <1>3, <2>1, <2>3
    <2> QED BY <1>2, <2>2, <2>4, <2>5
  <1>5. CASE ~(j = 0 /\ Signed(item))
    <2>1. d = x % 128 /\ Payload(j, item) = 7
      BY <1>1, <1>5, PowerValues DEF Digit, Low, Payload, Negative
    <2>2. Low(e, Payload(j, item)) = e % 128 /\ Low(x, Payload(j, item)) = x % 128
      BY <2>1, PowerValues DEF Low
    <2>3. x % 128 \in 0..127
      BY <1>1
    <2>4. d \in 0..127 /\ e \in 0..255 /\ e % 128 = d /\ ((e \div 128) % 2 = 1 <=> y # 0)
      <3> HIDE DEF d, e, x, y
      <3> QED BY <1>3, <2>1, <2>3
    <2> QED BY <1>2, <1>5, <2>1, <2>2, <2>4
  <1> QED BY <1>4, <1>5

\* What the reader has after one byte more.
LEMMA LowStep ==
  ASSUME NEW item \in Items, item.type \in Integers2, NEW j \in Nat
  PROVE  Low(Magnitude(item), Weight(j + 1, item)) =
           Low(Magnitude(item), Weight(j, item))
             + Low(Left(j, item), Payload(j, item)) * pow2[Weight(j, item)]
  <1> DEFINE a == Magnitude(item)
             m == pow2[Weight(j, item)]
             k == pow2[Payload(j, item)]
  <1>1. a \in Nat
    BY MagnitudeRange
  <1>2. m \in Nat \ {0} /\ k \in Nat \ {0} /\ pow2[Weight(j + 1, item)] = m * k
    BY WeightStep, PowerType
  <1>3. /\ Low(a, Weight(j + 1, item)) = a % (m * k) /\ Low(a, Weight(j, item)) = a % m
        /\ Low(Left(j, item), Payload(j, item)) = (a \div m) % k
    BY <1>2 DEF Left, Low, Shift
  <1> HIDE DEF a, m, k
  <1>4. a % (m * k) = (a % m) + (m * ((a \div m) % k))
    BY <1>1, <1>2, ModParts
  <1>5. (a \div m) % k \in Nat
    BY <1>1, <1>2, DivMod
  <1>6. m * ((a \div m) % k) = ((a \div m) % k) * m
    BY <1>2, <1>5
  <1> QED BY <1>3, <1>4, <1>6 DEF a, m, k

LEMMA LowRange ==
  ASSUME NEW item \in Items, item.type \in Integers2, NEW j \in Nat
  PROVE  /\ Low(Magnitude(item), Weight(j, item)) \in 0..(pow2[Width] - 1)
         /\ Left(j, item) = 0 => Low(Magnitude(item), Weight(j, item)) = Magnitude(item)
         /\ Low(Magnitude(item), Weight(0, item)) = 0
  <1> DEFINE a == Magnitude(item)
             m == pow2[Weight(j, item)]
  <1>1. a \in Nat /\ a < pow2[Width] /\ pow2[Width] \in Nat
    BY MagnitudeRange, PowerType, StreamAssumption
  <1>2. m \in Nat \ {0}
    BY WeightStep, PowerType
  <1>3. Low(a, Weight(j, item)) = a % m /\ Left(j, item) = a \div m
    BY DEF Low, Left, Shift
  <1>4. Low(a, Weight(0, item)) = a % 1
    BY WeightStep, PowerValues DEF Low
  <1> HIDE DEF a, m
  <1>5. /\ a % m \in 0..(m - 1) /\ (a \div m = 0 <=> a < m) /\ (a < m => a % m = a)
        /\ a = m * (a \div m) + (a % m) /\ a \div m \in Nat
    BY <1>1, <1>2, DivMod
  <1>6. a % m <= a
    <2>1. m * (a \div m) \in Nat
      BY <1>2, <1>5
    <2> QED BY <1>1, <1>5, <2>1
  <1>7. a % 1 = 0
    BY <1>1
  <1>8. a % m \in 0..(pow2[Width] - 1)
    BY <1>1, <1>2, <1>5, <1>6
  <1>9. a \div m = 0 => a % m = a
    BY <1>1, <1>2, <1>5
  <1> QED BY <1>3, <1>4, <1>7, <1>8, <1>9 DEF a

\* Bytes follow only as long as their bits are those of the type.
LEMMA WeightInWidth ==
  ASSUME NEW item \in Items, item.type \in Integers2, NEW j \in Nat, GoesOn(j, item)
  PROVE  Weight(j, item) < Width
  <1>1. Weight(j, item) \in Nat /\ Width \in Nat \ {0}
    BY WeightStep, StreamAssumption
  <1>2. CASE j = 0
    BY <1>1, <1>2, WeightStep
  <1>3. CASE j # 0
    <2> SUFFICES ASSUME Width <= Weight(j, item) PROVE FALSE
      BY <1>1
    <2>1. pow2[Width] <= pow2[Weight(j, item)]
      BY <1>1, PowersGrow
    <2>2. Magnitude(item) >= pow2[Weight(j, item)]
      <3>1. Left(j, item) # 0
        BY <1>3 DEF GoesOn
      <3>2. Magnitude(item) \in Nat /\ pow2[Weight(j, item)] \in Nat
        BY <1>1, MagnitudeRange, PowerType
      <3> QED BY <3>1, <3>2, LeftStep
    <2> QED BY <1>1, <2>1, <2>2, MagnitudeRange, PowerType
  <1> QED BY <1>2, <1>3

\* Bytes hold a number when nothing is left of it.
LEMMA HoldsAll ==
  ASSUME NEW item \in Items, item.type \in Integers2, NEW n \in Nat
  PROVE  Holds(n, item) <=> n > 0 /\ Left(n, item) = 0
  <1>1. CASE n = 0
    BY <1>1 DEF Holds
  <1>2. CASE n > 0
    <2> DEFINE c == pow2[Weight(n, item)]
    <2>1. c \in Nat \ {0} /\ item.value \in Int /\ Magnitude(item) \in Nat
      BY WeightStep, PowerType, ItemTypes, MagnitudeRange
    <2>2. (IF item.type = "signed" THEN 7 * n - 1 ELSE 7 * n) = Weight(n, item)
      BY <1>2 DEF Weight, Signed
    <2>3. Holds(n, item) <=> item.value < c /\ item.value >= -c
      BY <1>2, <2>2 DEF Holds
    <2>4. Left(n, item) = 0 <=> Magnitude(item) < c
      BY LeftStep
    <2>5. Magnitude(item) = IF item.value < 0 THEN -item.value - 1 ELSE item.value
      BY <2>1, ItemTypes DEF Magnitude, Negative, Signed, Not, Integers2
    <2> HIDE DEF c
    <2> QED BY <1>2, <2>1, <2>3, <2>4, <2>5
  <1> QED BY <1>1, <1>2

----------------------------------------------------------------------------
(* The inductive invariant. *)

Readings == [value : Int \cup {"unset"}, eof : BOOLEAN]
EndOfFields == Start(Len(ends) + 1)
Writing == phase \in {"write", "writeInteger"}

StreamTyped ==
  /\ input \in Inputs
  /\ mem = [a \in 0..MaxAddress |-> mem[a]]
  /\ ends \in Seq(Nat) /\ Len(ends) <= Len(Object)
  /\ got \in Seq(Readings)

BytesStored(from, n, item) ==
  \A j \in 0..(n - 1) : mem[from + j] = <<"byte", Encoded(j, item), 0>> /\ GoesOn(j, item)

FieldStored(k) ==
  LET item == Object[k] IN
  /\ Header + 2 <= Start(k) /\ Start(k) < ends[k] /\ ends[k] <= EndOfFields
  /\ IF item.type \in Integers2
     THEN BytesStored(Start(k), ends[k] - Start(k), item) /\ Left(ends[k] - Start(k), item) = 0
     ELSE /\ ends[k] = Aligned(Start(k), item.type) + Size(item.type)
          /\ mem[Aligned(Start(k), item.type)] = <<item.type, item.value, 0>>
FieldsStored == Header + 2 <= EndOfFields /\ \A k \in 1..Len(ends) : FieldStored(k)

\* The header tells whether the object is complete, and then its size.
HeaderStored ==
  /\ phase = "new" => mem[Header][1] # "size"
  /\ Writing => mem[Header] = <<"size", 0, 0>>
  /\ phase = "thrown" => mem[Header][1] # "size" \/ mem[Header] = <<"size", 0, 0>>
  /\ Reading \/ phase = "written" =>
       /\ mem[Header] = <<"size", objectsize, 0>>
       /\ Written /\ EndOfFields = input.start + objectsize /\ objectsize <= input.lim

\* Where the writer stands, also in the middle of an integer.
WriterPlace ==
  LET n == buf - EndOfFields IN
  /\ phase = "new" => buf = input.start /\ objectsize = 0 /\ ends = << >>
  /\ phase \in {"write", "written"} => buf = EndOfFields
  /\ Writing => objectsize = buf - input.start
  /\ phase = "writeInteger" =>
       /\ ~Written /\ Field.type \in Integers2
       /\ n >= 0 /\ BytesStored(EndOfFields, n, Field) /\ GoesOn(n, Field)
       /\ sval = Digit(n, Field) /\ uval = Left(n + 1, Field)
  /\ phase = "thrown" /\ mem[Header][1] = "size" =>
       /\ ~Written /\ n >= 0
       /\ Field.type \in Integers2 => bufsize = 0 /\ GoesOn(n, Field)

\* Where the reader stands, also in the middle of an integer.
ReaderPlace ==
  LET k == Len(got) + 1  n == buf - Start(Len(got) + 1) IN
  /\ ~Reading => got = << >>
  /\ Reading => wanted \in Readable(Object) /\ Len(got) <= Len(wanted)
  /\ phase \in {"read", "done"} =>
       buf = IF k <= Len(Object) THEN Start(k) ELSE EndOfFields
  /\ phase = "readInteger" => ~AllRead /\ Wanted \in Integers2
  /\ phase = "readInteger" /\ k > Len(Object) => buf = EndOfFields
  /\ phase = "readInteger" /\ k <= Len(Object) =>
       /\ n >= 0 /\ buf < ends[k]
       /\ bits = Weight(n, Object[k])
       /\ uval = Low(Magnitude(Object[k]), bits)
       /\ neg <=> n > 0 /\ Negative(Object[k])

ValuesRead ==
  /\ eof => Len(got) >= Len(Object)
  /\ \A k \in DOMAIN got : /\ got[k].eof <=> k > Len(Object)
                           /\ k <= Len(Object) => got[k].value = Object[k].value

WithinLimit == buf + bufsize = Limit /\ phase # "outOfBound"

IInv == /\ Typed /\ StreamTyped /\ FieldsStored /\ HeaderStored
        /\ WriterPlace /\ ReaderPlace /\ ValuesRead /\ WithinLimit

----------------------------------------------------------------------------
(* Addresses. *)

LEMMA InputTypes ==
  ASSUME NEW i \in Inputs
  PROVE  /\ i.object \in Seq(Items) /\ Len(i.object) \in Nat /\ DOMAIN i.object = 1..Len(i.object)
         /\ i.start \in Nat /\ i.lim \in Nat /\ i.start + i.lim < MaxAddress /\ MaxAddress \in Nat
  BY StreamAssumption

LEMMA AlignedRange ==
  ASSUME NEW a \in Nat, NEW type
  PROVE  /\ Size(type) \in {1, 2, 8} /\ Aligned(a, type) \in Nat
         /\ a <= Aligned(a, type) /\ Aligned(a, type) < a + Size(type)
  <1>1. Size(type) \in {1, 2, 8}
    BY DEF Size
  <1> DEFINE s == Size(type)
  <1>2. (-a) % s \in 0..(s - 1)
    <2> HIDE DEF s
    <2>1. s \in {1, 2, 8}
      BY <1>1 DEF s
    <2> QED BY <2>1
  <1>3. Aligned(a, type) = a + ((-a) % s)
    BY DEF Aligned
  <1> HIDE DEF s
  <1> QED BY <1>1, <1>2, <1>3 DEF s

LEMMA HeaderRange ==
  ASSUME input \in Inputs
  PROVE  /\ Header \in Nat /\ input.start <= Header /\ Header < input.start + 2
         /\ Header \in 0..MaxAddress
  BY InputTypes, AlignedRange DEF Header, Size

\* What a value that is written, or put, does to the buffer.
LEMMA PutValues ==
  ASSUME NEW type, NEW value, NEW first \in 0..MaxAddress, Put(type, value, first),
         mem = [a \in 0..MaxAddress |-> mem[a]]
  PROVE  /\ mem' = [a \in 0..MaxAddress |-> mem'[a]]
         /\ mem'[first] = <<type, value, 0>>
         /\ \A a \in 0..MaxAddress : a < first \/ a >= first + Size(type) => mem'[a] = mem[a]
  <1>1. Size(type) \in {1, 2, 8}
    BY DEF Size
  <1>2. DOMAIN mem = 0..MaxAddress
    OBVIOUS
  <1>3. mem' = [a \in 0..MaxAddress |->
                  IF a - first \in 0..(Size(type) - 1) THEN <<type, value, a - first>> ELSE mem[a]]
    BY <1>2 DEF Put
  <1>4. mem'[first] = <<type, value, 0>>
    <2>1. first - first = 0
      OBVIOUS
    <2>2. 0 \in 0..(Size(type) - 1)
      BY <1>1
    <2> QED BY <1>3, <2>1, <2>2
  <1>5. ASSUME NEW a \in 0..MaxAddress, a < first \/ a >= first + Size(type)
        PROVE  mem'[a] = mem[a]
    <2>1. a - first \notin 0..(Size(type) - 1)
      BY <1>1, <1>5
    <2> QED BY <1>3, <2>1
  <1>6. mem' = [a \in 0..MaxAddress |-> mem'[a]]
    BY <1>3
  <1> QED BY <1>4, <1>5, <1>6

WriterSpace == /\ input \in Inputs /\ mem = [a \in 0..MaxAddress |-> mem[a]]
               /\ buf \in Nat /\ bufsize \in Nat /\ objectsize \in Nat
               /\ buf + bufsize = input.start + input.lim

LEMMA WriteValues ==
  ASSUME NEW type, NEW value, Write(type, value), Fits(type), WriterSpace
  PROVE  /\ buf' = Aligned(buf, type) + Size(type) /\ buf < buf' /\ buf' \in 0..MaxAddress
         /\ bufsize' \in Nat /\ buf' + bufsize' = buf + bufsize
         /\ objectsize' = objectsize + (buf' - buf) /\ objectsize' \in Nat
         /\ mem' = [a \in 0..MaxAddress |-> mem'[a]]
         /\ mem'[Aligned(buf, type)] = <<type, value, 0>>
         /\ \A a \in 0..MaxAddress : a < buf => mem'[a] = mem[a]
  <1>1. /\ buf \in Nat /\ bufsize \in Nat /\ objectsize \in Nat
        /\ buf + bufsize < MaxAddress /\ MaxAddress \in Nat
    BY InputTypes DEF WriterSpace
  <1>2. /\ Size(type) \in {1, 2, 8} /\ Aligned(buf, type) \in Nat
        /\ buf <= Aligned(buf, type) /\ Aligned(buf, type) < buf + Size(type)
    BY <1>1, AlignedRange
  <1>3. /\ Put(type, value, Aligned(buf, type))
        /\ buf' = Aligned(buf, type) + Size(type)
        /\ bufsize' = bufsize - (buf' - buf) /\ objectsize' = objectsize + (buf' - buf)
        /\ Aligned(buf, type) - buf + Size(type) <= bufsize
    BY DEF Write, Fits, AfterIt
  <1>4. /\ buf < buf' /\ buf' \in 0..MaxAddress /\ Aligned(buf, type) \in 0..MaxAddress
        /\ bufsize' \in Nat /\ buf' + bufsize' = buf + bufsize /\ objectsize' \in Nat
    BY <1>1, <1>2, <1>3
  <1>5. /\ mem' = [a \in 0..MaxAddress |-> mem'[a]]
        /\ mem'[Aligned(buf, type)] = <<type, value, 0>>
        /\ \A a \in 0..MaxAddress : a < Aligned(buf, type) => mem'[a] = mem[a]
    BY <1>3, <1>4, PutValues DEF WriterSpace
  <1> QED BY <1>1, <1>2, <1>3, <1>4, <1>5

LEMMA WriteRefused ==
  ASSUME NEW type, NEW value, Write(type, value), ~Fits(type)
  PROVE  UNCHANGED <<mem, buf, bufsize, objectsize>>
  BY DEF Write

----------------------------------------------------------------------------
(* The fields stay where they are. *)

StreamInv == StreamTyped /\ FieldsStored

\* Start of the fields, and what lies between them.
LEMMA FieldPlaces ==
  ASSUME StreamInv, Typed
  PROVE  /\ Header \in Nat /\ EndOfFields \in Nat /\ Header + 2 <= EndOfFields
         /\ Len(ends) \in Nat /\ Len(Object) \in Nat
         /\ EndOfFields = IF ends = << >> THEN Header + 2 ELSE ends[Len(ends)]
         /\ \A k \in 1..Len(ends) :
              /\ Start(k) \in Nat /\ ends[k] \in Nat /\ Start(k + 1) = ends[k]
              /\ Object[k] \in Items
              /\ Header + 2 <= Start(k) /\ Start(k) < ends[k] /\ ends[k] <= EndOfFields
  <1>1. /\ input \in Inputs /\ ends \in Seq(Nat) /\ Len(ends) <= Len(Object)
        /\ Object \in Seq(Items) /\ Len(Object) \in Nat /\ Len(ends) \in Nat
    BY InputTypes DEF StreamInv, StreamTyped, Object
  <1>2. Header \in Nat
    BY <1>1, HeaderRange
  <1>3. Size("size") = 2
    BY DEF Size
  <1>4. \A k \in 1..Len(ends) : ends[k] \in Nat /\ Object[k] \in Items
    BY <1>1
  <1>5. \A k \in 1..(Len(ends) + 1) : Start(k) \in Nat
    BY <1>1, <1>2, <1>3, <1>4 DEF Start
  <1>6. \A k \in 1..Len(ends) : Start(k + 1) = ends[k]
    BY <1>1 DEF Start
  <1>7. EndOfFields \in Nat /\ EndOfFields = IF ends = << >> THEN Header + 2 ELSE ends[Len(ends)]
    BY <1>1, <1>2, <1>3, <1>5 DEF EndOfFields, Start
  <1>8. \A k \in 1..Len(ends) :
          Header + 2 <= Start(k) /\ Start(k) < ends[k] /\ ends[k] <= EndOfFields
    BY DEF StreamInv, FieldsStored, FieldStored
  <1>9. Header + 2 <= EndOfFields
    BY DEF StreamInv, FieldsStored
  <1> QED BY <1>1, <1>2, <1>4, <1>5, <1>6, <1>7, <1>8, <1>9

LEMMA FieldsUnchanged ==
  ASSUME FieldsStored, UNCHANGED <<input, mem, ends>>
  PROVE  FieldsStored'
  BY DEF FieldsStored, FieldStored, BytesStored, EndOfFields, Start, Header, Object

\* Whatever is written behind them.
LEMMA FieldKept ==
  ASSUME StreamInv, Typed, input' = input, ends' \in Seq(Nat),
         Len(ends) <= Len(ends'), \A k \in 1..Len(ends) : ends'[k] = ends[k],
         EndOfFields <= EndOfFields', EndOfFields <= MaxAddress + 1,
         \A a \in 0..MaxAddress : a >= Header + 2 /\ a < EndOfFields => mem'[a] = mem[a],
         NEW k \in 1..Len(ends)
  PROVE  FieldStored(k)'
  <1> DEFINE item == Object[k]
             s == Start(k)
             e == ends[k]
  <1>1. /\ s \in Nat /\ e \in Nat /\ Header \in Nat /\ EndOfFields \in Nat
        /\ Header + 2 <= s /\ s < e /\ e <= EndOfFields /\ Len(ends) \in Nat /\ MaxAddress \in Nat
    BY FieldPlaces, StreamAssumption
  <1>2. Object' = Object /\ Object'[k] = item /\ ends'[k] = e /\ Header' = Header
    BY DEF Object, Header
  <1>3. Start(k)' = s
    BY <1>1, <1>2 DEF Start
  <1>4. EndOfFields' \in Nat
    <2>1. Len(ends') \in Nat /\ Header' \in Nat
      BY <1>1, <1>2
    <2> QED BY <2>1 DEF EndOfFields, Start, Size
  <1>5. Header' + 2 <= Start(k)' /\ Start(k)' < ends'[k] /\ ends'[k] <= EndOfFields'
    BY <1>1, <1>2, <1>3, <1>4
  <1>6. FieldStored(k)
    BY DEF StreamInv, FieldsStored
  <1>7. CASE item.type \in Integers2
    <2>1. BytesStored(s, e - s, item) /\ Left(e - s, item) = 0
      BY <1>6, <1>7 DEF FieldStored
    <2>2. ASSUME NEW j \in 0..(e - s - 1)
          PROVE  mem'[s + j] = <<"byte", Encoded(j, item), 0>> /\ GoesOn(j, item)
      <3>1. mem[s + j] = <<"byte", Encoded(j, item), 0>> /\ GoesOn(j, item)
        BY <2>1 DEF BytesStored
      <3>2. s + j \in 0..MaxAddress /\ s + j >= Header + 2 /\ s + j < EndOfFields
        BY <1>1
      <3> QED BY <3>1, <3>2
    <2> QED BY <1>2, <1>3, <1>5, <1>7, <2>1, <2>2 DEF FieldStored, BytesStored
  <1>8. CASE item.type \notin Integers2
    <2> DEFINE b == Aligned(s, item.type)
    <2>1. e = b + Size(item.type) /\ mem[b] = <<item.type, item.value, 0>>
      BY <1>6, <1>8 DEF FieldStored
    <2>2. b \in Nat /\ s <= b /\ Size(item.type) \in {1, 2, 8}
      BY <1>1, AlignedRange
    <2>3. b \in 0..MaxAddress /\ b >= Header + 2 /\ b < EndOfFields
      <3> HIDE DEF item, s, e, b
      <3>1. b < e
        BY <1>1, <2>1, <2>2
      <3>2. b >= Header + 2 /\ b < EndOfFields
        BY <1>1, <2>2, <3>1
      <3> QED BY <1>1, <2>2, <3>2
    <2>4. mem'[b] = mem[b]
      BY <2>3
    <2> QED BY <1>2, <1>3, <1>5, <1>8, <2>1, <2>4 DEF FieldStored
  <1> QED BY <1>7, <1>8

LEMMA FieldsKept ==
  ASSUME StreamInv, Typed, input' = input, ends' = ends, EndOfFields <= MaxAddress + 1,
         \A a \in 0..MaxAddress : a >= Header + 2 /\ a < EndOfFields => mem'[a] = mem[a]
  PROVE  FieldsStored' /\ EndOfFields' = EndOfFields
  <1>1. ends' \in Seq(Nat) /\ Len(ends) \in Nat /\ EndOfFields \in Nat
    BY FieldPlaces DEF StreamInv, StreamTyped
  <1>2. EndOfFields' = EndOfFields /\ Header' = Header
    BY DEF EndOfFields, Start, Header
  <1>3. ASSUME NEW k \in 1..Len(ends) PROVE FieldStored(k)'
    BY <1>1, <1>2, FieldKept
  <1>4. Header' + 2 <= EndOfFields'
    BY <1>2 DEF StreamInv, FieldsStored
  <1>5. FieldsStored'
    BY <1>3, <1>4 DEF FieldsStored
  <1> QED BY <1>2, <1>5

\* One field more, behind them.
LEMMA FieldAdded ==
  ASSUME StreamInv, Typed, input' = input, ~Written, NEW e \in Nat, ends' = Append(ends, e),
         EndOfFields < e, EndOfFields <= MaxAddress + 1,
         \A a \in 0..MaxAddress : a >= Header + 2 /\ a < EndOfFields => mem'[a] = mem[a],
         IF Field.type \in Integers2
         THEN /\ \A j \in 0..(e - EndOfFields - 1) :
                   /\ mem'[EndOfFields + j] = <<"byte", Encoded(j, Field), 0>>
                   /\ GoesOn(j, Field)
              /\ Left(e - EndOfFields, Field) = 0
         ELSE /\ e = Aligned(EndOfFields, Field.type) + Size(Field.type)
              /\ mem'[Aligned(EndOfFields, Field.type)] = <<Field.type, Field.value, 0>>
  PROVE  /\ FieldsStored' /\ EndOfFields' = e
         /\ ends' \in Seq(Nat) /\ Len(ends') <= Len(Object')
  <1>1. /\ Len(ends) \in Nat /\ Len(Object) \in Nat /\ EndOfFields \in Nat /\ Header \in Nat
        /\ Header + 2 <= EndOfFields
    BY FieldPlaces
  <1>2. Object' = Object /\ Header' = Header
    BY DEF Object, Header
  <1>3. Len(ends) < Len(Object) /\ ends \in Seq(Nat)
    BY <1>1 DEF Written, Object, StreamInv, StreamTyped
  <1>4. /\ ends' \in Seq(Nat) /\ Len(ends') = Len(ends) + 1 /\ ends'[Len(ends) + 1] = e
        /\ \A k \in 1..Len(ends) : ends'[k] = ends[k]
    BY <1>3
  <1>5. EndOfFields' = e
    BY <1>1, <1>4 DEF EndOfFields, Start
  <1>6. ASSUME NEW k \in 1..Len(ends) PROVE FieldStored(k)'
    BY <1>1, <1>4, <1>5, FieldKept
  <1>7. ASSUME NEW k, k = Len(ends) + 1 PROVE FieldStored(k)'
    <2>1. Object'[k] = Field /\ ends'[k] = e /\ Start(k)' = EndOfFields
      <3>1. Start(k)' = EndOfFields
        BY <1>1, <1>2, <1>4, <1>7 DEF Start, EndOfFields
      <3>2. Object'[k] = Field /\ ends'[k] = e
        BY <1>2, <1>4, <1>7 DEF Field, Object
      <3> QED BY <3>1, <3>2
    <2>2. Header' + 2 <= EndOfFields /\ EndOfFields < e /\ e <= EndOfFields'
      BY <1>1, <1>2, <1>5
    <2> QED BY <2>1, <2>2 DEF FieldStored, BytesStored
  <1>8. FieldsStored'
    <2>1. ASSUME NEW k \in 1..Len(ends') PROVE FieldStored(k)'
      <3>1. k \in 1..Len(ends) \/ k = Len(ends) + 1
        <4>1. Len(ends') = Len(ends) + 1 /\ Len(ends) \in Nat
          BY <1>1, <1>4
        <4>2. k \in 1..(Len(ends) + 1)
          BY <4>1
        <4> QED BY <4>1, <4>2
      <3> QED BY <1>6, <1>7, <3>1
    <2>2. Header' + 2 <= EndOfFields'
      BY <1>1, <1>2, <1>5
    <2> QED BY <2>1, <2>2 DEF FieldsStored
  <1> QED BY <1>2, <1>3, <1>4, <1>5, <1>8

----------------------------------------------------------------------------
(* The invariant holds at first. *)

LEMMA InitIInv == Init => IInv
  <1> SUFFICES ASSUME Init PROVE IInv
    OBVIOUS
  <1>1. /\ input \in Inputs /\ Len(Object) \in Nat /\ input.start \in Nat /\ input.lim \in Nat
        /\ input.start + input.lim < MaxAddress /\ MaxAddress \in Nat
    BY InputTypes DEF Init, Object
  <1>2. pow2[Width] \in Nat \ {0} /\ Width \in Nat
    BY PowerType, StreamAssumption
  <1>3. Typed
    <2>1. /\ phase = "new" /\ buf = input.start /\ bufsize = input.lim
          /\ objectsize = 0 /\ eof = FALSE
          /\ uval = 0 /\ sval = 0 /\ bits = 0 /\ neg = FALSE
      BY DEF Init
    <2>2. 0 \in 0..(pow2[Width] - 1) /\ 0 \in 0..(Width + 6) /\ 0 \in 0..255
      BY <1>2
    <2>3. buf \in 0..MaxAddress
      BY <1>1, <2>1
    <2> QED BY <1>1, <2>1, <2>2, <2>3 DEF Typed
  <1>4. ends = << >> /\ got = << >> /\ phase = "new"
    BY DEF Init
  <1>5. StreamTyped
    BY <1>1 DEF Init, StreamTyped
  <1>6. EndOfFields = Header + 2 /\ Header \in Nat
    BY <1>1, <1>4, HeaderRange DEF EndOfFields, Start, Size
  <1>7. FieldsStored
    BY <1>4, <1>6 DEF FieldsStored
  <1>8. HeaderStored
    <2>1. mem[Header] = <<"old", 0, 0>>
      BY <1>1, HeaderRange DEF Init
    <2> QED BY <1>4, <2>1 DEF HeaderStored, Writing, Reading
  <1>9. WriterPlace
    BY DEF Init, WriterPlace, Writing
  <1>10. ReaderPlace
    BY DEF Init, ReaderPlace, Reading
  <1>11. ValuesRead
    BY DEF Init, ValuesRead
  <1>12. WithinLimit
    BY DEF Init, WithinLimit, Limit, Reading
  <1> QED BY <1>3, <1>5, <1>7, <1>8, <1>9, <1>10, <1>11, <1>12 DEF IInv

----------------------------------------------------------------------------
(* The steps of the writer. *)

LEMMA NothingRead ==
  ASSUME IInv, ~Reading, ~Reading', UNCHANGED <<input, eof, got>>
  PROVE  ReaderPlace' /\ ValuesRead'
  BY DEF IInv, ReaderPlace, ValuesRead, Reading, Object

LEMMA SpaceLeft ==
  ASSUME IInv, ~Reading
  PROVE  WriterSpace /\ StreamInv /\ Typed
  BY DEF IInv, WriterSpace, StreamInv, StreamTyped, Typed, WithinLimit, Limit

\* While fields are written they end before the place of the writer, and before
\* the end of the buffer.
LEMMA WriterBehind ==
  ASSUME IInv, Writing
  PROVE  /\ WriterSpace /\ StreamInv /\ Typed
         /\ Header \in Nat /\ EndOfFields \in Nat /\ Header + 2 <= EndOfFields
         /\ EndOfFields <= buf /\ buf \in Nat /\ bufsize \in Nat /\ buf + bufsize < MaxAddress
         /\ MaxAddress \in Nat /\ Header \in 0..MaxAddress
         /\ objectsize = buf - input.start /\ input.start \in Nat
         /\ mem[Header] = <<"size", 0, 0>>
  <1>1. WriterSpace /\ StreamInv /\ Typed
    BY SpaceLeft DEF Writing, Reading
  <1>2. Header \in Nat /\ EndOfFields \in Nat /\ Header + 2 <= EndOfFields
    BY <1>1, FieldPlaces
  <1>3. /\ buf \in Nat /\ bufsize \in Nat /\ buf + bufsize < MaxAddress /\ MaxAddress \in Nat
        /\ Header \in 0..MaxAddress /\ input.start \in Nat
    BY <1>1, InputTypes, HeaderRange DEF WriterSpace
  <1>4. EndOfFields <= buf /\ objectsize = buf - input.start
    BY <1>2, <1>3 DEF IInv, WriterPlace, Writing
  <1>5. mem[Header] = <<"size", 0, 0>>
    BY DEF IInv, HeaderStored
  <1> QED BY <1>1, <1>2, <1>3, <1>4, <1>5

LEMMA OpenToWriteKeeps == ASSUME IInv, OpenToWrite PROVE IInv'
  <1>1. /\ phase = "new" /\ Write("size", 0)
        /\ UNCHANGED <<input, wanted, eof, local, ends, got>>
        /\ phase' = IF Fits("size") THEN "write" ELSE "thrown"
    BY DEF OpenToWrite
  <1>2. WriterSpace /\ StreamInv /\ Typed /\ ~Reading /\ ~Reading'
    BY <1>1, SpaceLeft DEF Reading
  <1>3. /\ buf = input.start /\ objectsize = 0 /\ ends = << >> /\ mem[Header][1] # "size"
        /\ input.start \in Nat
    BY <1>1, <1>2, InputTypes DEF IInv, WriterPlace, HeaderStored, WriterSpace
  <1>4. /\ Aligned(buf, "size") = Header /\ Header' = Header /\ Size("size") = 2
        /\ Header \in 0..MaxAddress
    BY <1>1, <1>2, <1>3, HeaderRange DEF Header, Size, WriterSpace
  <1>5. ReaderPlace' /\ ValuesRead'
    BY <1>1, <1>2, NothingRead
  <1>6. EndOfFields' = Header + 2 /\ FieldsStored'
    <2>1. EndOfFields' = Header + 2
      BY <1>1, <1>3, <1>4 DEF EndOfFields, Start
    <2> QED BY <1>1, <1>3, <1>4, <2>1 DEF FieldsStored
  <1>7. CASE Fits("size")
    <2>1. /\ buf' = Header + 2 /\ bufsize' \in Nat /\ buf' + bufsize' = buf + bufsize
          /\ objectsize' = buf' - input.start /\ objectsize' \in Nat /\ buf' \in 0..MaxAddress
          /\ mem' = [a \in 0..MaxAddress |-> mem'[a]] /\ mem'[Header] = <<"size", 0, 0>>
      BY <1>1, <1>2, <1>3, <1>4, <1>7, WriteValues
    <2>2. phase' = "write"
      BY <1>1, <1>7
    <2>3. Typed'
      BY <1>1, <1>2, <2>1, <2>2 DEF Typed, local
    <2>4. StreamTyped'
      BY <1>1, <2>1 DEF IInv, StreamTyped, Object
    <2>5. HeaderStored'
      BY <1>4, <2>1, <2>2 DEF HeaderStored, Writing, Reading
    <2>6. WriterPlace'
      BY <1>1, <1>6, <2>1, <2>2 DEF WriterPlace, Writing
    <2>7. WithinLimit'
      BY <1>1, <1>2, <2>1, <2>2 DEF WithinLimit, Limit, Reading, WriterSpace
    <2> QED BY <1>5, <1>6, <2>3, <2>4, <2>5, <2>6, <2>7 DEF IInv
  <1>8. CASE ~Fits("size")
    <2>1. phase' = "thrown" /\ UNCHANGED <<mem, buf, bufsize, objectsize>>
      BY <1>1, <1>8, WriteRefused
    <2>2. Typed'
      BY <1>1, <1>2, <2>1 DEF Typed, local
    <2>3. StreamTyped'
      BY <1>1, <2>1 DEF IInv, StreamTyped, Object
    <2>4. HeaderStored'
      BY <1>3, <1>4, <2>1 DEF HeaderStored, Writing, Reading
    <2>5. WriterPlace'
      BY <1>3, <1>4, <2>1 DEF WriterPlace, Writing
    <2>6. WithinLimit'
      BY <1>1, <1>2, <2>1 DEF WithinLimit, Limit, Reading, WriterSpace
    <2> QED BY <1>5, <1>6, <2>2, <2>3, <2>4, <2>5, <2>6 DEF IInv
  <1> QED BY <1>7, <1>8

LEMMA WriteFieldKeeps == ASSUME IInv, WriteField PROVE IInv'
  <1>1. /\ phase = "write" /\ ~Written /\ Field.type \notin Integers2
        /\ Write(Field.type, Field.value)
        /\ IF Fits(Field.type) THEN ends' = Append(ends, buf') /\ UNCHANGED phase
           ELSE phase' = "thrown" /\ UNCHANGED ends
        /\ UNCHANGED <<input, wanted, eof, local, got>>
    BY DEF WriteField
  <1>2. /\ WriterSpace /\ StreamInv /\ Typed
        /\ Header \in Nat /\ EndOfFields \in Nat /\ Header + 2 <= EndOfFields
        /\ buf \in Nat /\ bufsize \in Nat /\ buf + bufsize < MaxAddress
        /\ MaxAddress \in Nat /\ Header \in 0..MaxAddress
        /\ objectsize = buf - input.start /\ input.start \in Nat
        /\ mem[Header] = <<"size", 0, 0>>
    BY <1>1, WriterBehind DEF Writing
  <1>3. buf = EndOfFields
    BY <1>1 DEF IInv, WriterPlace
  <1>4. ~Reading /\ ~Reading' /\ Header' = Header
    BY <1>1 DEF Reading, Header
  <1>5. ReaderPlace' /\ ValuesRead'
    BY <1>1, <1>4, NothingRead
  <1>6. CASE Fits(Field.type)
    <2>1. ends' = Append(ends, buf') /\ phase' = "write"
      BY <1>1, <1>6
    <2>2. /\ buf' = Aligned(buf, Field.type) + Size(Field.type)
          /\ buf < buf' /\ buf' \in 0..MaxAddress
          /\ bufsize' \in Nat /\ buf' + bufsize' = buf + bufsize
          /\ objectsize' = objectsize + (buf' - buf) /\ objectsize' \in Nat
          /\ mem' = [a \in 0..MaxAddress |-> mem'[a]]
          /\ mem'[Aligned(buf, Field.type)] = <<Field.type, Field.value, 0>>
          /\ \A a \in 0..MaxAddress : a < buf => mem'[a] = mem[a]
      BY <1>1, <1>2, <1>6, WriteValues
    <2>3. /\ FieldsStored' /\ EndOfFields' = buf'
          /\ ends' \in Seq(Nat) /\ Len(ends') <= Len(Object')
      <3> DEFINE e == buf'
      <3>1. /\ e \in Nat /\ EndOfFields < e /\ EndOfFields <= MaxAddress + 1
            /\ ends' = Append(ends, e)
        BY <1>2, <1>3, <2>1, <2>2
      <3>2. /\ e = Aligned(EndOfFields, Field.type) + Size(Field.type)
            /\ mem'[Aligned(EndOfFields, Field.type)] = <<Field.type, Field.value, 0>>
        BY <1>3, <2>2
      <3>3. \A a \in 0..MaxAddress : a >= Header + 2 /\ a < EndOfFields => mem'[a] = mem[a]
        BY <1>3, <2>2
      <3>4. input' = input /\ ~Written /\ Field.type \notin Integers2
        BY <1>1
      <3> HIDE DEF e
      <3>5. /\ FieldsStored' /\ EndOfFields' = e
            /\ ends' \in Seq(Nat) /\ Len(ends') <= Len(Object')
        BY <1>2, <3>1, <3>2, <3>3, <3>4, FieldAdded
      <3> QED BY <3>5 DEF e
    <2>4. Typed'
      BY <1>1, <1>2, <2>1, <2>2 DEF Typed, local
    <2>5. StreamTyped'
      BY <1>1, <2>2, <2>3 DEF IInv, StreamTyped
    <2>6. HeaderStored'
      <3>1. mem'[Header] = <<"size", 0, 0>>
        <4>1. Header < buf
          BY <1>2, <1>3
        <4> QED BY <1>2, <2>2, <4>1
      <3> QED BY <1>4, <2>1, <3>1 DEF HeaderStored, Writing, Reading
    <2>7. WriterPlace'
      <3>1. objectsize' = buf' - input.start
        <4>1. buf \in Nat /\ input.start \in Nat /\ objectsize = buf - input.start
          BY <1>2
        <4>2. buf' \in Nat /\ objectsize' = objectsize + (buf' - buf)
          BY <2>2, <1>2
        <4> QED BY <4>1, <4>2
      <3>2. input' = input /\ buf' = EndOfFields' /\ phase' = "write"
        BY <1>1, <2>1, <2>3
      <3> QED BY <3>1, <3>2 DEF WriterPlace, Writing
    <2>8. WithinLimit'
      BY <1>1, <1>2, <2>1, <2>2 DEF WithinLimit, Limit, Reading, WriterSpace
    <2> QED BY <1>5, <2>3, <2>4, <2>5, <2>6, <2>7, <2>8 DEF IInv
  <1>7. CASE ~Fits(Field.type)
    <2>1. phase' = "thrown" /\ UNCHANGED <<ends, mem, buf, bufsize, objectsize>>
      BY <1>1, <1>7, WriteRefused
    <2>2. Typed'
      BY <1>1, <1>2, <2>1 DEF Typed, local
    <2>3. StreamTyped'
      BY <1>1, <2>1 DEF IInv, StreamTyped, Object
    <2>4. FieldsStored'
      BY <1>1, <2>1, FieldsUnchanged DEF IInv
    <2>5. HeaderStored'
      BY <1>2, <1>4, <2>1 DEF HeaderStored, Writing, Reading
    <2>6. EndOfFields' = EndOfFields /\ Field' = Field /\ Written' = Written
      BY <1>1, <1>4, <2>1 DEF EndOfFields, Start, Field, Written
    <2>7. WriterPlace'
      BY <1>1, <1>2, <1>3, <2>1, <2>6 DEF WriterPlace, Writing
    <2>8. WithinLimit'
      BY <1>1, <1>2, <2>1 DEF WithinLimit, Limit, Reading, WriterSpace
    <2> QED BY <1>5, <2>2, <2>3, <2>4, <2>5, <2>7, <2>8 DEF IInv
  <1> QED BY <1>6, <1>7

\* The first byte holds the first digit; the rest is left.
LEMMA FirstValues ==
  ASSUME NEW item \in Items, item.type \in Integers2
  PROVE  /\ First(item.value, item.type = "signed").sval = Digit(0, item)
         /\ First(item.value, item.type = "signed").uval = Left(1, item)
  <1>1. /\ Left(0, item) = Magnitude(item) /\ Left(0, item) \in Nat
        /\ Left(0 + 1, item) = Shift(Left(0, item), Payload(0, item)) /\ 0 + 1 = 1
    BY LeftStep
  <1>2. item.value \in Int /\ (item.type = "unsigned" => item.value >= 0)
    BY ItemTypes
  <1>3. CASE item.type = "signed"
    <2> DEFINE u == Magnitude(item)
               s == IF item.value < 0 THEN 64 ELSE 0
    <2>1. Payload(0, item) = 6 /\ (Negative(item) <=> item.value < 0)
      BY <1>3 DEF Payload, Signed, Negative
    <2>2. u = IF item.value < 0 THEN Not(item.value) ELSE item.value
      BY <2>1 DEF Magnitude
    <2>3. First(item.value, item.type = "signed") = [sval |-> s + Low(u, 6), uval |-> Shift(u, 6)]
      BY <1>3, <2>2 DEF First
    <2>4. Digit(0, item) = Low(u, 6) + s /\ Low(u, 6) \in Nat
      <3>1. Low(u, 6) = u % 64
        BY PowerValues DEF Low
      <3>2. u % 64 \in Nat
        BY <1>1
      <3> QED BY <1>1, <2>1, <3>1, <3>2 DEF Digit
    <2> HIDE DEF u
    <2> QED BY <1>1, <2>1, <2>3, <2>4 DEF u
  <1>4. CASE item.type = "unsigned"
    <2>1. Payload(0, item) = 7 /\ ~Negative(item) /\ Magnitude(item) = item.value
      BY <1>4 DEF Payload, Signed, Negative, Magnitude
    <2>2. First(item.value, item.type = "signed") =
            [sval |-> Low(item.value, 7), uval |-> Shift(item.value, 7)]
      BY <1>4 DEF First
    <2>3. Digit(0, item) = Low(item.value, 7)
      <3>1. Low(item.value, 7) = item.value % 128
        BY PowerValues DEF Low
      <3>2. item.value % 128 \in Nat
        BY <1>2, <1>4
      <3> QED BY <1>1, <2>1, <3>1, <3>2 DEF Digit
    <2> QED BY <1>1, <2>1, <2>2, <2>3
  <1> QED BY <1>3, <1>4 DEF Integers2

\* The bytes that follow.
LEMMA NextByteValues ==
  ASSUME NEW item \in Items, item.type \in Integers2, NEW n \in Nat
  PROVE  /\ Low(Left(n + 1, item), 7) = Digit(n + 1, item)
         /\ Shift(Left(n + 1, item), 7) = Left((n + 1) + 1, item)
         /\ MoreToWrite(Digit(n + 1, item), Left((n + 1) + 1, item)) <=> Left(n + 1, item) # 0
  <1> DEFINE x == Left(n + 1, item)
  <1>1. n + 1 \in Nat /\ n + 1 # 0 /\ Payload(n + 1, item) = 7
    BY DEF Payload
  <1>2. x \in Nat /\ Left((n + 1) + 1, item) = Shift(x, 7)
    BY <1>1, LeftStep
  <1>3. Low(x, 7) = x % 128 /\ Shift(x, 7) = x \div 128
    BY PowerValues DEF Low, Shift
  <1>4. x % 128 \in Nat
    BY <1>2
  <1>5. Digit(n + 1, item) = Low(x, 7)
    BY <1>1, <1>3, <1>4 DEF Digit
  <1> HIDE DEF x
  <1>6. (x % 128 # 0 \/ x \div 128 # 0) <=> x # 0
    BY <1>2
  <1> QED BY <1>2, <1>3, <1>5, <1>6 DEF MoreToWrite, x

LEMMA FieldTypes ==
  ASSUME StreamInv, Typed, ~Written
  PROVE  Field \in Items /\ Len(ends) < Len(Object) /\ Len(ends) + 1 \in 1..Len(Object)
  <1>1. Len(ends) \in Nat /\ Len(Object) \in Nat /\ Object \in Seq(Items)
    BY FieldPlaces, InputTypes DEF StreamInv, StreamTyped, Object
  <1>2. Len(ends) < Len(Object)
    BY <1>1 DEF StreamInv, StreamTyped, Written, Object
  <1> QED BY <1>1, <1>2 DEF Field, Object

LEMMA BeginIntegerKeeps == ASSUME IInv, BeginInteger PROVE IInv'
  <1>1. /\ phase = "write" /\ ~Written /\ Field.type \in Integers2
        /\ sval' = First(Field.value, Field.type = "signed").sval
        /\ uval' = First(Field.value, Field.type = "signed").uval
        /\ phase' = "writeInteger"
        /\ UNCHANGED <<input, wanted, mem, buf, bufsize, objectsize, eof, bits, neg, ends, got>>
    BY DEF BeginInteger
  <1>2. /\ WriterSpace /\ StreamInv /\ Typed /\ EndOfFields \in Nat
        /\ objectsize = buf - input.start /\ mem[Header] = <<"size", 0, 0>>
    BY <1>1, WriterBehind DEF Writing
  <1>3. buf = EndOfFields
    BY <1>1 DEF IInv, WriterPlace
  <1>4. ~Reading /\ ~Reading' /\ Header' = Header /\ Field' = Field /\ Written' = Written
        /\ EndOfFields' = EndOfFields
    BY <1>1 DEF Reading, Header, Field, Written, EndOfFields, Start
  <1>5. ReaderPlace' /\ ValuesRead'
    BY <1>1, <1>4, NothingRead
  <1>6. Field \in Items
    BY <1>1, <1>2, FieldTypes
  <1>7. sval' = Digit(0, Field) /\ uval' = Left(1, Field)
    BY <1>1, <1>6, FirstValues
  <1>8. Typed'
    <2>1. Digit(0, Field) \in 0..127 /\ Left(1, Field) \in Nat /\ Left(1, Field) < pow2[Width]
      BY <1>1, <1>6, BytesDecode, LeftStep
    <2>2. pow2[Width] \in Nat
      BY PowerType, StreamAssumption
    <2>3. sval' \in 0..255 /\ uval' \in 0..(pow2[Width] - 1)
      BY <1>7, <2>1, <2>2
    <2> QED BY <1>1, <1>2, <2>3 DEF Typed
  <1>9. StreamTyped'
    BY <1>1 DEF IInv, StreamTyped, Object
  <1>10. FieldsStored'
    BY <1>1, FieldsUnchanged DEF IInv
  <1>11. HeaderStored'
    BY <1>1, <1>2, <1>4 DEF HeaderStored, Writing, Reading
  <1>12. WriterPlace'
    <2>1. buf' - EndOfFields' = 0
      BY <1>1, <1>2, <1>3, <1>4
    <2>2. BytesStored(EndOfFields, 0, Field)' /\ GoesOn(0, Field)
      BY DEF BytesStored, GoesOn
    <2> QED BY <1>1, <1>2, <1>4, <1>7, <2>1, <2>2 DEF WriterPlace, Writing, BytesStored
  <1>13. WithinLimit'
    BY <1>1, <1>2 DEF WithinLimit, Limit, Reading, WriterSpace
  <1> QED BY <1>5, <1>8, <1>9, <1>10, <1>11, <1>12, <1>13 DEF IInv

LEMMA FinalizeKeeps == ASSUME IInv, Finalize PROVE IInv'
  <1>1. /\ phase = "write" /\ Written /\ Put("size", objectsize, Header) /\ phase' = "written"
        /\ UNCHANGED <<input, wanted, buf, bufsize, objectsize, eof, local, ends, got>>
    BY DEF Finalize
  <1>2. /\ WriterSpace /\ StreamInv /\ Typed
        /\ Header \in Nat /\ EndOfFields \in Nat /\ Header + 2 <= EndOfFields
        /\ EndOfFields <= buf /\ buf \in Nat /\ bufsize \in Nat /\ buf + bufsize < MaxAddress
        /\ MaxAddress \in Nat /\ Header \in 0..MaxAddress
        /\ objectsize = buf - input.start /\ input.start \in Nat
    BY <1>1, WriterBehind DEF Writing
  <1>3. buf = EndOfFields
    BY <1>1 DEF IInv, WriterPlace
  <1>4. ~Reading /\ ~Reading' /\ Header' = Header /\ Written'
    BY <1>1 DEF Reading, Header, Written
  <1>5. ReaderPlace' /\ ValuesRead'
    BY <1>1, <1>4, NothingRead
  <1>6. /\ mem' = [a \in 0..MaxAddress |-> mem'[a]] /\ mem'[Header] = <<"size", objectsize, 0>>
        /\ \A a \in 0..MaxAddress : a < Header \/ a >= Header + 2 => mem'[a] = mem[a]
    BY <1>1, <1>2, PutValues DEF WriterSpace, Size
  <1>7. FieldsStored' /\ EndOfFields' = EndOfFields
    BY <1>1, <1>2, <1>6, FieldsKept
  <1>8. Typed'
    BY <1>1, <1>2 DEF Typed, local
  <1>9. StreamTyped'
    BY <1>1, <1>6 DEF IInv, StreamTyped, Object
  <1>10. HeaderStored'
    <2>1. EndOfFields' = input'.start + objectsize' /\ mem'[Header'] = <<"size", objectsize', 0>>
      BY <1>1, <1>2, <1>3, <1>4, <1>6, <1>7
    <2>2. objectsize' <= input'.lim
      <3>1. buf + bufsize = input.start + input.lim /\ input.lim \in Nat
        BY <1>2, InputTypes DEF WriterSpace
      <3> QED BY <1>1, <1>2, <3>1
    <2> QED BY <1>1, <1>4, <2>1, <2>2 DEF HeaderStored, Writing, Reading
  <1>11. WriterPlace'
    BY <1>1, <1>3, <1>7 DEF WriterPlace, Writing
  <1>12. WithinLimit'
    BY <1>1, <1>2 DEF WithinLimit, Limit, Reading, WriterSpace
  <1> QED BY <1>5, <1>7, <1>8, <1>9, <1>10, <1>11, <1>12 DEF IInv

LEMMA WriteByteKeeps == ASSUME IInv, WriteByte PROVE IInv'
  <1> DEFINE n == buf - EndOfFields
  <1>1. /\ phase = "writeInteger" /\ Write("byte", Byte(sval, uval))
        /\ UNCHANGED <<input, wanted, eof, bits, neg, got>>
        /\ Fits("byte") =>
             /\ sval' = Low(uval, 7) /\ uval' = Shift(uval, 7)
             /\ MoreToWrite(sval', uval') => UNCHANGED <<phase, ends>>
             /\ ~MoreToWrite(sval', uval') => phase' = "write" /\ ends' = Append(ends, buf')
        /\ ~Fits("byte") => phase' = "thrown" /\ UNCHANGED <<sval, uval, ends>>
    BY DEF WriteByte
  <1>2. /\ WriterSpace /\ StreamInv /\ Typed
        /\ Header \in Nat /\ EndOfFields \in Nat /\ Header + 2 <= EndOfFields
        /\ EndOfFields <= buf /\ buf \in Nat /\ bufsize \in Nat /\ buf + bufsize < MaxAddress
        /\ MaxAddress \in Nat /\ Header \in 0..MaxAddress
        /\ objectsize = buf - input.start /\ input.start \in Nat
        /\ mem[Header] = <<"size", 0, 0>>
    BY <1>1, WriterBehind DEF Writing
  <1>3. /\ ~Written /\ Field.type \in Integers2
        /\ BytesStored(EndOfFields, n, Field) /\ GoesOn(n, Field)
        /\ sval = Digit(n, Field) /\ uval = Left(n + 1, Field)
    BY <1>1 DEF IInv, WriterPlace
  <1>4. n \in Nat /\ Field \in Items /\ buf = EndOfFields + n
    <2>1. EndOfFields \in Nat /\ buf \in Nat /\ EndOfFields <= buf
      BY <1>2
    <2>2. n \in Nat /\ buf = EndOfFields + n
      BY <2>1
    <2>3. Field \in Items
      BY <1>2, <1>3, FieldTypes
    <2> QED BY <2>2, <2>3
  <1>5. ~Reading /\ ~Reading' /\ Header' = Header
    BY <1>1 DEF Reading, Header
  <1>6. ReaderPlace' /\ ValuesRead'
    BY <1>1, <1>5, NothingRead
  <1>7. Aligned(buf, "byte") = buf /\ Size("byte") = 1
    <2>1. Size("byte") = 1
      BY DEF Size
    <2> QED BY <1>2, <2>1, AlignedRange
  <1>8. CASE Fits("byte")
    <2>1. /\ buf' = buf + 1 /\ buf' \in 0..MaxAddress
          /\ bufsize' \in Nat /\ buf' + bufsize' = buf + bufsize
          /\ objectsize' = objectsize + 1 /\ objectsize' \in Nat
          /\ mem' = [a \in 0..MaxAddress |-> mem'[a]]
          /\ mem'[buf] = <<"byte", Byte(sval, uval), 0>>
          /\ \A a \in 0..MaxAddress : a < buf => mem'[a] = mem[a]
      <3>1. /\ buf' = buf + 1 /\ buf' \in 0..MaxAddress
            /\ bufsize' \in Nat /\ buf' + bufsize' = buf + bufsize
            /\ objectsize' = objectsize + (buf' - buf) /\ objectsize' \in Nat
            /\ mem' = [a \in 0..MaxAddress |-> mem'[a]]
            /\ mem'[buf] = <<"byte", Byte(sval, uval), 0>>
            /\ \A a \in 0..MaxAddress : a < buf => mem'[a] = mem[a]
        BY <1>1, <1>2, <1>7, <1>8, WriteValues
      <3>2. buf' - buf = 1
        BY <1>2, <3>1
      <3> QED BY <3>1, <3>2
    <2>2. ASSUME NEW j \in 0..n
          PROVE  mem'[EndOfFields + j] = <<"byte", Encoded(j, Field), 0>> /\ GoesOn(j, Field)
      <3>1. CASE j = n
        <4>1. Byte(sval, uval) = Encoded(n, Field)
          BY <1>3 DEF Encoded
        <4>2. EndOfFields + j = buf
          BY <1>4, <3>1
        <4> QED BY <1>3, <2>1, <3>1, <4>1, <4>2
      <3>2. CASE j # n
        <4>1. j \in 0..(n - 1)
          BY <1>4, <3>2
        <4>2. mem[EndOfFields + j] = <<"byte", Encoded(j, Field), 0>> /\ GoesOn(j, Field)
          BY <1>3, <4>1 DEF BytesStored
        <4>3. EndOfFields + j \in 0..MaxAddress /\ EndOfFields + j < buf
          <5> HIDE DEF n
          <5> QED BY <1>2, <1>4, <4>1
        <4> QED BY <2>1, <4>2, <4>3
      <3> QED BY <3>1, <3>2
    <2>3. /\ sval' = Digit(n + 1, Field) /\ uval' = Left((n + 1) + 1, Field)
          /\ MoreToWrite(sval', uval') <=> Left(n + 1, Field) # 0
      <3> HIDE DEF n
      <3> QED BY <1>1, <1>3, <1>4, <1>8, NextByteValues
    <2>4. sval' \in 0..255 /\ uval' \in 0..(pow2[Width] - 1)
      <3>1. n + 1 \in Nat /\ (n + 1) + 1 \in Nat
        BY <1>4
      <3> HIDE DEF n
      <3>2. /\ Digit(n + 1, Field) \in 0..127
            /\ Left((n + 1) + 1, Field) \in Nat /\ Left((n + 1) + 1, Field) < pow2[Width]
        BY <1>3, <1>4, <3>1, BytesDecode, LeftStep
      <3>3. pow2[Width] \in Nat
        BY PowerType, StreamAssumption
      <3> QED BY <2>3, <3>2, <3>3
    <2>5. mem'[Header] = <<"size", 0, 0>>
      <3>1. Header < buf
        BY <1>2
      <3> QED BY <1>2, <2>1, <3>1
    <2>6. \A a \in 0..MaxAddress : a >= Header + 2 /\ a < EndOfFields => mem'[a] = mem[a]
      BY <1>2, <2>1
    <2>7. EndOfFields <= MaxAddress + 1 /\ input' = input
      BY <1>1, <1>2
    <2>8. objectsize' = buf' - input.start
      BY <1>2, <2>1
    <2>9. CASE MoreToWrite(sval', uval')
      <3>1. phase' = "writeInteger" /\ ends' = ends
        BY <1>1, <1>8, <2>9
      <3>2. Typed'
        BY <1>1, <1>2, <2>1, <2>4, <3>1 DEF Typed
      <3>3. StreamTyped'
        BY <1>1, <2>1, <3>1 DEF IInv, StreamTyped, Object
      <3>4. FieldsStored' /\ EndOfFields' = EndOfFields
        BY <1>2, <2>6, <2>7, <3>1, FieldsKept
      <3>5. HeaderStored'
        BY <1>5, <2>5, <3>1 DEF HeaderStored, Writing, Reading
      <3>6. WriterPlace'
        <4>1. Field' = Field /\ Written' = Written
          BY <1>1, <3>1 DEF Field, Written
        <4>2. buf' - EndOfFields' = n + 1 /\ n + 1 >= 0
          <5>1. /\ EndOfFields \in Nat /\ n \in Nat /\ buf = EndOfFields + n
                /\ buf' = buf + 1 /\ EndOfFields' = EndOfFields
            BY <1>2, <1>4, <2>1, <3>4
          <5> HIDE DEF n
          <5> QED BY <5>1
        <4>3. GoesOn(n + 1, Field)
          BY <2>3, <2>9 DEF GoesOn
        <4>4. \A j \in 0..((n + 1) - 1) :
                mem'[EndOfFields + j] = <<"byte", Encoded(j, Field), 0>> /\ GoesOn(j, Field)
          BY <1>4, <2>2
        <4> HIDE DEF n
        <4> QED BY <1>1, <1>3, <2>3, <2>8, <3>1, <3>4, <4>1, <4>2, <4>3, <4>4
              DEF WriterPlace, Writing, BytesStored
      <3>7. WithinLimit'
        BY <1>1, <1>2, <2>1, <3>1 DEF WithinLimit, Limit, Reading, WriterSpace
      <3> QED BY <1>6, <3>2, <3>3, <3>4, <3>5, <3>6, <3>7 DEF IInv
    <2>10. CASE ~MoreToWrite(sval', uval')
      <3>1. phase' = "write" /\ ends' = Append(ends, buf')
        BY <1>1, <1>8, <2>10
      <3>2. Typed'
        BY <1>1, <1>2, <2>1, <2>4, <3>1 DEF Typed
      <3>3. /\ FieldsStored' /\ EndOfFields' = buf'
            /\ ends' \in Seq(Nat) /\ Len(ends') <= Len(Object')
        <4> DEFINE e == buf'
        <4>1. e \in Nat /\ EndOfFields < e /\ ends' = Append(ends, e) /\ e - EndOfFields = n + 1
          <5>1. /\ EndOfFields \in Nat /\ n \in Nat /\ buf = EndOfFields + n
                /\ e = buf + 1 /\ ends' = Append(ends, e)
            BY <1>2, <1>4, <2>1, <3>1
          <5> HIDE DEF n, e
          <5> QED BY <5>1
        <4>2. \A j \in 0..(e - EndOfFields - 1) :
                mem'[EndOfFields + j] = <<"byte", Encoded(j, Field), 0>> /\ GoesOn(j, Field)
          BY <1>4, <2>2, <4>1
        <4>3. Left(e - EndOfFields, Field) = 0
          BY <2>3, <2>10, <4>1
        <4> HIDE DEF e
        <4>4. /\ FieldsStored' /\ EndOfFields' = e
              /\ ends' \in Seq(Nat) /\ Len(ends') <= Len(Object')
          BY <1>2, <1>3, <2>6, <2>7, <4>1, <4>2, <4>3, FieldAdded
        <4> QED BY <4>4 DEF e
      <3>4. StreamTyped'
        BY <1>1, <2>1, <3>3 DEF IInv, StreamTyped
      <3>5. HeaderStored'
        BY <1>5, <2>5, <3>1 DEF HeaderStored, Writing, Reading
      <3>6. WriterPlace'
        BY <1>1, <2>8, <3>1, <3>3 DEF WriterPlace, Writing
      <3>7. WithinLimit'
        BY <1>1, <1>2, <2>1, <3>1 DEF WithinLimit, Limit, Reading, WriterSpace
      <3> QED BY <1>6, <3>2, <3>3, <3>4, <3>5, <3>6, <3>7 DEF IInv
    <2> QED BY <2>9, <2>10
  <1>9. CASE ~Fits("byte")
    <2>1. phase' = "thrown" /\ UNCHANGED <<sval, uval, ends, mem, buf, bufsize, objectsize>>
      BY <1>1, <1>9, WriteRefused
    <2>2. bufsize = 0
      BY <1>2, <1>7, <1>9 DEF Fits
    <2>3. Typed'
      BY <1>1, <1>2, <2>1 DEF Typed
    <2>4. StreamTyped'
      BY <1>1, <2>1 DEF IInv, StreamTyped, Object
    <2>5. FieldsStored'
      BY <1>1, <2>1, FieldsUnchanged DEF IInv
    <2>6. HeaderStored'
      BY <1>2, <1>5, <2>1 DEF HeaderStored, Writing, Reading
    <2>7. EndOfFields' = EndOfFields /\ Field' = Field /\ Written' = Written
      BY <1>1, <1>5, <2>1 DEF EndOfFields, Start, Field, Written
    <2>8. WriterPlace'
      <3>1. buf' - EndOfFields' = n /\ n >= 0
        BY <1>4, <2>1, <2>7
      <3> HIDE DEF n
      <3> QED BY <1>3, <2>1, <2>2, <2>7, <3>1 DEF WriterPlace, Writing
    <2>9. WithinLimit'
      BY <1>1, <1>2, <2>1 DEF WithinLimit, Limit, Reading, WriterSpace
    <2> QED BY <1>6, <2>3, <2>4, <2>5, <2>6, <2>8, <2>9 DEF IInv
  <1> QED BY <1>8, <1>9

----------------------------------------------------------------------------
(* The steps of the reader. *)

LEMMA WantedTypes ==
  ASSUME NEW object \in Seq(Items), NEW w \in Readable(object)
  PROVE  /\ Len(w) \in Nat /\ Len(w) <= Len(object) + 1
         /\ \A k \in 1..Len(w) : k <= Len(object) => w[k] = object[k].type
  <1>1. Len(object) \in Nat /\ DOMAIN object = 1..Len(object)
    OBVIOUS
  <1>2. \A k \in 1..Len(object) : object[k].type \in Types
    BY <1>1, ItemTypes
  <1>3. CASE w \in Prefixes(object)
    <2>1. PICK m \in 0..Len(object) : w = [k \in 1..m |-> object[k].type]
      BY <1>3 DEF Prefixes
    <2>2. w \in Seq(Types) /\ Len(w) = m
      BY <1>1, <1>2, <2>1
    <2> QED BY <1>1, <2>1, <2>2
  <1>4. CASE w \notin Prefixes(object)
    <2> DEFINE all == [k \in 1..Len(object) |-> object[k].type]
    <2>1. PICK type \in Types : w = Append(all, type)
      BY <1>1, <1>4 DEF Readable
    <2>2. /\ all \in Seq(Types) /\ Len(all) = Len(object)
          /\ \A k \in 1..Len(object) : all[k] = object[k].type
      BY <1>1, <1>2
    <2> HIDE DEF all
    <2> QED BY <1>1, <2>1, <2>2
  <1> QED BY <1>3, <1>4

LEMMA OpenToReadKeeps == ASSUME IInv, OpenToRead PROVE IInv'
  <1>1. /\ phase = "written" \/ (phase = "thrown" /\ mem[Header][1] = "size")
        /\ wanted' \in Readable(input.object)
        /\ phase' = IF mem[Header][2] = 0 THEN "incomplete" ELSE "read"
        /\ buf' = Header + 2 /\ objectsize' = mem[Header][2] /\ eof' = FALSE
        /\ bufsize' =
             (IF mem[Header][2] = 0 THEN input.lim ELSE mem[Header][2]) - (buf' - input.start)
        /\ UNCHANGED <<input, mem, local, ends, got>>
    BY DEF OpenToRead, Size
  <1>2. WriterSpace /\ StreamInv /\ Typed /\ ~Reading
    BY <1>1, SpaceLeft DEF Reading
  <1>3. /\ Header \in Nat /\ EndOfFields \in Nat /\ Header + 2 <= EndOfFields
        /\ buf \in Nat /\ bufsize \in Nat /\ buf + bufsize = input.start + input.lim
        /\ input.start + input.lim < MaxAddress /\ MaxAddress \in Nat
        /\ input.start \in Nat /\ input.lim \in Nat
        /\ input.start <= Header
    BY <1>2, FieldPlaces, InputTypes, HeaderRange DEF WriterSpace
  <1>4. Header' = Header /\ EndOfFields' = EndOfFields /\ Object' = Object
    BY <1>1 DEF Header, EndOfFields, Start, Object
  <1>5. got = << >> /\ Len(got) = 0 /\ got' = << >>
    BY <1>1, <1>2 DEF IInv, ReaderPlace
  <1>6. StreamTyped'
    BY <1>1, <1>4 DEF IInv, StreamTyped
  <1>7. FieldsStored'
    BY <1>1, FieldsUnchanged DEF IInv
  <1>8. ValuesRead'
    BY <1>1, <1>5 DEF ValuesRead
  <1>9. CASE phase = "written"
    <2>1. /\ mem[Header] = <<"size", objectsize, 0>> /\ Written
          /\ EndOfFields = input.start + objectsize /\ objectsize <= input.lim
      BY <1>9 DEF IInv, HeaderStored
    <2>2. objectsize \in Nat /\ objectsize # 0 /\ EndOfFields = buf
      BY <1>2, <1>3, <1>9, <2>1 DEF WriterSpace, IInv, WriterPlace
    <2>3. /\ phase' = "read" /\ objectsize' = objectsize
          /\ bufsize' = objectsize - (buf' - input.start)
      BY <1>1, <2>1, <2>2
    <2>4. buf' \in 0..MaxAddress /\ bufsize' \in Nat /\ buf' + bufsize' = input.start + objectsize
      BY <1>1, <1>3, <2>1, <2>2, <2>3
    <2>5. Typed'
      BY <1>1, <1>2, <2>2, <2>3, <2>4 DEF Typed, local
    <2>6. HeaderStored'
      <3>1. Written'
        BY <1>1, <2>1 DEF Written
      <3> QED BY <1>1, <1>4, <2>1, <2>3, <3>1 DEF HeaderStored, Writing
    <2>7. WriterPlace'
      BY <2>3 DEF WriterPlace, Writing
    <2>8. ReaderPlace'
      <3>1. Len(wanted') \in Nat /\ wanted' \in Readable(Object')
        <4>1. Object \in Seq(Items) /\ wanted' \in Readable(Object)
          BY <1>1, <1>2, InputTypes DEF Object, WriterSpace
        <4>2. Len(wanted') \in Nat
          BY <4>1, WantedTypes
        <4> QED BY <1>4, <4>1, <4>2
      <3>2. buf' = IF 1 <= Len(Object) THEN Start(1) ELSE EndOfFields
        <4>1. Start(1) = Header + 2
          BY DEF Start, Size
        <4>2. Len(ends) = Len(Object) /\ Len(ends) \in Nat
          BY <1>2, <2>1, FieldPlaces DEF Written, Object
        <4>3. Len(Object) = 0 => EndOfFields = Start(1)
          BY <4>2 DEF EndOfFields
        <4> QED BY <1>1, <4>1, <4>2, <4>3
      <3> QED BY <1>4, <1>5, <2>3, <3>1, <3>2 DEF ReaderPlace, Reading, Start
    <2>9. WithinLimit'
      BY <1>1, <2>3, <2>4 DEF WithinLimit, Limit, Reading
    <2> QED BY <1>6, <1>7, <1>8, <2>5, <2>6, <2>7, <2>8, <2>9 DEF IInv
  <1>10. CASE phase = "thrown"
    <2>1. mem[Header] = <<"size", 0, 0>>
      BY <1>1, <1>10 DEF IInv, HeaderStored
    <2>2. phase' = "incomplete" /\ objectsize' = 0 /\ bufsize' = input.lim - (buf' - input.start)
      BY <1>1, <2>1
    <2>3. EndOfFields <= buf
      BY <1>1, <1>3, <1>10 DEF IInv, WriterPlace
    <2>4. /\ buf' \in 0..MaxAddress /\ bufsize' \in Nat
          /\ buf' + bufsize' = input.start + input.lim
      BY <1>1, <1>3, <2>2, <2>3
    <2>5. Typed'
      <3>1. phase' = "incomplete" /\ objectsize' = 0 /\ eof' = FALSE /\ UNCHANGED local
        BY <1>1, <2>2
      <3> QED BY <1>2, <2>4, <3>1 DEF Typed, local
    <2>6. HeaderStored' /\ WriterPlace'
      BY <2>2 DEF HeaderStored, WriterPlace, Writing, Reading
    <2>7. ReaderPlace'
      BY <1>5, <2>2 DEF ReaderPlace, Reading
    <2>8. WithinLimit'
      BY <1>1, <2>2, <2>4 DEF WithinLimit, Limit, Reading
    <2> QED BY <1>6, <1>7, <1>8, <2>5, <2>6, <2>7, <2>8 DEF IInv
  <1> QED BY <1>1, <1>9, <1>10

LEMMA ReaderFacts ==
  ASSUME IInv, Reading
  PROVE  /\ StreamInv /\ Typed /\ Written /\ input \in Inputs /\ Object \in Seq(Items)
         /\ Len(Object) \in Nat /\ Len(ends) = Len(Object)
         /\ wanted \in Readable(Object) /\ Len(wanted) \in Nat /\ Len(wanted) <= Len(Object) + 1
         /\ \A k \in 1..Len(wanted) : k <= Len(Object) => wanted[k] = Object[k].type
         /\ got \in Seq(Readings) /\ Len(got) \in Nat /\ Len(got) <= Len(wanted)
         /\ EndOfFields \in Nat /\ EndOfFields = input.start + objectsize
         /\ buf \in Nat /\ bufsize \in Nat /\ buf + bufsize = EndOfFields
         /\ EndOfFields <= MaxAddress /\ MaxAddress \in Nat
  <1>1. StreamInv /\ Typed /\ input \in Inputs /\ got \in Seq(Readings)
    BY DEF IInv, StreamInv, StreamTyped
  <1>2. Written /\ EndOfFields = input.start + objectsize /\ objectsize <= input.lim
    BY DEF IInv, HeaderStored
  <1>3. Object \in Seq(Items) /\ Len(Object) \in Nat /\ Len(ends) = Len(Object)
    BY <1>1, <1>2, InputTypes DEF Object, Written
  <1>4. wanted \in Readable(Object) /\ Len(got) <= Len(wanted)
    BY DEF IInv, ReaderPlace
  <1>5. /\ Len(wanted) \in Nat /\ Len(wanted) <= Len(Object) + 1
        /\ \A k \in 1..Len(wanted) : k <= Len(Object) => wanted[k] = Object[k].type
    BY <1>3, <1>4, WantedTypes
  <1>6. Len(got) \in Nat
    BY <1>1
  <1>7. /\ buf \in Nat /\ bufsize \in Nat /\ buf + bufsize = input.start + objectsize
        /\ MaxAddress \in Nat
    BY <1>1, InputTypes DEF Typed, IInv, WithinLimit, Limit
  <1>8. EndOfFields \in Nat
    BY <1>1, FieldPlaces
  <1>9. EndOfFields <= MaxAddress
    <2>1. /\ input.start \in Nat /\ input.lim \in Nat /\ input.start + input.lim < MaxAddress
          /\ objectsize \in Nat
      BY <1>1, InputTypes DEF Typed
    <2> QED BY <1>2, <1>7, <2>1
  <1> QED BY <1>1, <1>2, <1>3, <1>4, <1>5, <1>6, <1>7, <1>8, <1>9

LEMMA ReaderKeeps ==
  ASSUME IInv, Reading, Reading', UNCHANGED <<input, mem, objectsize, ends>>
  PROVE  /\ FieldsStored' /\ HeaderStored' /\ WriterPlace' /\ EndOfFields' = EndOfFields
         /\ Object' = Object /\ \A k : Start(k)' = Start(k)
         /\ (got' \in Seq(Readings) => StreamTyped')
         /\ (buf' + bufsize' = EndOfFields /\ phase' # "outOfBound" => WithinLimit')
  <1>1. /\ EndOfFields' = EndOfFields /\ Object' = Object /\ Header' = Header
        /\ \A k : Start(k)' = Start(k)
    BY DEF EndOfFields, Start, Object, Header
  <1>2. FieldsStored'
    BY FieldsUnchanged DEF IInv
  <1>3. HeaderStored'
    <2>1. Written' = Written
      BY DEF Written
    <2> QED BY <1>1, <2>1 DEF IInv, HeaderStored, Writing, Reading
  <1>4. WriterPlace'
    BY DEF WriterPlace, Writing, Reading
  <1>5. got' \in Seq(Readings) => StreamTyped'
    BY <1>1 DEF IInv, StreamTyped
  <1>6. buf' + bufsize' = EndOfFields /\ phase' # "outOfBound" => WithinLimit'
    BY ReaderFacts DEF WithinLimit, Limit
  <1> QED BY <1>1, <1>2, <1>3, <1>4, <1>5, <1>6

\* What is wanted next is a field of the object, or its end is reached.
LEMMA ReaderAtField ==
  ASSUME IInv, Reading, NEW k, k = Len(got) + 1, k <= Len(Object)
  PROVE  /\ k \in 1..Len(ends) /\ k \in 1..Len(Object) /\ Object[k] \in Items
         /\ Start(k) \in Nat /\ ends[k] \in Nat /\ Start(k) < ends[k] /\ ends[k] <= EndOfFields
         /\ FieldStored(k)
         /\ (IF k + 1 <= Len(Object) THEN Start(k + 1) ELSE EndOfFields) = ends[k]
         /\ k <= Len(wanted) => Wanted = Object[k].type
  <1>1. /\ Len(got) \in Nat /\ Len(Object) \in Nat /\ Len(ends) = Len(Object)
        /\ StreamInv /\ Typed /\ Len(wanted) \in Nat
        /\ \A i \in 1..Len(wanted) : i <= Len(Object) => wanted[i] = Object[i].type
    BY ReaderFacts
  <1>2. k \in 1..Len(ends) /\ k \in 1..Len(Object)
    BY <1>1
  <1>3. /\ Object[k] \in Items /\ Start(k) \in Nat /\ ends[k] \in Nat /\ Start(k + 1) = ends[k]
        /\ Start(k) < ends[k] /\ ends[k] <= EndOfFields
    BY <1>1, <1>2, FieldPlaces
  <1>4. FieldStored(k)
    BY <1>2 DEF IInv, FieldsStored
  <1>5. (IF k + 1 <= Len(Object) THEN Start(k + 1) ELSE EndOfFields) = ends[k]
    <2>1. ~(k + 1 <= Len(Object)) => Len(ends) = k
      BY <1>1, <1>2
    <2> QED BY <1>3, <2>1 DEF EndOfFields
  <1>6. k <= Len(wanted) => Wanted = Object[k].type
    BY <1>1, <1>2 DEF Wanted
  <1> QED BY <1>2, <1>3, <1>4, <1>5, <1>6

LEMMA ReaderAtEnd ==
  ASSUME IInv, Reading, ~AllRead, Len(got) + 1 > Len(Object), phase \in {"read", "readInteger"}
  PROVE  /\ Missing /\ buf = EndOfFields
         /\ Len(got) = Len(Object) /\ Len(wanted) = Len(Object) + 1
  <1>1. /\ Len(got) \in Nat /\ Len(Object) \in Nat
        /\ Len(wanted) \in Nat /\ Len(got) <= Len(wanted) /\ Len(wanted) <= Len(Object) + 1
        /\ EndOfFields \in Nat /\ buf \in Nat /\ bufsize \in Nat /\ buf + bufsize = EndOfFields
    BY ReaderFacts
  <1>2. Len(got) = Len(Object) /\ Len(wanted) = Len(Object) + 1
    BY <1>1 DEF AllRead
  <1>3. buf = EndOfFields
    BY <1>1 DEF IInv, ReaderPlace
  <1> QED BY <1>1, <1>2, <1>3 DEF Missing

LEMMA ReadFieldKeeps == ASSUME IInv, ReadField PROVE IInv'
  <1> DEFINE r == [value |-> IF Missing THEN "unset" ELSE Stored(Wanted), eof |-> eof']
  <1>0. PICK k : k = Len(got) + 1
    OBVIOUS
  <1>1. /\ phase = "read" /\ ~AllRead /\ Wanted \notin Integers2 /\ Consume(Wanted)
        /\ Missing \/ Fits(Wanted) => got' = Append(got, r) /\ phase' = "read"
        /\ UNCHANGED <<input, wanted, mem, objectsize, local, ends>>
    BY DEF ReadField
  <1>2. /\ StreamInv /\ Typed /\ Len(Object) \in Nat /\ Len(ends) = Len(Object)
        /\ wanted \in Readable(Object) /\ Len(wanted) \in Nat
        /\ got \in Seq(Readings) /\ Len(got) \in Nat /\ Len(got) < Len(wanted)
        /\ EndOfFields \in Nat /\ buf \in Nat /\ bufsize \in Nat /\ buf + bufsize = EndOfFields
        /\ EndOfFields <= MaxAddress /\ MaxAddress \in Nat
        /\ k \in Nat /\ k = Len(got) + 1
    BY <1>0, <1>1, ReaderFacts DEF Reading, AllRead
  <1>3. CASE k <= Len(Object)
    <2> DEFINE item == Object[k]
    <2>1. /\ k \in 1..Len(Object) /\ item \in Items /\ Start(k) \in Nat /\ ends[k] \in Nat
          /\ Start(k) < ends[k] /\ ends[k] <= EndOfFields /\ FieldStored(k)
          /\ (IF k + 1 <= Len(Object) THEN Start(k + 1) ELSE EndOfFields) = ends[k]
          /\ Wanted = item.type
      BY <1>1, <1>2, <1>3, ReaderAtField DEF Reading
    <2>2. buf = Start(k)
      BY <1>1, <1>2, <1>3 DEF IInv, ReaderPlace
    <2>3. /\ ends[k] = Aligned(buf, Wanted) + Size(Wanted)
          /\ mem[Aligned(buf, Wanted)] = <<Wanted, item.value, 0>>
      BY <1>1, <2>1, <2>2 DEF FieldStored
    <2>4. ~Missing /\ Fits(Wanted)
      <3>1. bufsize = EndOfFields - buf
        BY <1>2
      <3>2. Aligned(buf, Wanted) \in Nat /\ Size(Wanted) \in {1, 2, 8}
        BY <1>2, AlignedRange
      <3>3. /\ ends[k] \in Nat /\ buf < ends[k] /\ ends[k] <= EndOfFields
            /\ EndOfFields \in Nat /\ buf \in Nat
        BY <1>2, <2>1, <2>2
      <3>4. Aligned(buf, Wanted) - buf + Size(Wanted) = ends[k] - buf
        BY <2>3, <3>2, <3>3
      <3>5. bufsize # 0 /\ ends[k] - buf <= bufsize
        BY <3>1, <3>3
      <3> QED BY <3>4, <3>5 DEF Missing, Fits
    <2>5. /\ buf' = ends[k] /\ bufsize' = bufsize - (buf' - buf) /\ eof' = eof
          /\ phase' = "read" /\ got' = Append(got, r)
      BY <1>1, <2>3, <2>4 DEF Consume, AfterIt
    <2>6. /\ r = [value |-> item.value, eof |-> FALSE] /\ item.value \in Int
          /\ eof' = FALSE /\ eof = FALSE
      <3>1. eof = FALSE
        <4>1. ~(Len(got) >= Len(Object)) /\ eof \in BOOLEAN
          BY <1>2, <1>3 DEF Typed
        <4> QED BY <4>1 DEF IInv, ValuesRead
      <3>2. Stored(Wanted) = item.value
        BY <2>3 DEF Stored
      <3> QED BY <2>1, <2>4, <2>5, <3>1, <3>2, ItemTypes
    <2> HIDE DEF r
    <2>7. /\ got' \in Seq(Readings) /\ Len(got') = k /\ got'[k] = r
          /\ \A i \in 1..Len(got) : got'[i] = got[i]
      BY <1>2, <2>5, <2>6 DEF Readings
    <2>8. Reading /\ Reading'
      BY <1>1, <2>5 DEF Reading
    <2>9. buf' \in 0..MaxAddress /\ bufsize' \in Nat /\ buf' + bufsize' = EndOfFields
      <3>1. PICK e \in Nat : e = ends[k]
        BY <2>1
      <3>2. buf' = e /\ bufsize' = bufsize - (e - buf)
        BY <2>5, <3>1
      <3>3. /\ buf \in Nat /\ bufsize \in Nat /\ EndOfFields \in Nat /\ MaxAddress \in Nat
            /\ buf + bufsize = EndOfFields /\ EndOfFields <= MaxAddress /\ e <= EndOfFields
            /\ e \in Nat
        BY <1>2, <2>1, <3>1
      <3>4. bufsize - (e - buf) \in Nat /\ e + (bufsize - (e - buf)) = EndOfFields
        BY <3>3
      <3>5. e \in 0..MaxAddress
        BY <3>3
      <3> QED BY <3>2, <3>4, <3>5
    <2>10. /\ FieldsStored' /\ HeaderStored' /\ WriterPlace' /\ EndOfFields' = EndOfFields
           /\ Object' = Object /\ \A i : Start(i)' = Start(i)
           /\ StreamTyped' /\ WithinLimit'
      BY <1>1, <2>5, <2>7, <2>8, <2>9, ReaderKeeps
    <2>11. Typed'
      BY <1>1, <1>2, <2>5, <2>6, <2>9 DEF Typed, local
    <2>12. ReaderPlace'
      <3>1. Len(got') + 1 = k + 1 /\ Len(got') <= Len(wanted')
        BY <1>1, <1>2, <2>7
      <3>2. buf' = (IF Len(got) + 1 <= Len(Object) THEN Start(Len(got) + 1) ELSE EndOfFields)'
        <4>1. buf' = IF k + 1 <= Len(Object') THEN Start(k + 1) ELSE EndOfFields'
          BY <2>1, <2>5, <2>10
        <4>2. Start(k + 1) = Start(Len(got) + 1)'
          BY <1>1, <3>1 DEF Start, Header
        <4> QED BY <3>1, <4>1, <4>2
      <3>3. wanted' \in Readable(Object') /\ phase' = "read"
        BY <1>1, <1>2, <2>5, <2>10
      <3> QED BY <3>1, <3>2, <3>3 DEF ReaderPlace, Reading
    <2>13. ValuesRead'
      <3>1. ASSUME NEW i \in 1..k
            PROVE  /\ got'[i].eof <=> i > Len(Object)
                   /\ i <= Len(Object) => got'[i].value = Object[i].value
        <4>1. CASE i = k
          BY <1>2, <1>3, <2>6, <2>7, <4>1
        <4>2. CASE i # k
          <5>1. i \in 1..Len(got) /\ i \in DOMAIN got
            BY <1>2, <4>2
          <5> QED BY <2>7, <5>1 DEF IInv, ValuesRead
        <4> QED BY <4>1, <4>2
      <3>2. DOMAIN got' = 1..k
        BY <2>7
      <3> QED BY <2>6, <2>10, <3>1, <3>2 DEF ValuesRead
    <2> QED BY <2>10, <2>11, <2>12, <2>13 DEF IInv
  <1>4. CASE k > Len(Object)
    <2>1. Missing /\ buf = EndOfFields /\ Len(got) = Len(Object) /\ Len(wanted) = Len(Object) + 1
      BY <1>1, <1>2, <1>4, ReaderAtEnd DEF Reading
    <2>2. eof' = TRUE /\ UNCHANGED <<buf, bufsize>> /\ phase' = "read" /\ got' = Append(got, r)
      BY <1>1, <2>1 DEF Consume
    <2>3. r = [value |-> "unset", eof |-> TRUE] /\ r \in Readings
      BY <2>1, <2>2 DEF Readings
    <2> HIDE DEF r
    <2>4. /\ got' \in Seq(Readings) /\ Len(got') = k /\ got'[k] = r
          /\ \A i \in 1..Len(got) : got'[i] = got[i]
      BY <1>2, <2>2, <2>3
    <2>5. Reading /\ Reading'
      BY <1>1, <2>2 DEF Reading
    <2>6. /\ FieldsStored' /\ HeaderStored' /\ WriterPlace' /\ EndOfFields' = EndOfFields
          /\ Object' = Object /\ StreamTyped' /\ WithinLimit'
      BY <1>1, <1>2, <2>2, <2>4, <2>5, ReaderKeeps
    <2>7. Typed'
      BY <1>1, <1>2, <2>2 DEF Typed, local
    <2>8. ReaderPlace'
      <3>1. Len(got') <= Len(wanted') /\ ~(Len(got') + 1 <= Len(Object'))
        BY <1>1, <1>2, <2>1, <2>4, <2>6
      <3>2. wanted' \in Readable(Object') /\ phase' = "read" /\ buf' = EndOfFields'
        BY <1>1, <1>2, <2>1, <2>2, <2>6
      <3> QED BY <3>1, <3>2 DEF ReaderPlace, Reading
    <2>9. ValuesRead'
      <3>1. ASSUME NEW i \in 1..k
            PROVE  /\ got'[i].eof <=> i > Len(Object)
                   /\ i <= Len(Object) => got'[i].value = Object[i].value
        <4>1. CASE i = k
          BY <1>2, <1>4, <2>3, <2>4, <4>1
        <4>2. CASE i # k
          <5>1. i \in 1..Len(got) /\ i \in DOMAIN got
            BY <1>2, <4>2
          <5> QED BY <2>4, <5>1 DEF IInv, ValuesRead
        <4> QED BY <4>1, <4>2
      <3>2. DOMAIN got' = 1..k /\ Len(got') >= Len(Object)
        BY <1>2, <1>4, <2>4
      <3> QED BY <2>6, <3>1, <3>2 DEF ValuesRead
    <2> QED BY <2>6, <2>7, <2>8, <2>9 DEF IInv
  <1> QED BY <1>2, <1>3, <1>4

LEMMA ReadIntegerKeeps == ASSUME IInv, ReadInteger PROVE IInv'
  <1> DEFINE k == Len(got) + 1
  <1>1. /\ phase = "read" /\ ~AllRead /\ Wanted \in Integers2
        /\ sval' \in 0..255 /\ uval' = 0 /\ bits' = 0 /\ neg' = FALSE /\ phase' = "readInteger"
        /\ UNCHANGED <<input, wanted, mem, buf, bufsize, objectsize, eof, ends, got>>
    BY DEF ReadInteger
  <1>2. /\ Typed /\ Len(Object) \in Nat /\ wanted \in Readable(Object)
        /\ got \in Seq(Readings) /\ Len(got) \in Nat /\ Len(got) <= Len(wanted)
        /\ buf + bufsize = EndOfFields
    BY <1>1, ReaderFacts DEF Reading
  <1>3. Reading /\ Reading' /\ AllRead' = AllRead /\ Wanted' = Wanted
    BY <1>1 DEF Reading, AllRead, Wanted
  <1>4. /\ FieldsStored' /\ HeaderStored' /\ WriterPlace' /\ EndOfFields' = EndOfFields
        /\ Object' = Object /\ \A i : Start(i)' = Start(i)
        /\ StreamTyped' /\ WithinLimit'
    BY <1>1, <1>2, <1>3, ReaderKeeps
  <1>5. Typed'
    <2>1. 0 \in 0..(pow2[Width] - 1) /\ 0 \in 0..(Width + 6)
      BY PowerType, StreamAssumption
    <2> QED BY <1>1, <1>2, <2>1 DEF Typed
  <1>6. ValuesRead'
    BY <1>1, <1>4 DEF IInv, ValuesRead
  <1>7. ReaderPlace'
    <2>1. CASE k <= Len(Object)
      <3> DEFINE item == Object[k]
      <3>1. /\ item \in Items /\ item.type \in Integers2
            /\ Start(k) \in Nat /\ ends[k] \in Nat /\ Start(k) < ends[k]
        BY <1>1, <1>2, <1>3, <2>1, ReaderAtField DEF AllRead
      <3>2. buf = Start(k)
        BY <1>1, <2>1 DEF IInv, ReaderPlace
      <3>3. bits' = Weight(0, item) /\ Low(Magnitude(item), Weight(0, item)) = 0
        BY <1>1, <3>1, LowRange, WeightStep
      <3>4. Len(got)' + 1 = k /\ (Start(Len(got) + 1))' = Start(k)
        BY <1>1 DEF Start, Header
      <3>5. buf' - (Start(Len(got) + 1))' = 0 /\ buf' < ends'[k] /\ Object'[k] = item
        BY <1>1, <1>4, <3>1, <3>2, <3>4
      <3>6. /\ bits' = Weight(0, Object'[k]) /\ uval' = Low(Magnitude(Object'[k]), bits')
            /\ (neg' <=> 0 > 0 /\ Negative(Object'[k]))
        BY <1>1, <3>3, <3>5
      <3>7. k <= Len(Object') /\ Len(got') <= Len(wanted') /\ wanted' \in Readable(Object')
        BY <1>1, <1>2, <1>4, <2>1
      <3> HIDE DEF k, item
      <3> QED BY <1>1, <1>3, <3>4, <3>5, <3>6, <3>7 DEF ReaderPlace, Reading
    <2>2. CASE k > Len(Object)
      <3>1. buf = EndOfFields
        BY <1>1, <1>3, <2>2, ReaderAtEnd
      <3>2. ~(Len(got') + 1 <= Len(Object')) /\ Len(got') <= Len(wanted')
            /\ wanted' \in Readable(Object') /\ buf' = EndOfFields'
        BY <1>1, <1>2, <1>4, <2>2, <3>1
      <3> QED BY <1>1, <1>3, <3>2 DEF ReaderPlace, Reading
    <2> QED BY <1>2, <2>1, <2>2
  <1> QED BY <1>4, <1>5, <1>6, <1>7 DEF IInv

LEMMA CloseKeeps == ASSUME IInv, Close PROVE IInv'
  <1>1. /\ phase = "read" /\ phase' = "done"
        /\ UNCHANGED <<input, wanted, mem, buf, bufsize, objectsize, eof, local, ends, got>>
    BY DEF Close
  <1>2. Reading /\ Reading'
    BY <1>1 DEF Reading
  <1>3. Typed /\ got \in Seq(Readings) /\ buf + bufsize = EndOfFields
    BY <1>2, ReaderFacts
  <1>4. /\ FieldsStored' /\ HeaderStored' /\ WriterPlace' /\ EndOfFields' = EndOfFields
        /\ Object' = Object /\ \A i : Start(i)' = Start(i)
        /\ StreamTyped' /\ WithinLimit'
    BY <1>1, <1>2, <1>3, ReaderKeeps
  <1>5. Typed'
    BY <1>1, <1>3 DEF Typed, local
  <1>6. ReaderPlace'
    BY <1>1, <1>2, <1>4 DEF IInv, ReaderPlace, Reading, Start
  <1>7. ValuesRead'
    BY <1>1, <1>4 DEF IInv, ValuesRead
  <1> QED BY <1>4, <1>5, <1>6, <1>7 DEF IInv

\* A byte puts its bits before those that came with the bytes in front of it.
LEMMA NextBits ==
  ASSUME NEW item \in Items, item.type \in Integers2, NEW n \in Nat
  PROVE  Low(Low(Magnitude(item), Weight(n, item))
               + Low(Encoded(n, item), Payload(n, item)) * pow2[Weight(n, item)], Width)
           = Low(Magnitude(item), Weight(n + 1, item))
  <1>1. Low(Encoded(n, item), Payload(n, item)) = Low(Left(n, item), Payload(n, item))
    BY BytesDecode
  <1>2. Low(Magnitude(item), Weight(n + 1, item)) =
          Low(Magnitude(item), Weight(n, item))
            + Low(Left(n, item), Payload(n, item)) * pow2[Weight(n, item)]
    BY LowStep
  <1> DEFINE x == Low(Magnitude(item), Weight(n + 1, item))
  <1>3. x \in 0..(pow2[Width] - 1)
    BY LowRange
  <1>4. pow2[Width] \in Nat \ {0}
    BY PowerType, StreamAssumption
  <1>5. Low(x, Width) = x
    <2> HIDE DEF x
    <2>1. x \in Nat /\ x < pow2[Width]
      BY <1>3, <1>4
    <2>2. x % pow2[Width] = x
      BY <1>4, <2>1, DivMod
    <2> QED BY <2>2 DEF Low
  <1> QED BY <1>1, <1>2, <1>5

\* A field ends with the byte that says so.
LEMMA LastByte ==
  ASSUME NEW item \in Items, item.type \in Integers2, NEW from \in Nat, NEW size \in Nat,
         BytesStored(from, size, item), Left(size, item) = 0, NEW n \in Nat, n < size
  PROVE  /\ mem[from + n] = <<"byte", Encoded(n, item), 0>> /\ GoesOn(n, item)
         /\ n + 1 = size <=> Left(n + 1, item) = 0
  <1>1. mem[from + n] = <<"byte", Encoded(n, item), 0>> /\ GoesOn(n, item)
    BY DEF BytesStored
  <1>2. CASE n + 1 = size
    BY <1>1, <1>2
  <1>3. CASE n + 1 # size
    <2>1. n + 1 \in 0..(size - 1)
      BY <1>3
    <2>2. GoesOn(n + 1, item)
      BY <2>1 DEF BytesStored
    <2> QED BY <1>1, <1>3, <2>2 DEF GoesOn
  <1> QED BY <1>2, <1>3

LEMMA ReadByteFacts ==
  ASSUME ReadByte
  PROVE  LET b == IF Missing THEN sval ELSE Stored("byte")
             payload == IF bits = 0 /\ Wanted = "signed" THEN 6 ELSE 7
         IN  /\ phase = "readInteger" /\ Consume("byte") /\ sval' = b
             /\ uval' = IF bits >= Width THEN uval
                        ELSE Low(uval + Low(b, payload) * pow2[bits], Width)
             /\ neg' = IF bits = 0 THEN Wanted = "signed" /\ HighBit(b, 6) = 1 ELSE neg
             /\ bits' = IF bits >= Width THEN bits ELSE bits + payload
             /\ HighBit(b, 7) = 1 => phase' = "readInteger" /\ got' = got
             /\ HighBit(b, 7) # 1 =>
                  /\ phase' = "read"
                  /\ got' = Append(got, [value |-> Result(uval', neg'), eof |-> eof'])
             /\ UNCHANGED <<input, wanted, mem, objectsize, ends>>
  BY DEF ReadByte

\* A byte of an integer that is there.
LEMMA ByteOfField ==
  ASSUME IInv, ReadByte, NEW k, k = Len(got) + 1, k <= Len(Object),
         NEW item, item = Object[k], NEW n, n = buf - Start(k)
  PROVE  /\ n \in Nat /\ item \in Items /\ item.type \in Integers2
         /\ buf' = Start(k) + (n + 1) /\ bufsize' = bufsize - 1 /\ bufsize > 0 /\ eof' = eof
         /\ sval' \in 0..255
         /\ uval' = Low(Magnitude(item), Weight(n + 1, item))
         /\ neg' = Negative(item)
         /\ bits' = Weight(n + 1, item) /\ bits' <= Width + 6
         /\ IF Left(n + 1, item) # 0
            THEN phase' = "readInteger" /\ got' = got /\ Start(k) + (n + 1) < ends[k]
            ELSE /\ phase' = "read" /\ Start(k) + (n + 1) = ends[k]
                 /\ got' = Append(got, [value |-> Result(uval', neg'), eof |-> eof'])
  <1>1. phase = "readInteger" /\ Reading
    BY ReadByteFacts DEF Reading
  <1>2. /\ EndOfFields \in Nat /\ buf \in Nat /\ bufsize \in Nat /\ buf + bufsize = EndOfFields
        /\ Len(got) \in Nat /\ Len(wanted) \in Nat /\ Len(got) <= Len(wanted) /\ Typed
    BY <1>1, ReaderFacts
  <1>3. /\ ~AllRead /\ Wanted \in Integers2 /\ k <= Len(wanted)
    BY <1>1, <1>2 DEF IInv, ReaderPlace, AllRead
  <1>4. /\ item \in Items /\ item.type = Wanted /\ FieldStored(k)
        /\ Start(k) \in Nat /\ ends[k] \in Nat /\ Start(k) < ends[k] /\ ends[k] <= EndOfFields
    BY <1>1, <1>3, ReaderAtField
  <1>5. /\ n >= 0 /\ buf < ends[k] /\ bits = Weight(n, item)
        /\ uval = Low(Magnitude(item), bits) /\ (neg <=> n > 0 /\ Negative(item))
    BY <1>1 DEF IInv, ReaderPlace
  <1>6. n \in Nat /\ buf = Start(k) + n
    BY <1>2, <1>4, <1>5
  <1>7. PICK size \in Nat : size = ends[k] - Start(k) /\ n < size /\ ends[k] = Start(k) + size
    <2>1. /\ Start(k) \in Nat /\ ends[k] \in Nat /\ n \in Nat
          /\ Start(k) + n < ends[k]
      BY <1>4, <1>5, <1>6
    <2>2. ends[k] - Start(k) \in Nat /\ n < ends[k] - Start(k)
          /\ ends[k] = Start(k) + (ends[k] - Start(k))
      BY <2>1
    <2> QED BY <2>2
  <1>8. BytesStored(Start(k), size, item) /\ Left(size, item) = 0
    BY <1>3, <1>4, <1>7 DEF FieldStored
  <1>9. /\ mem[Start(k) + n] = <<"byte", Encoded(n, item), 0>> /\ GoesOn(n, item)
        /\ n + 1 = size <=> Left(n + 1, item) = 0
    <2>1. PICK from \in Nat : from = Start(k)
      BY <1>4
    <2>2. /\ item \in Items /\ item.type \in Integers2
          /\ size \in Nat /\ n \in Nat /\ n < size
          /\ BytesStored(from, size, item) /\ Left(size, item) = 0
      BY <1>3, <1>4, <1>6, <1>7, <1>8, <2>1
    <2>3. mem[from + n] = <<"byte", Encoded(n, item), 0>> /\ GoesOn(n, item)
      BY <2>2, LastByte
    <2>4. n + 1 = size <=> Left(n + 1, item) = 0
      BY <2>2, LastByte
    <2> QED BY <2>1, <2>3, <2>4
  <1>10. Aligned(buf, "byte") = buf /\ Size("byte") = 1
    <2>1. Size("byte") = 1
      BY DEF Size
    <2>2. /\ Aligned(buf, "byte") \in Nat /\ buf <= Aligned(buf, "byte")
          /\ Aligned(buf, "byte") < buf + 1
      BY <1>2, <2>1, AlignedRange
    <2> QED BY <1>2, <2>1, <2>2
  <1>11. ~Missing /\ bufsize > 0 /\ Stored("byte") = Encoded(n, item)
    <2>1. bufsize > 0
      BY <1>2, <1>4, <1>5
    <2> QED BY <1>6, <1>9, <1>10, <2>1 DEF Missing, Stored
  <1>12. /\ bits \in Nat /\ bits < Width /\ Width \in Nat /\ (bits = 0 <=> n = 0)
         /\ Payload(n, item) \in {6, 7} /\ Weight(n + 1, item) = bits + Payload(n, item)
    BY <1>3, <1>4, <1>5, <1>6, <1>9, WeightStep, WeightInWidth, StreamAssumption
  <1>13. (IF bits = 0 /\ Wanted = "signed" THEN 6 ELSE 7) = Payload(n, item)
    BY <1>4, <1>12 DEF Payload, Signed
  <1>14. /\ sval' = Encoded(n, item)
         /\ uval' = Low(uval + Low(Encoded(n, item), Payload(n, item)) * pow2[bits], Width)
         /\ neg' = IF bits = 0 THEN Wanted = "signed" /\ HighBit(Encoded(n, item), 6) = 1 ELSE neg
         /\ bits' = bits + Payload(n, item)
    BY <1>11, <1>12, <1>13, ReadByteFacts
  <1>15. /\ buf' = buf + 1 /\ bufsize' = bufsize - (buf' - buf) /\ eof' = eof
    BY <1>10, <1>11, ReadByteFacts DEF Consume, AfterIt
  <1>16. /\ Encoded(n, item) \in 0..255
         /\ HighBit(Encoded(n, item), 7) = 1 <=> Left(n + 1, item) # 0
         /\ Signed(item) /\ n = 0 => (HighBit(Encoded(n, item), 6) = 1 <=> Negative(item))
    BY <1>3, <1>4, <1>6, BytesDecode
  <1>17. uval' = Low(Magnitude(item), Weight(n + 1, item))
    BY <1>3, <1>4, <1>5, <1>6, <1>14, NextBits
  <1>18. neg' = Negative(item)
    <2>1. neg \in BOOLEAN /\ Negative(item) \in BOOLEAN /\ (Negative(item) => Signed(item))
      BY <1>2 DEF Typed, Negative
    <2>2. CASE n = 0
      BY <1>4, <1>12, <1>14, <1>16, <2>1, <2>2 DEF Signed
    <2>3. CASE n # 0
      <3>1. neg' = neg /\ n > 0
        BY <1>6, <1>12, <1>14, <2>3
      <3>2. neg <=> Negative(item)
        BY <1>5, <3>1
      <3> QED BY <2>1, <3>1, <3>2, Zenon
    <2> QED BY <2>2, <2>3
  <1>19. buf' = Start(k) + (n + 1) /\ bufsize' = bufsize - 1
    <2>1. buf' - buf = 1
      BY <1>2, <1>15
    <2> QED BY <1>4, <1>6, <1>15, <2>1
  <1>20. bits' = Weight(n + 1, item) /\ bits' <= Width + 6
    BY <1>12, <1>14
  <1>21. CASE Left(n + 1, item) # 0
    <2>1. phase' = "readInteger" /\ got' = got
      BY <1>11, <1>16, <1>21, ReadByteFacts
    <2>2. Start(k) + (n + 1) < ends[k]
      BY <1>4, <1>6, <1>7, <1>9, <1>21
    <2> QED BY <1>3, <1>4, <1>6, <1>11, <1>14, <1>15, <1>16, <1>17, <1>18, <1>19, <1>20, <1>21,
               <2>1, <2>2
  <1>22. CASE Left(n + 1, item) = 0
    <2>1. phase' = "read" /\ got' = Append(got, [value |-> Result(uval', neg'), eof |-> eof'])
      BY <1>11, <1>16, <1>22, ReadByteFacts
    <2>2. Start(k) + (n + 1) = ends[k]
      BY <1>7, <1>9, <1>22
    <2> QED BY <1>3, <1>4, <1>6, <1>11, <1>14, <1>15, <1>16, <1>17, <1>18, <1>19, <1>20, <1>22,
               <2>1, <2>2
  <1> QED BY <1>21, <1>22

\* The value that was read is that of the field.
LEMMA ResultOfField ==
  ASSUME NEW item \in Items, item.type \in Integers2, NEW n \in Nat, Left(n, item) = 0
  PROVE  Result(Low(Magnitude(item), Weight(n, item)), Negative(item)) = item.value
  BY LowRange, MagnitudeRange DEF Result

LEMMA ReadByteOfFieldKeeps == ASSUME IInv, ReadByte, Len(got) + 1 <= Len(Object) PROVE IInv'
  <1>0. PICK k : k = Len(got) + 1
    OBVIOUS
  <1>1. PICK item : item = Object[k]
    OBVIOUS
  <1>2. PICK n : n = buf - Start(k)
    OBVIOUS
  <1>3. PICK e : e = Start(k) + (n + 1)
    OBVIOUS
  <1>4. /\ n \in Nat /\ item \in Items /\ item.type \in Integers2
        /\ buf' = e /\ bufsize' = bufsize - 1 /\ bufsize > 0 /\ eof' = eof
        /\ sval' \in 0..255
        /\ uval' = Low(Magnitude(item), Weight(n + 1, item))
        /\ neg' = Negative(item)
        /\ bits' = Weight(n + 1, item) /\ bits' <= Width + 6
        /\ IF Left(n + 1, item) # 0
           THEN phase' = "readInteger" /\ got' = got /\ e < ends[k]
           ELSE /\ phase' = "read" /\ e = ends[k]
                /\ got' = Append(got, [value |-> Result(uval', neg'), eof |-> eof'])
    BY <1>0, <1>1, <1>2, <1>3, ByteOfField
  <1>5. phase = "readInteger" /\ UNCHANGED <<input, wanted, mem, objectsize, ends>>
    BY ReadByteFacts
  <1>6. Reading /\ Reading'
    BY <1>4, <1>5 DEF Reading
  <1>7. /\ StreamInv /\ Typed /\ Len(Object) \in Nat /\ Len(ends) = Len(Object)
        /\ wanted \in Readable(Object) /\ Len(wanted) \in Nat
        /\ got \in Seq(Readings) /\ Len(got) \in Nat /\ Len(got) <= Len(wanted)
        /\ EndOfFields \in Nat /\ buf \in Nat /\ bufsize \in Nat /\ buf + bufsize = EndOfFields
        /\ EndOfFields <= MaxAddress /\ MaxAddress \in Nat
        /\ k \in Nat /\ k = Len(got) + 1 /\ k <= Len(Object)
    BY <1>0, <1>6, ReaderFacts
  <1>8. ~AllRead /\ Wanted \in Integers2 /\ Len(got) < Len(wanted)
    BY <1>5, <1>7 DEF IInv, ReaderPlace, AllRead
  <1>9. /\ k \in 1..Len(Object) /\ Start(k) \in Nat /\ ends[k] \in Nat /\ ends[k] <= EndOfFields
        /\ (IF k + 1 <= Len(Object) THEN Start(k + 1) ELSE EndOfFields) = ends[k]
    BY <1>6, <1>7, ReaderAtField
  <1>10. e \in Nat /\ e = Start(k) + (n + 1) /\ buf = Start(k) + n /\ e = buf + 1
    <2>1. Start(k) \in Nat /\ n \in Nat /\ buf \in Nat
      BY <1>4, <1>7, <1>9
    <2>2. buf = Start(k) + n
      BY <1>2, <2>1
    <2> QED BY <1>3, <2>1, <2>2
  <1>11. buf' \in 0..MaxAddress /\ bufsize' \in Nat /\ buf' + bufsize' = EndOfFields
    <2>1. e \in 0..MaxAddress /\ bufsize - 1 \in Nat /\ e + (bufsize - 1) = EndOfFields
      <3>1. /\ e \in Nat /\ e = buf + 1 /\ buf \in Nat /\ bufsize \in Nat /\ bufsize > 0
            /\ buf + bufsize = EndOfFields /\ EndOfFields \in Nat
            /\ EndOfFields <= MaxAddress /\ MaxAddress \in Nat
        BY <1>4, <1>7, <1>10
      <3> QED BY <3>1
    <2> QED BY <1>4, <2>1
  <1>12. Typed'
    <2>1. Low(Magnitude(item), Weight(n + 1, item)) \in 0..(pow2[Width] - 1)
      <3>1. n + 1 \in Nat
        BY <1>4
      <3> QED BY <1>4, <3>1, LowRange
    <2>2. Negative(item) \in BOOLEAN
      BY DEF Negative
    <2>3. Weight(n + 1, item) \in Nat /\ Width + 6 \in Nat
      BY <1>4, WeightStep, StreamAssumption
    <2>4. bits' \in 0..(Width + 6)
      BY <1>4, <2>3
    <2>5. objectsize \in Nat /\ eof \in BOOLEAN
      BY <1>7 DEF Typed
    <2> QED BY <1>4, <1>5, <1>11, <2>1, <2>2, <2>4, <2>5 DEF Typed
  <1>13. eof = FALSE
    <2>1. ~(Len(got) >= Len(Object)) /\ eof \in BOOLEAN
      BY <1>7 DEF Typed
    <2> QED BY <2>1 DEF IInv, ValuesRead
  <1>14. CASE Left(n + 1, item) # 0
    <2>1. phase' = "readInteger" /\ got' = got /\ e < ends[k]
      BY <1>4, <1>14
    <2>2. /\ FieldsStored' /\ HeaderStored' /\ WriterPlace' /\ EndOfFields' = EndOfFields
          /\ Object' = Object /\ \A i : Start(i)' = Start(i)
          /\ StreamTyped' /\ WithinLimit'
      BY <1>5, <1>6, <1>7, <1>11, <2>1, ReaderKeeps
    <2>3. ValuesRead'
      BY <1>4, <2>1, <2>2 DEF IInv, ValuesRead
    <2>4. ReaderPlace'
      <3>1. Len(got)' + 1 = k /\ (Start(Len(got) + 1))' = Start(k)
        BY <1>5, <1>7, <2>1 DEF Start, Header
      <3>2. buf' - (Start(Len(got) + 1))' = n + 1 /\ buf' < ends'[k] /\ Object'[k] = item
        <4>1. e - Start(k) = n + 1
          BY <1>4, <1>9, <1>10
        <4> QED BY <1>1, <1>4, <1>5, <2>1, <2>2, <3>1, <4>1
      <3>3. /\ bits' = Weight(n + 1, Object'[k]) /\ uval' = Low(Magnitude(Object'[k]), bits')
            /\ (neg' <=> n + 1 > 0 /\ Negative(Object'[k])) /\ n + 1 >= 0
        BY <1>4, <3>2
      <3>4. k <= Len(Object') /\ Len(got') <= Len(wanted') /\ wanted' \in Readable(Object')
        BY <1>5, <1>7, <2>1, <2>2
      <3>5. ~AllRead' /\ Wanted' \in Integers2
        BY <1>5, <1>8, <2>1 DEF AllRead, Wanted
      <3>6. ~(k > Len(Object'))
        BY <1>7, <2>2
      <3> QED BY <1>6, <2>1, <3>1, <3>2, <3>3, <3>4, <3>5, <3>6 DEF ReaderPlace
    <2> QED BY <1>12, <2>2, <2>3, <2>4 DEF IInv
  <1>15. CASE Left(n + 1, item) = 0
    <2>1. /\ phase' = "read" /\ e = ends[k]
          /\ got' = Append(got, [value |-> item.value, eof |-> FALSE])
      <3>1. Result(uval', neg') = item.value
        BY <1>4, <1>15, ResultOfField
      <3> QED BY <1>4, <1>13, <1>15, <3>1
    <2> DEFINE r == [value |-> item.value, eof |-> FALSE]
    <2>2. r \in Readings
      BY <1>4, ItemTypes DEF Readings
    <2>3. r.value = item.value /\ r.eof = FALSE /\ got' = Append(got, r)
      BY <2>1
    <2> HIDE DEF r
    <2>4. /\ got' \in Seq(Readings) /\ Len(got') = k /\ got'[k] = r
          /\ \A i \in 1..Len(got) : got'[i] = got[i]
      BY <1>7, <2>2, <2>3
    <2>5. /\ FieldsStored' /\ HeaderStored' /\ WriterPlace' /\ EndOfFields' = EndOfFields
          /\ Object' = Object /\ \A i : Start(i)' = Start(i)
          /\ StreamTyped' /\ WithinLimit'
      BY <1>5, <1>6, <1>11, <2>1, <2>4, ReaderKeeps
    <2>6. ReaderPlace'
      <3>1. Len(got') + 1 = k + 1 /\ Len(got') <= Len(wanted')
        BY <1>5, <1>7, <1>8, <2>4
      <3>2. buf' = (IF Len(got) + 1 <= Len(Object) THEN Start(Len(got) + 1) ELSE EndOfFields)'
        <4>1. buf' = IF k + 1 <= Len(Object') THEN Start(k + 1) ELSE EndOfFields'
          BY <1>4, <1>9, <2>1, <2>5
        <4>2. Start(k + 1) = Start(Len(got) + 1)'
          BY <1>5, <3>1 DEF Start, Header
        <4> QED BY <3>1, <4>1, <4>2
      <3>3. wanted' \in Readable(Object') /\ phase' = "read"
        BY <1>5, <1>7, <2>1, <2>5
      <3> QED BY <3>1, <3>2, <3>3 DEF ReaderPlace, Reading
    <2>7. ValuesRead'
      <3>1. ASSUME NEW i \in 1..k
            PROVE  /\ got'[i].eof <=> i > Len(Object)
                   /\ i <= Len(Object) => got'[i].value = Object[i].value
        <4>1. CASE i = k
          BY <1>1, <1>7, <2>3, <2>4, <4>1
        <4>2. CASE i # k
          <5>1. i \in 1..Len(got) /\ i \in DOMAIN got
            BY <1>7, <4>2
          <5> QED BY <2>4, <5>1 DEF IInv, ValuesRead
        <4> QED BY <4>1, <4>2
      <3>2. DOMAIN got' = 1..k
        BY <2>4
      <3> QED BY <1>4, <1>13, <2>5, <3>1, <3>2 DEF ValuesRead
    <2> QED BY <1>12, <2>5, <2>6, <2>7 DEF IInv
  <1> QED BY <1>14, <1>15

\* There is no integer: the loop turns on whatever it had.
LEMMA ReadByteAtEndKeeps == ASSUME IInv, ReadByte, Len(got) + 1 > Len(Object) PROVE IInv'
  <1>0. PICK k : k = Len(got) + 1
    OBVIOUS
  <1>1. phase = "readInteger" /\ Reading /\ UNCHANGED <<input, wanted, mem, objectsize, ends>>
    BY ReadByteFacts DEF Reading
  <1>2. /\ StreamInv /\ Typed /\ Len(Object) \in Nat /\ Len(ends) = Len(Object)
        /\ wanted \in Readable(Object) /\ Len(wanted) \in Nat
        /\ got \in Seq(Readings) /\ Len(got) \in Nat /\ Len(got) <= Len(wanted)
        /\ EndOfFields \in Nat /\ buf \in Nat /\ bufsize \in Nat /\ buf + bufsize = EndOfFields
        /\ EndOfFields <= MaxAddress /\ MaxAddress \in Nat
        /\ k \in Nat /\ k = Len(got) + 1 /\ k > Len(Object)
    BY <1>0, <1>1, ReaderFacts
  <1>3. ~AllRead /\ Wanted \in Integers2 /\ Len(got) < Len(wanted)
    BY <1>1, <1>2 DEF IInv, ReaderPlace, AllRead
  <1>4. Missing /\ buf = EndOfFields /\ Len(got) = Len(Object) /\ Len(wanted) = Len(Object) + 1
    BY <1>1, <1>3, ReaderAtEnd
  <1>5. eof' = TRUE /\ UNCHANGED <<buf, bufsize>> /\ sval' = sval
    BY <1>4, ReadByteFacts DEF Consume
  <1>6. PICK payload \in {6, 7} :
          /\ uval' = IF bits >= Width THEN uval
                     ELSE Low(uval + Low(sval, payload) * pow2[bits], Width)
          /\ bits' = IF bits >= Width THEN bits ELSE bits + payload
    <2> DEFINE payload == IF bits = 0 /\ Wanted = "signed" THEN 6 ELSE 7
    <2>1. payload \in {6, 7}
      OBVIOUS
    <2>2. /\ uval' = IF bits >= Width THEN uval
                     ELSE Low(uval + Low(sval, payload) * pow2[bits], Width)
          /\ bits' = IF bits >= Width THEN bits ELSE bits + payload
      BY <1>4, ReadByteFacts
    <2> HIDE DEF payload
    <2> QED BY <2>1, <2>2
  <1>7. /\ sval \in 0..255 /\ uval \in 0..(pow2[Width] - 1) /\ bits \in 0..(Width + 6)
        /\ neg \in BOOLEAN /\ Width \in Nat /\ pow2[Width] \in Nat \ {0}
        /\ objectsize \in Nat /\ buf \in 0..MaxAddress
    BY <1>2, PowerType, StreamAssumption DEF Typed
  <1>8. uval' \in 0..(pow2[Width] - 1) /\ uval' \in Nat
    <2>1. CASE bits >= Width
      BY <1>6, <1>7, <2>1
    <2>2. CASE ~(bits >= Width)
      <3>1. Low(sval, payload) \in Nat
        <4>1. pow2[payload] \in Nat \ {0}
          BY <1>6, PowerType
        <4>2. sval \in Nat
          BY <1>7
        <4>3. sval % pow2[payload] \in Nat
          BY <4>1, <4>2
        <4> QED BY <4>3 DEF Low
      <3>2. pow2[bits] \in Nat
        BY <1>7, PowerType
      <3> DEFINE s == Low(sval, payload) * pow2[bits]
                 x == uval + s
      <3>3. s \in Nat
        BY <3>1, <3>2
      <3> HIDE DEF s
      <3>4. x \in Nat
        BY <1>7, <3>3
      <3> HIDE DEF x
      <3>5. x % pow2[Width] \in 0..(pow2[Width] - 1)
        BY <1>7, <3>4, DivMod
      <3>6. uval' = x % pow2[Width]
        BY <1>6, <2>2 DEF Low, x, s
      <3> QED BY <1>7, <3>5, <3>6
    <2> QED BY <2>1, <2>2
  <1>9. bits' \in 0..(Width + 6)
    BY <1>6, <1>7
  <1>10. neg' \in BOOLEAN
    <2>1. neg' = IF bits = 0 THEN Wanted = "signed" /\ HighBit(sval, 6) = 1 ELSE neg
      BY <1>4, ReadByteFacts
    <2> QED BY <1>7, <2>1
  <1>11. phase' \in {"read", "readInteger"}
    BY ReadByteFacts
  <1>12. Typed'
    BY <1>1, <1>2, <1>5, <1>7, <1>8, <1>9, <1>10, <1>11 DEF Typed
  <1>13. Reading'
    BY <1>11 DEF Reading
  <1>14. CASE phase' = "readInteger" /\ got' = got
    <2>1. /\ FieldsStored' /\ HeaderStored' /\ WriterPlace' /\ EndOfFields' = EndOfFields
          /\ Object' = Object /\ StreamTyped' /\ WithinLimit'
      BY <1>1, <1>2, <1>5, <1>13, <1>14, ReaderKeeps
    <2>2. ValuesRead'
      BY <1>2, <1>14, <2>1 DEF IInv, ValuesRead
    <2>3. ReaderPlace'
      <3>1. ~AllRead' /\ Wanted' \in Integers2
        BY <1>1, <1>3, <1>14 DEF AllRead, Wanted
      <3>2. ~(Len(got') + 1 <= Len(Object')) /\ Len(got') <= Len(wanted')
            /\ wanted' \in Readable(Object') /\ buf' = EndOfFields'
        BY <1>1, <1>2, <1>4, <1>5, <1>14, <2>1
      <3> QED BY <1>13, <1>14, <3>1, <3>2 DEF ReaderPlace
    <2> QED BY <1>12, <2>1, <2>2, <2>3 DEF IInv
  <1>15. CASE phase' = "read" /\ got' = Append(got, [value |-> Result(uval', neg'), eof |-> eof'])
    <2>1. PICK v \in Int : v = Result(uval', neg')
      <3>1. PICK u \in Nat : u = uval'
        BY <1>8
      <3>2. Result(u, neg') \in Int
        BY DEF Result, Not
      <3> QED BY <3>1, <3>2
    <2> DEFINE r == [value |-> v, eof |-> TRUE]
    <2>2. r \in Readings /\ r.eof = TRUE
      BY DEF Readings
    <2>3. got' = Append(got, r)
      BY <1>5, <1>15, <2>1
    <2> HIDE DEF r
    <2>4. /\ got' \in Seq(Readings) /\ Len(got') = k /\ got'[k] = r
          /\ \A i \in 1..Len(got) : got'[i] = got[i]
      BY <1>2, <2>2, <2>3
    <2>5. /\ FieldsStored' /\ HeaderStored' /\ WriterPlace' /\ EndOfFields' = EndOfFields
          /\ Object' = Object /\ StreamTyped' /\ WithinLimit'
      BY <1>1, <1>2, <1>5, <1>13, <1>15, <2>4, ReaderKeeps
    <2>6. ReaderPlace'
      <3>1. Len(got') <= Len(wanted') /\ ~(Len(got') + 1 <= Len(Object'))
        BY <1>1, <1>2, <1>3, <2>4, <2>5
      <3>2. wanted' \in Readable(Object') /\ phase' = "read" /\ buf' = EndOfFields'
        BY <1>1, <1>2, <1>4, <1>5, <1>15, <2>5
      <3> QED BY <3>1, <3>2 DEF ReaderPlace, Reading
    <2>7. ValuesRead'
      <3>1. ASSUME NEW i \in 1..k
            PROVE  /\ got'[i].eof <=> i > Len(Object)
                   /\ i <= Len(Object) => got'[i].value = Object[i].value
        <4>1. CASE i = k
          BY <1>2, <2>2, <2>4, <4>1
        <4>2. CASE i # k
          <5>1. i \in 1..Len(got) /\ i \in DOMAIN got
            BY <1>2, <4>2
          <5> QED BY <2>4, <5>1 DEF IInv, ValuesRead
        <4> QED BY <4>1, <4>2
      <3>2. DOMAIN got' = 1..k /\ Len(got') >= Len(Object)
        BY <1>2, <2>4
      <3> QED BY <2>5, <3>1, <3>2 DEF ValuesRead
    <2> QED BY <1>12, <2>5, <2>6, <2>7 DEF IInv
  <1> QED BY <1>4, <1>14, <1>15, ReadByteFacts

LEMMA ReadByteKeeps == ASSUME IInv, ReadByte PROVE IInv'
  <1>1. Len(got) \in Nat /\ Len(Object) \in Nat
    <2>1. Reading
      BY ReadByteFacts DEF Reading
    <2> QED BY <2>1, ReaderFacts
  <1>2. Len(got) + 1 <= Len(Object) \/ Len(got) + 1 > Len(Object)
    BY <1>1
  <1> QED BY <1>2, ReadByteOfFieldKeeps, ReadByteAtEndKeeps

----------------------------------------------------------------------------
(* The theorems. *)

\* The invariant is inductive: each action keeps it.
THEOREM Inductive == Spec => []IInv
  <1>1. Init => IInv
    BY InitIInv
  <1>2. IInv /\ [Next]_vars => IInv'
    <2> SUFFICES ASSUME IInv, [Next]_vars PROVE IInv'
      OBVIOUS
    <2>1. CASE OpenToWrite \/ WriteField \/ BeginInteger \/ WriteByte \/ Finalize
      BY <2>1, OpenToWriteKeeps, WriteFieldKeeps, BeginIntegerKeeps, WriteByteKeeps, FinalizeKeeps
    <2>2. CASE OpenToRead \/ ReadField \/ ReadInteger \/ ReadByte \/ Close
      BY <2>2, OpenToReadKeeps, ReadFieldKeeps, ReadIntegerKeeps, ReadByteKeeps, CloseKeeps
    <2>3. CASE UNCHANGED vars
      <3>1. /\ Typed' = Typed /\ StreamTyped' = StreamTyped /\ HeaderStored' = HeaderStored
            /\ ValuesRead' = ValuesRead /\ WithinLimit' = WithinLimit
        BY <2>3 DEF vars, local, Typed, StreamTyped, HeaderStored, ValuesRead, WithinLimit, Limit,
                    Writing, Reading, Written, EndOfFields, Start, Header, Object
      <3>2. FieldsStored' = FieldsStored
        BY <2>3 DEF vars, FieldsStored, FieldStored, BytesStored, EndOfFields, Start, Header, Object
      <3>3. WriterPlace' = WriterPlace
        BY <2>3 DEF vars, local, WriterPlace, BytesStored, EndOfFields, Start, Header, Field,
                    Writing, Written
      <3>4. ReaderPlace' = ReaderPlace
        BY <2>3 DEF vars, local, ReaderPlace, EndOfFields, Start, Header, Object, Reading, AllRead,
                    Wanted
      <3> QED BY <3>1, <3>2, <3>3, <3>4 DEF IInv
    <2> QED BY <2>1, <2>2, <2>3 DEF Next
  <1> QED BY <1>1, <1>2, PTL DEF Spec

\* The variables of both loops keep to their types, and the shifts of readFromHIS
\* are shorter than the type as long as there is an integer to read: the bytes
\* that go on are too few to fill it.
THEOREM TypeCorrect == Spec => []TypeOK
  <1>1. IInv => TypeOK
    <2> SUFFICES ASSUME IInv, phase = "readInteger", Len(got) < Len(Object) PROVE bits < Width
      BY DEF IInv, TypeOK
    <2>1. PICK k : k = Len(got) + 1
      OBVIOUS
    <2>2. PICK item : item = Object[k]
      OBVIOUS
    <2>3. PICK n : n = buf - Start(k)
      OBVIOUS
    <2>4. Reading
      BY DEF Reading
    <2>5. /\ buf \in Nat /\ Len(got) \in Nat /\ Len(Object) \in Nat
          /\ Len(wanted) \in Nat /\ Len(got) <= Len(wanted)
      BY <2>4, ReaderFacts
    <2>6. k <= Len(Object)
      BY <2>1, <2>5
    <2>7. Wanted \in Integers2 /\ k <= Len(wanted)
      BY <2>1, <2>5 DEF IInv, ReaderPlace, AllRead
    <2>8. /\ item \in Items /\ item.type \in Integers2 /\ FieldStored(k)
          /\ Start(k) \in Nat /\ ends[k] \in Nat
      BY <2>1, <2>2, <2>4, <2>6, <2>7, ReaderAtField
    <2>9. n >= 0 /\ buf < ends[k] /\ bits = Weight(n, item)
      BY <2>1, <2>2, <2>3, <2>6 DEF IInv, ReaderPlace
    <2>10. n \in 0..(ends[k] - Start(k) - 1) /\ n \in Nat
      BY <2>3, <2>5, <2>8, <2>9
    <2>11. GoesOn(n, item)
      BY <2>2, <2>8, <2>10 DEF FieldStored, BytesStored
    <2> QED BY <2>8, <2>9, <2>10, <2>11, WeightInWidth
  <1> QED BY <1>1, Inductive, PTL

\* The place and what is left always agree: on the end of the buffer, and when
\* an object is read on the end of its last field, whatever follows it.
THEOREM AlwaysStaysInObject == Spec => []StaysInObject
  <1>1. IInv => StaysInObject
    <2> SUFFICES ASSUME IInv PROVE StaysInObject
      OBVIOUS
    <2>1. buf + bufsize = Limit
      BY DEF IInv, WithinLimit
    <2>2. ASSUME Reading
          PROVE  Limit = IF Object = << >> THEN Header + Size("size") ELSE ends[Len(Object)]
      <3>1. /\ StreamInv /\ Typed /\ Len(ends) = Len(Object)
            /\ Object \in Seq(Items) /\ EndOfFields = input.start + objectsize
        BY <2>2, ReaderFacts
      <3>2. EndOfFields = IF ends = << >> THEN Header + 2 ELSE ends[Len(ends)]
        BY <3>1, FieldPlaces
      <3>3. ends = << >> <=> Object = << >>
        BY <3>1 DEF StreamInv, StreamTyped
      <3> QED BY <2>2, <3>1, <3>2, <3>3 DEF Limit, Size
    <2> QED BY <2>1, <2>2 DEF StaysInObject
  <1> QED BY <1>1, Inductive, PTL

\* Fields come back as they were written, byte for byte: whatever the width of
\* the integers, their values, and where the object lies.
THEOREM AlwaysReadsBack == Spec => []ReadsBack
  <1>1. IInv => ReadsBack
    <2> SUFFICES ASSUME IInv PROVE ReadsBack
      OBVIOUS
    <2>1. Reading => Written
      BY ReaderFacts
    <2>2. ASSUME NEW k \in DOMAIN got, k <= Len(Object)
          PROVE  /\ ~got[k].eof /\ got[k].value = Object[k].value
                 /\ k = Len(got) /\ phase = "read" => buf = ends[k]
      <3>1. Reading
        BY <2>2 DEF IInv, ReaderPlace
      <3>2. /\ StreamInv /\ Typed /\ Len(ends) = Len(Object) /\ Len(Object) \in Nat
            /\ got \in Seq(Readings) /\ Len(got) \in Nat
        BY <3>1, ReaderFacts
      <3>3. k \in 1..Len(got) /\ k \in 1..Len(ends)
        BY <2>2, <3>2
      <3>4. ~got[k].eof /\ got[k].value = Object[k].value
        <4>1. ~(k > Len(Object))
          BY <2>2, <3>2, <3>3
        <4> QED BY <2>2, <4>1 DEF IInv, ValuesRead
      <3>5. ASSUME k = Len(got), phase = "read" PROVE buf = ends[k]
        <4>1. buf = IF k + 1 <= Len(Object) THEN Start(k + 1) ELSE EndOfFields
          BY <3>5 DEF IInv, ReaderPlace
        <4>2. Start(k + 1) = ends[k]
          BY <3>2, <3>3, FieldPlaces
        <4>3. ~(k + 1 <= Len(Object)) => Len(ends) = k
          BY <3>2, <3>3
        <4> QED BY <4>1, <4>2, <4>3 DEF EndOfFields
      <3> QED BY <3>4, <3>5
    <2> QED BY <2>1, <2>2 DEF ReadsBack
  <1> QED BY <1>1, Inductive, PTL

\* A reader is told of every field that is not there, by eof() and only by it.
THEOREM EofAlwaysMeansMissing == Spec => []EofMeansMissing
  <1>1. IInv => EofMeansMissing
    BY DEF IInv, WithinLimit, ValuesRead, EofMeansMissing
  <1> QED BY <1>1, Inductive, PTL

\* An integer never takes a byte more than it needs, and HistoryOutOfBound is
\* thrown only when these bytes do not fit.
THEOREM AlwaysCompact == Spec => []Compact
  <1>1. IInv => Compact
    <2> SUFFICES ASSUME IInv, NEW k \in DOMAIN Object, Object[k].type \in Integers2
                 PROVE  /\ k <= Len(ends) => /\ Holds(ends[k] - Start(k), Object[k])
                                             /\ ~Holds(ends[k] - Start(k) - 1, Object[k])
                        /\ phase = "thrown" /\ k = Len(ends) + 1 /\ mem[Header][1] = "size" =>
                             ~Holds(input.start + input.lim - Start(k), Object[k])
      BY DEF Compact
    <2>1. /\ StreamInv /\ Typed /\ input \in Inputs /\ Object \in Seq(Items)
          /\ k \in 1..Len(Object) /\ Len(Object) \in Nat
      BY InputTypes DEF IInv, StreamInv, StreamTyped, Object
    <2>2. PICK item \in Items : item = Object[k] /\ item.type \in Integers2
      BY <2>1
    <2>3. ASSUME k <= Len(ends)
          PROVE  Holds(ends[k] - Start(k), item) /\ ~Holds(ends[k] - Start(k) - 1, item)
      <3>1. k \in 1..Len(ends)
        BY <2>1, <2>3, FieldPlaces
      <3>2. Start(k) \in Nat /\ ends[k] \in Nat /\ Start(k) < ends[k] /\ FieldStored(k)
        BY <2>1, <3>1, FieldPlaces DEF IInv, FieldsStored
      <3>3. BytesStored(Start(k), ends[k] - Start(k), item) /\ Left(ends[k] - Start(k), item) = 0
        BY <2>2, <3>2 DEF FieldStored
      <3>4. PICK n \in Nat : n = ends[k] - Start(k) /\ n > 0
        BY <3>2
      <3>5. BytesStored(Start(k), n, item) /\ Left(n, item) = 0
        BY <3>3, <3>4
      <3>6. n - 1 \in Nat /\ n - 1 \in 0..(n - 1)
        BY <3>4
      <3>7. GoesOn(n - 1, item)
        BY <3>5, <3>6 DEF BytesStored
      <3>8. Holds(n, item)
        BY <2>2, <3>4, <3>5, HoldsAll
      <3>9. ~Holds(n - 1, item)
        BY <2>2, <3>6, <3>7, HoldsAll DEF GoesOn
      <3> QED BY <3>4, <3>8, <3>9
    <2>4. ASSUME phase = "thrown", k = Len(ends) + 1, mem[Header][1] = "size"
          PROVE  ~Holds(input.start + input.lim - Start(k), item)
      <3>1. PICK n : n = buf - EndOfFields
        OBVIOUS
      <3>2. Field = item
        BY <2>2, <2>4 DEF Field, Object
      <3>3. n >= 0 /\ bufsize = 0 /\ GoesOn(n, item)
        BY <2>2, <2>4, <3>1, <3>2 DEF IInv, WriterPlace
      <3>4. Start(k) = EndOfFields /\ EndOfFields \in Nat
        BY <2>1, <2>4, FieldPlaces DEF EndOfFields
      <3>5. buf = input.start + input.lim /\ buf \in Nat
        <4>1. buf + bufsize = input.start + input.lim /\ buf \in Nat
          BY <2>1, <2>4, SpaceLeft DEF Reading, WriterSpace
        <4> QED BY <3>3, <4>1
      <3>6. n \in Nat /\ input.start + input.lim - Start(k) = n
        <4>1. n \in Nat
          BY <3>1, <3>3, <3>4, <3>5
        <4>2. input.start + input.lim - Start(k) = buf - EndOfFields
          <5>1. input.start \in Nat /\ input.lim \in Nat
            BY <2>1, InputTypes
          <5> QED BY <3>4, <3>5, <5>1
        <4> QED BY <3>1, <4>1, <4>2
      <3>7. ~Holds(n, item)
        BY <2>2, <3>3, <3>6, HoldsAll DEF GoesOn
      <3> QED BY <3>6, <3>7
    <2> QED BY <2>2, <2>3, <2>4
  <1> QED BY <1>1, Inductive, PTL
=============================================================================
