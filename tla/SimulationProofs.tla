--------------------------- MODULE SimulationProofs ---------------------------
(***************************************************************************)
(* Proofs of the properties of SimulationProps, for any simulations,       *)
(* queues, events and requests.                                            *)
(***************************************************************************)
EXTENDS SimulationProps, SequenceTheorems, WellFoundedInduction, TLAPS

----------------------------------------------------------------------------
(* What the transitions do to points. *)

\* A point, queue by queue.
LEMMA PointValues ==
  ASSUME NEW p \in Points, NEW q \in Queues
  PROVE  /\ p \in [Queues -> Nat] /\ p[q] \in Nat
         /\ q \in Standard => p[q] <= Capacity[q] /\ Capacity[q] \in 0..(INT_MAX - 1)
         /\ q \in Outside => p[q] = 0
  BY QueuesAssumption DEF Points, Queues

\* What makes a function a point.
LEMMA PointByValues ==
  ASSUME NEW p, p \in [Queues -> Nat],
         \A q \in Standard : p[q] <= Capacity[q],
         \A q \in Outside : p[q] = 0
  PROVE  p \in Points
  <1>1. ASSUME NEW q \in Queues PROVE p[q] \in 0..INT_MAX
    <2>1. INT_MAX \in Nat /\ p[q] \in Nat
      BY QueuesAssumption
    <2>2. CASE q \in Standard
      <3>1. Capacity[q] \in 0..(INT_MAX - 1) /\ p[q] <= Capacity[q]
        BY <2>2, QueuesAssumption
      <3> QED BY <2>1, <3>1
    <2>3. CASE q \in Outside
      BY <2>1, <2>3
    <2> QED BY <2>2, <2>3 DEF Queues
  <1> QED BY <1>1 DEF Points

\* Queue by queue, what a transition does to a point.
LEMMA AddClientValues ==
  ASSUME NEW p \in Points, NEW to \in Queues
  PROVE  /\ AddClient(p, to) \in Points
         /\ \A q \in Queues : AddClient(p, to)[q] =
              IF q = to /\ q \in Standard /\ p[q] < Capacity[q] THEN p[q] + 1 ELSE p[q]
  <1> DEFINE r == AddClient(p, to)
  <1>1. CASE to \in Outside
    BY <1>1, QueuesAssumption DEF AddClient
  <1>2. CASE to \notin Outside
    <2>1. /\ to \in Standard /\ p \in [Queues -> Nat] /\ p[to] \in Nat
          /\ Capacity[to] \in Nat /\ p[to] <= Capacity[to]
      BY <1>2, PointValues DEF Queues
    <2>2. r = [p EXCEPT ![to] = IF p[to] + 1 > Capacity[to] THEN Capacity[to] ELSE p[to] + 1]
      BY <1>2 DEF AddClient
    <2>3. \A q \in Queues : r[q] =
            IF q = to /\ q \in Standard /\ p[q] < Capacity[q] THEN p[q] + 1 ELSE p[q]
      BY <2>1, <2>2
    <2>4. r \in [Queues -> Nat]
      BY <2>1, <2>2
    <2>5. ASSUME NEW q \in Standard PROVE r[q] <= Capacity[q]
      <3>1. p[q] \in Nat /\ Capacity[q] \in Nat /\ p[q] <= Capacity[q]
        BY PointValues DEF Queues
      <3> QED BY <2>3, <3>1 DEF Queues
    <2>6. ASSUME NEW q \in Outside PROVE r[q] = 0
      BY <2>3, PointValues, QueuesAssumption DEF Queues
    <2> HIDE DEF r
    <2>7. r \in Points
      BY <2>4, <2>5, <2>6, PointByValues
    <2> QED BY <2>3, <2>7 DEF r
  <1> QED BY <1>1, <1>2

LEMMA RemoveClientValues ==
  ASSUME NEW p \in Points, NEW out \in Queues
  PROVE  /\ RemoveClient(p, out) \in Points
         /\ \A q \in Queues : RemoveClient(p, out)[q] =
              IF q = out /\ q \in Standard /\ p[q] > 0 THEN p[q] - 1 ELSE p[q]
  <1> DEFINE r == RemoveClient(p, out)
  <1>1. CASE out \in Outside
    BY <1>1, QueuesAssumption DEF RemoveClient
  <1>2. CASE out \notin Outside
    <2>1. out \in Standard /\ p \in [Queues -> Nat] /\ p[out] \in Nat
      BY <1>2, PointValues DEF Queues
    <2>2. r = [p EXCEPT ![out] = IF p[out] < 1 THEN 0 ELSE p[out] - 1]
      BY <1>2 DEF RemoveClient
    <2>3. \A q \in Queues : r[q] =
            IF q = out /\ q \in Standard /\ p[q] > 0 THEN p[q] - 1 ELSE p[q]
      BY <2>1, <2>2
    <2>4. r \in [Queues -> Nat]
      BY <2>1, <2>2
    <2>5. ASSUME NEW q \in Standard PROVE r[q] <= Capacity[q]
      <3>1. p[q] \in Nat /\ Capacity[q] \in Nat /\ p[q] <= Capacity[q]
        BY PointValues DEF Queues
      <3> QED BY <2>3, <3>1 DEF Queues
    <2>6. ASSUME NEW q \in Outside PROVE r[q] = 0
      BY <2>3, PointValues, QueuesAssumption DEF Queues
    <2> HIDE DEF r
    <2>7. r \in Points
      BY <2>4, <2>5, <2>6, PointByValues
    <2> QED BY <2>3, <2>7 DEF r
  <1> QED BY <1>1, <1>2

\* Every transition maps points to points.
LEMMA ApplyIsPoint == ASSUME NEW p \in Points, NEW ev \in Events PROVE Apply(p, ev) \in Points
  <1>1. CASE ev \in Arrivals
    <2>1. ev.transition = "ArrivalReject" /\ ev.to \in Queues
      BY <1>1, EventsAssumption
    <2> QED BY <2>1, AddClientValues DEF Apply, ArrivalReject
  <1>2. CASE ev \in Departures
    <2>1. ev.transition = "Departure" /\ ev.from \in Queues
      BY <1>2, EventsAssumption
    <2> QED BY <2>1, RemoveClientValues DEF Apply, Departure
  <1>3. CASE ev \in Jsqs
    <2>1. /\ ev.transition = "JSQ2" /\ ev.from \in Queues
          /\ ev.to0 \in Queues /\ ev.to1 \in Queues
      BY <1>3, EventsAssumption DEF Queues
    <2> DEFINE to == IF CompareTo(p, ev.to0, ev.to1) > 0 THEN ev.to0 ELSE ev.to1
    <2>2. to \in Queues
      BY <2>1
    <2>3. Apply(p, ev) = p \/ Apply(p, ev) = RemoveClient(AddClient(p, to), ev.from)
      BY <2>1 DEF Apply, JSQ2
    <2> HIDE DEF to
    <2> QED BY <2>1, <2>2, <2>3, AddClientValues, RemoveClientValues
  <1> QED BY <1>1, <1>2, <1>3 DEF Events

\* Arrivals with rejection and departures preserve the order of points: it is
\* what transition.cpp:30-31 takes for granted of every transition.
LEMMA ArrivalRejectMonotone ==
  ASSUME NEW p \in Points, NEW r \in Points, Leq(p, r), NEW to \in Queues
  PROVE  Leq(ArrivalReject(p, to), ArrivalReject(r, to))
  <1> SUFFICES ASSUME NEW q \in Queues
               PROVE  ArrivalReject(p, to)[q] <= ArrivalReject(r, to)[q]
    BY DEF Leq
  <1>1. /\ p[q] \in Nat /\ r[q] \in Nat /\ p[q] <= r[q]
        /\ q \in Standard => Capacity[q] \in Nat /\ p[q] <= Capacity[q] /\ r[q] <= Capacity[q]
    BY PointValues DEF Leq
  <1>2. ASSUME NEW x \in Points
        PROVE  ArrivalReject(x, to)[q] =
                 IF q = to /\ q \in Standard /\ x[q] < Capacity[q] THEN x[q] + 1 ELSE x[q]
    <2>1. CASE IsFull(x, to)
      BY <2>1, PointValues DEF ArrivalReject, IsFull
    <2>2. CASE ~IsFull(x, to)
      BY <2>2, AddClientValues DEF ArrivalReject
    <2> QED BY <2>1, <2>2
  <1> QED BY <1>1, <1>2

LEMMA DepartureMonotone ==
  ASSUME NEW p \in Points, NEW r \in Points, Leq(p, r), NEW out \in Queues
  PROVE  Leq(Departure(p, out), Departure(r, out))
  <1> SUFFICES ASSUME NEW q \in Queues PROVE Departure(p, out)[q] <= Departure(r, out)[q]
    BY DEF Leq
  <1>1. p[q] \in Nat /\ r[q] \in Nat /\ p[q] <= r[q]
    BY PointValues DEF Leq
  <1>2. ASSUME NEW x \in Points
        PROVE  Departure(x, out)[q] =
                 IF q = out /\ q \in Standard /\ x[q] > 0 THEN x[q] - 1 ELSE x[q]
    <2>1. CASE IsEmpty(x, out)
      BY <2>1 DEF Departure, IsEmpty
    <2>2. CASE ~IsEmpty(x, out)
      BY <2>2, RemoveClientValues DEF Departure
    <2> QED BY <2>1, <2>2
  <1> QED BY <1>1, <1>2

LEMMA ApplyMonotone ==
  ASSUME Jsqs = {}, NEW p \in Points, NEW r \in Points, Leq(p, r), NEW ev \in Events
  PROVE  Leq(Apply(p, ev), Apply(r, ev))
  <1>1. CASE ev \in Arrivals
    <2>1. ev.transition = "ArrivalReject" /\ ev.to \in Queues
      BY <1>1, EventsAssumption
    <2>2. Apply(p, ev) = ArrivalReject(p, ev.to) /\ Apply(r, ev) = ArrivalReject(r, ev.to)
      BY <2>1 DEF Apply
    <2> QED BY <2>1, <2>2, ArrivalRejectMonotone
  <1>2. CASE ev \in Departures
    <2>1. ev.transition = "Departure" /\ ev.from \in Queues
      BY <1>2, EventsAssumption
    <2>2. Apply(p, ev) = Departure(p, ev.from) /\ Apply(r, ev) = Departure(r, ev.from)
      BY <2>1 DEF Apply
    <2> QED BY <2>1, <2>2, DepartureMonotone
  <1> QED BY <1>1, <1>2 DEF Events

----------------------------------------------------------------------------
(* Induction, with the set of the numbers, or of the sequences, for which a *)
(* fact holds in the place of the fact.                                     *)

LEMMA LessThanNat == ASSUME NEW x \in Nat, NEW y \in Nat, y < x PROVE <<y, x>> \in OpToRel(<, Nat)
  BY DEF OpToRel

\* A set of numbers that contains 0 and the successor of each of its members.
LEMMA SetInduction ==
  ASSUME NEW T, T \subseteq Nat, 0 \in T, \A n \in Nat : n \in T => n + 1 \in T
  PROVE  T = Nat
  <1> DEFINE U == Nat \ T
             R == OpToRel(<, Nat)
  <1>1. SUFFICES ASSUME U # {} PROVE FALSE
    OBVIOUS
  <1>2. U \subseteq Nat
    OBVIOUS
  <1>3. IsWellFoundedOn(R, Nat)
    BY NatLessThanWellFounded
  <1> HIDE DEF R, U
  <1>4. PICK x \in U : \A y \in U : ~(<<y, x>> \in R)
    BY <1>1, <1>2, <1>3, WFMin
  <1>5. x \in Nat /\ x # 0 /\ x - 1 \in Nat /\ x - 1 < x
    BY <1>4 DEF U
  <1>6. x - 1 \notin U
    BY <1>4, <1>5, LessThanNat DEF R
  <1> QED BY <1>4, <1>5, <1>6 DEF U

\* A set of sequences that contains the empty one and every extension of each
\* of its members.
LEMMA SeqInduction ==
  ASSUME NEW S, NEW T, T \subseteq Seq(S), << >> \in T,
         \A q \in Seq(S) : \A x \in S : q \in T => Append(q, x) \in T
  PROVE  T = Seq(S)
  <1> DEFINE N == {n \in Nat : \A q \in Seq(S) : Len(q) = n => q \in T}
  <1>1. N \subseteq Nat
    OBVIOUS
  <1>2. 0 \in N
    OBVIOUS
  <1>3. ASSUME NEW n \in Nat, n \in N PROVE n + 1 \in N
    <2> SUFFICES ASSUME NEW q \in Seq(S), Len(q) = n + 1 PROVE q \in T
      OBVIOUS
    <2>1. PICK p \in Seq(S), x \in S : q = Append(p, x)
      <3>1. q # << >>
        OBVIOUS
      <3> QED BY <3>1, SequenceEmptyOrAppend
    <2>2. Len(p) = n
      BY <2>1
    <2> QED BY <1>3, <2>1, <2>2
  <1> HIDE DEF N
  <1>4. N = Nat
    BY <1>1, <1>2, <1>3, SetInduction
  <1>5. ASSUME NEW q \in Seq(S) PROVE q \in T
    <2>1. Len(q) \in N
      BY <1>4
    <2> QED BY <2>1 DEF N
  <1> QED BY <1>5

----------------------------------------------------------------------------
(* FoldLeft is defined by a recursive function on the sets of positions of  *)
(* its sequence: that there is such a function is proved first.             *)

IsFold(f, b, q, D) ==
  f = [s \in SUBSET D |-> IF s = {} THEN b ELSE ApplySet(f[s \ {Max(s)}], q[Max(s)])]
Fold(b, q) == CHOOSE f : IsFold(f, b, q, DOMAIN q)

LEMMA FoldLeftIsFold ==
  ASSUME NEW b, NEW q
  PROVE  FoldLeft(ApplySet, b, q) = Fold(b, q)[DOMAIN q]
  BY DEF FoldLeft, MapThenFoldSet, Fold, IsFold

LEMMA MaxOfInterval ==
  ASSUME NEW n \in Nat, NEW s, s \subseteq 1..(n + 1), n + 1 \in s
  PROVE  Max(s) = n + 1
  <1> DEFINE x == CHOOSE x \in s : \A y \in s : x >= y
  <1>1. \A y \in s : y \in Nat /\ n + 1 >= y
    OBVIOUS
  <1>2. x \in s /\ \A y \in s : x >= y
    BY <1>1
  <1>3. Max(s) = x
    BY DEF Max
  <1> HIDE DEF x
  <1>4. x \in Nat /\ x >= n + 1 /\ n + 1 >= x
    BY <1>1, <1>2
  <1> QED BY <1>3, <1>4

LEMMA MaxIsMember ==
  ASSUME NEW n \in Nat, NEW s, s \subseteq 1..n, s # {}
  PROVE  Max(s) \in s
  <1> DEFINE T == {m \in Nat : \A r : r \subseteq 1..m /\ r # {} => Max(r) \in r}
  <1>1. 0 \in T
    OBVIOUS
  <1>2. ASSUME NEW m \in Nat, m \in T PROVE m + 1 \in T
    <2> SUFFICES ASSUME NEW r, r \subseteq 1..(m + 1), r # {} PROVE Max(r) \in r
      OBVIOUS
    <2>1. CASE m + 1 \in r
      BY <2>1, MaxOfInterval
    <2>2. CASE m + 1 \notin r
      <3>1. r \subseteq 1..m
        BY <2>2
      <3> QED BY <1>2, <3>1
    <2> QED BY <2>1, <2>2
  <1> HIDE DEF T
  <1>3. n \in T
    <2>1. T \subseteq Nat
      BY DEF T
    <2> QED BY <1>1, <1>2, <2>1, SetInduction
  <1> QED BY <1>3 DEF T

LEMMA FoldExists == ASSUME NEW b, NEW q, NEW m \in Nat PROVE \E f : IsFold(f, b, q, 1..m)
  <1> DEFINE T == {n \in Nat : \E f : IsFold(f, b, q, 1..n)}
  <1>1. 0 \in T
    <2> DEFINE f == [s \in SUBSET (1..0) |-> b]
    <2>1. \A s \in SUBSET (1..0) : s = {}
      OBVIOUS
    <2>2. IsFold(f, b, q, 1..0)
      BY <2>1 DEF IsFold
    <2> QED BY <2>2
  <1>2. ASSUME NEW n \in Nat, n \in T PROVE n + 1 \in T
    <2>1. PICK f : IsFold(f, b, q, 1..n)
      BY <1>2
    <2> DEFINE g == [s \in SUBSET (1..(n + 1)) |->
                       IF n + 1 \in s THEN ApplySet(f[s \ {n + 1}], q[n + 1]) ELSE f[s]]
    <2>2. ASSUME NEW s \in SUBSET (1..(n + 1))
          PROVE  g[s] = IF s = {} THEN b ELSE ApplySet(g[s \ {Max(s)}], q[Max(s)])
      <3>1. CASE n + 1 \in s
        <4>1. Max(s) = n + 1 /\ s # {}
          BY <3>1, MaxOfInterval
        <4>2. s \ {n + 1} \in SUBSET (1..n) /\ s \ {n + 1} \in SUBSET (1..(n + 1))
          OBVIOUS
        <4>3. g[s \ {n + 1}] = f[s \ {n + 1}]
          BY <4>2
        <4> QED BY <3>1, <4>1, <4>3
      <3>2. CASE n + 1 \notin s
        <4>1. s \in SUBSET (1..n) /\ g[s] = f[s]
          BY <3>2
        <4>2. CASE s = {}
          BY <2>1, <4>1, <4>2 DEF IsFold
        <4>3. CASE s # {}
          <5>1. s \ {Max(s)} \in SUBSET (1..n) /\ s \ {Max(s)} \in SUBSET (1..(n + 1))
            BY <4>1
          <5>2. g[s \ {Max(s)}] = f[s \ {Max(s)}]
            BY <3>2, <5>1
          <5>3. f[s] = ApplySet(f[s \ {Max(s)}], q[Max(s)])
            BY <2>1, <4>1, <4>3 DEF IsFold
          <5> QED BY <4>1, <4>3, <5>2, <5>3
        <4> QED BY <4>2, <4>3
      <3> QED BY <3>1, <3>2
    <2>3. IsFold(g, b, q, 1..(n + 1))
      BY <2>2 DEF IsFold
    <2> QED BY <2>3
  <1> HIDE DEF T
  <1>3. m \in T
    <2>1. T \subseteq Nat
      BY DEF T
    <2> QED BY <1>1, <1>2, <2>1, SetInduction
  <1> QED BY <1>3 DEF T

\* The value of the recursive function on the first positions.
LEMMA FoldValues ==
  ASSUME NEW S, NEW b, NEW q \in Seq(S)
  PROVE  /\ Fold(b, q)[1..0] = b
         /\ \A n \in Nat : n + 1 <= Len(q) =>
              Fold(b, q)[1..(n + 1)] = ApplySet(Fold(b, q)[1..n], q[n + 1])
  <1>1. DOMAIN q = 1..Len(q) /\ Len(q) \in Nat
    OBVIOUS
  <1>2. IsFold(Fold(b, q), b, q, 1..Len(q))
    BY <1>1, FoldExists DEF Fold
  <1> DEFINE f == Fold(b, q)
  <1> HIDE DEF f
  <1>3. \A s \in SUBSET (1..Len(q)) :
          f[s] = IF s = {} THEN b ELSE ApplySet(f[s \ {Max(s)}], q[Max(s)])
    BY <1>2 DEF IsFold, f
  <1>4. f[1..0] = b
    <2>1. 1..0 = {} /\ 1..0 \in SUBSET (1..Len(q))
      OBVIOUS
    <2> QED BY <1>3, <2>1
  <1>5. ASSUME NEW n \in Nat, n + 1 <= Len(q)
        PROVE  f[1..(n + 1)] = ApplySet(f[1..n], q[n + 1])
    <2>1. 1..(n + 1) \in SUBSET (1..Len(q)) /\ n + 1 \in 1..(n + 1)
      BY <1>1, <1>5
    <2>2. Max(1..(n + 1)) = n + 1
      BY <2>1, MaxOfInterval
    <2>3. (1..(n + 1)) \ {n + 1} = 1..n /\ 1..(n + 1) # {}
      BY <2>1
    <2> QED BY <1>3, <2>1, <2>2, <2>3
  <1> QED BY <1>4, <1>5 DEF f

\* What the properties use of FoldLeft: its value for the empty sequence, and
\* for a sequence with one more element.
LEMMA FoldEmpty == ASSUME NEW b PROVE FoldLeft(ApplySet, b, << >>) = b
  <1>1. << >> \in Seq({}) /\ DOMAIN << >> = 1..0
    OBVIOUS
  <1>2. Fold(b, << >>)[1..0] = b
    BY <1>1, FoldValues
  <1>3. FoldLeft(ApplySet, b, << >>) = Fold(b, << >>)[DOMAIN << >>]
    BY FoldLeftIsFold
  <1> QED BY <1>1, <1>2, <1>3

LEMMA FoldAppend ==
  ASSUME NEW b, NEW q \in Seq(Events), NEW x \in Events
  PROVE  FoldLeft(ApplySet, b, Append(q, x)) = ApplySet(FoldLeft(ApplySet, b, q), x)
  <1> DEFINE r == Append(q, x)
             f == Fold(b, q)
             g == Fold(b, r)
             T == {n \in Nat : n <= Len(q) => g[1..n] = f[1..n]}
  <1>1. /\ r \in Seq(Events) /\ Len(q) \in Nat /\ Len(r) = Len(q) + 1 /\ r[Len(q) + 1] = x
        /\ \A k \in 1..Len(q) : r[k] = q[k]
        /\ DOMAIN q = 1..Len(q) /\ DOMAIN r = 1..(Len(q) + 1)
    OBVIOUS
  <1> HIDE DEF r
  <1>2. /\ f[1..0] = b
        /\ \A n \in Nat : n + 1 <= Len(q) => f[1..(n + 1)] = ApplySet(f[1..n], q[n + 1])
    BY FoldValues
  <1>3. /\ g[1..0] = b
        /\ \A n \in Nat : n + 1 <= Len(r) => g[1..(n + 1)] = ApplySet(g[1..n], r[n + 1])
    <2>1. r \in Seq(Events)
      BY <1>1
    <2> HIDE DEF f
    <2> QED BY <2>1, FoldValues
  <1> HIDE DEF f, g
  <1>4. 0 \in T
    BY <1>2, <1>3
  <1>5. ASSUME NEW n \in Nat, n \in T PROVE n + 1 \in T
    <2> SUFFICES ASSUME n + 1 <= Len(q) PROVE g[1..(n + 1)] = f[1..(n + 1)]
      OBVIOUS
    <2>1. n <= Len(q) /\ n + 1 <= Len(r) /\ n + 1 \in 1..Len(q)
      BY <1>1
    <2> QED BY <1>1, <1>2, <1>3, <1>5, <2>1
  <1>6. T = Nat
    <2>1. T \subseteq Nat
      OBVIOUS
    <2> HIDE DEF T
    <2> QED BY <1>4, <1>5, <2>1, SetInduction
  <1>7. g[1..Len(q)] = f[1..Len(q)]
    BY <1>1, <1>6
  <1>8. g[1..(Len(q) + 1)] = ApplySet(f[1..Len(q)], x)
    BY <1>1, <1>3, <1>7
  <1> QED BY <1>1, <1>8, FoldLeftIsFold DEF f, g, r

----------------------------------------------------------------------------
(* Where the events of a sequence lead. *)

Lead(b, q) == FoldLeft(ApplySet, b, q)

LEMMA LeadSteps ==
  ASSUME NEW b
  PROVE  /\ Lead(b, << >>) = b
         /\ \A q \in Seq(Events) : \A x \in Events :
              Lead(b, Append(q, x)) = ApplySet(Lead(b, q), x)
  <1>1. Lead(b, << >>) = b
    BY FoldEmpty DEF Lead
  <1>2. ASSUME NEW q \in Seq(Events), NEW x \in Events
        PROVE  FoldLeft(ApplySet, b, Append(q, x)) = ApplySet(FoldLeft(ApplySet, b, q), x)
    BY FoldAppend
  <1> QED BY <1>1, <1>2, Zenon DEF Lead

LEMMA LeadConcat ==
  ASSUME NEW b, NEW p \in Seq(Events), NEW q \in Seq(Events)
  PROVE  Lead(b, p \o q) = Lead(Lead(b, p), q)
  <1> DEFINE c == Lead(b, p)
             T == {r \in Seq(Events) : Lead(b, p \o r) = Lead(c, r)}
  <1>1. << >> \in T
    <2>1. << >> \in Seq(Events) /\ p \o << >> = p
      BY ConcatEmptySeq, EmptySeq
    <2>2. Lead(c, << >>) = c
      BY LeadSteps
    <2> QED BY <2>1, <2>2
  <1>2. ASSUME NEW r \in Seq(Events), NEW x \in Events, r \in T PROVE Append(r, x) \in T
    <2>1. Append(r, x) \in Seq(Events) /\ p \o r \in Seq(Events) /\ p \o Append(r, x) = Append(p \o r, x)
      OBVIOUS
    <2>2. Lead(b, Append(p \o r, x)) = ApplySet(Lead(b, p \o r), x)
      BY <2>1, LeadSteps
    <2>3. Lead(c, Append(r, x)) = ApplySet(Lead(c, r), x)
      BY LeadSteps
    <2> QED BY <1>2, <2>1, <2>2, <2>3
  <1>3. T \subseteq Seq(Events)
    OBVIOUS
  <1>4. q \in T
    <2> HIDE DEF T
    <2> QED BY <1>1, <1>2, <1>3, SeqInduction
  <1> QED BY <1>4

LEMMA ApplySetIsBox == ASSUME NEW b \in Boxes, NEW ev \in Events PROVE ApplySet(b, ev) \in Boxes
  BY ApplyIsPoint DEF Boxes, ApplySet

LEMMA LeadIsBox ==
  ASSUME NEW b \in Boxes, NEW q \in Seq(Events)
  PROVE  Lead(b, q) \in Boxes
  <1> DEFINE T == {r \in Seq(Events) : Lead(b, r) \in Boxes}
  <1>1. << >> \in T
    BY LeadSteps, EmptySeq
  <1>2. ASSUME NEW r \in Seq(Events), NEW x \in Events, r \in T PROVE Append(r, x) \in T
    <2>1. Lead(b, Append(r, x)) = ApplySet(Lead(b, r), x)
      BY LeadSteps
    <2>2. Append(r, x) \in Seq(Events)
      OBVIOUS
    <2> QED BY <1>2, <2>1, <2>2, ApplySetIsBox
  <1>3. T \subseteq Seq(Events)
    OBVIOUS
  <1>4. q \in T
    <2> HIDE DEF T
    <2> QED BY <1>1, <1>2, <1>3, SeqInduction
  <1> QED BY <1>4

\* One box within another, and a box that is not empty.
Within(c, b) == Leq(b.inf, c.inf) /\ Leq(c.sup, b.sup)
Ordered(b) == Leq(b.inf, b.sup)

LEMMA LeadMonotone ==
  ASSUME Jsqs = {}, NEW b \in Boxes, NEW c \in Boxes, Within(c, b), NEW q \in Seq(Events)
  PROVE  Within(Lead(c, q), Lead(b, q))
  <1> DEFINE T == {r \in Seq(Events) :
                     Within(Lead(c, r), Lead(b, r))}
  <1>1. << >> \in T
    BY LeadSteps, EmptySeq
  <1>2. ASSUME NEW r \in Seq(Events), NEW x \in Events, r \in T PROVE Append(r, x) \in T
    <2> DEFINE d == Lead(c, r)
               e == Lead(b, r)
    <2>1. d \in Boxes /\ e \in Boxes /\ Within(d, e)
      BY <1>2, LeadIsBox
    <2>2. /\ Lead(c, Append(r, x)) = ApplySet(d, x)
          /\ Lead(b, Append(r, x)) = ApplySet(e, x)
      BY LeadSteps
    <2> HIDE DEF d, e
    <2>3. Leq(Apply(e.inf, x), Apply(d.inf, x)) /\ Leq(Apply(d.sup, x), Apply(e.sup, x))
      BY <2>1, ApplyMonotone DEF Boxes, Within
    <2>4. Within(ApplySet(d, x), ApplySet(e, x))
      BY <2>3 DEF Within, ApplySet
    <2>5. Append(r, x) \in Seq(Events)
      OBVIOUS
    <2> QED BY <2>2, <2>4, <2>5
  <1>3. T \subseteq Seq(Events)
    OBVIOUS
  <1>4. q \in T
    <2> HIDE DEF T
    <2> QED BY <1>1, <1>2, <1>3, SeqInduction
  <1> QED BY <1>4

LEMMA ApplySetOrdered ==
  ASSUME Jsqs = {}, NEW b \in Boxes, Ordered(b), NEW ev \in Events
  PROVE  Ordered(ApplySet(b, ev))
  BY ApplyMonotone DEF Boxes, Ordered, ApplySet

LEMMA LeadOrdered ==
  ASSUME Jsqs = {}, NEW b \in Boxes, Ordered(b), NEW q \in Seq(Events)
  PROVE  Ordered(Lead(b, q))
  <1> DEFINE T == {r \in Seq(Events) : Ordered(Lead(b, r))}
  <1>1. << >> \in T
    BY LeadSteps, EmptySeq
  <1>2. ASSUME NEW r \in Seq(Events), NEW x \in Events, r \in T PROVE Append(r, x) \in T
    <2>1. Lead(b, Append(r, x)) = ApplySet(Lead(b, r), x)
      BY LeadSteps
    <2>2. Append(r, x) \in Seq(Events) /\ Lead(b, r) \in Boxes
      BY LeadIsBox
    <2> QED BY <1>2, <2>1, <2>2, ApplySetOrdered
  <1>3. T \subseteq Seq(Events)
    OBVIOUS
  <1>4. q \in T
    <2> HIDE DEF T
    <2> QED BY <1>1, <1>2, <1>3, SeqInduction
  <1> QED BY <1>4

----------------------------------------------------------------------------
(* Sequences of sequences, which FlattenSeq puts end to end. *)

IsFlat(f, W, n) == f = [k \in 1..n |-> IF k = 1 THEN W[k] ELSE f[k - 1] \o W[k]]

LEMMA FlatExists == ASSUME NEW W, NEW m \in Nat PROVE \E f : IsFlat(f, W, m)
  <1> DEFINE T == {n \in Nat : \E f : IsFlat(f, W, n)}
  <1>1. 0 \in T
    <2>1. IsFlat([k \in 1..0 |-> W], W, 0)
      BY DEF IsFlat
    <2> QED BY <2>1
  <1>2. ASSUME NEW n \in Nat, n \in T PROVE n + 1 \in T
    <2>1. PICK f : IsFlat(f, W, n)
      BY <1>2
    <2> DEFINE last == IF n + 1 = 1 THEN W[n + 1] ELSE f[n] \o W[n + 1]
               g == [k \in 1..(n + 1) |-> IF k = n + 1 THEN last ELSE f[k]]
    <2>2. ASSUME NEW k \in 1..(n + 1)
          PROVE  g[k] = IF k = 1 THEN W[k] ELSE g[k - 1] \o W[k]
      <3>1. CASE k = n + 1
        <4>1. k # 1 => n \in 1..(n + 1) /\ n # n + 1 /\ k - 1 = n
          BY <3>1
        <4>2. k # 1 => g[k - 1] = f[n]
          BY <4>1
        <4> QED BY <3>1, <4>2
      <3>2. CASE k # n + 1
        <4>1. k \in 1..n /\ k - 1 # n + 1 /\ (k # 1 => k - 1 \in 1..(n + 1))
          BY <3>2
        <4>2. f[k] = IF k = 1 THEN W[k] ELSE f[k - 1] \o W[k]
          BY <2>1, <4>1 DEF IsFlat
        <4> HIDE DEF last
        <4>3. g[k] = f[k] /\ (k # 1 => g[k - 1] = f[k - 1])
          BY <3>2, <4>1
        <4> QED BY <4>2, <4>3
      <3> QED BY <3>1, <3>2
    <2>3. IsFlat(g, W, n + 1)
      <3> HIDE DEF last
      <3> QED BY <2>2 DEF IsFlat
    <2> QED BY <2>3
  <1>3. T \subseteq Nat
    OBVIOUS
  <1> HIDE DEF T
  <1>4. m \in T
    BY <1>1, <1>2, <1>3, SetInduction
  <1> QED BY <1>4 DEF T

Flat(W) == CHOOSE f : IsFlat(f, W, Len(W))

LEMMA FlattenIsFlat ==
  ASSUME NEW S, NEW W \in Seq(S)
  PROVE  /\ W = << >> => FlattenSeq(W) = << >>
         /\ W # << >> => FlattenSeq(W) = Flat(W)[Len(W)]
         /\ Len(W) >= 1 => Flat(W)[1] = W[1]
         /\ \A k \in 1..Len(W) : k + 1 <= Len(W) => Flat(W)[k + 1] = Flat(W)[k] \o W[k + 1]
  <1>1. Len(W) \in Nat /\ (Len(W) = 0 <=> W = << >>)
    BY EmptySeq
  <1>2. W # << >> => FlattenSeq(W) = Flat(W)[Len(W)]
    BY <1>1 DEF FlattenSeq, Flat, IsFlat
  <1>3. W = << >> => FlattenSeq(W) = << >>
    BY <1>1 DEF FlattenSeq
  <1>4. IsFlat(Flat(W), W, Len(W))
    BY <1>1, FlatExists DEF Flat
  <1> DEFINE f == Flat(W)
  <1> HIDE DEF f
  <1>5. \A k \in 1..Len(W) : f[k] = IF k = 1 THEN W[k] ELSE f[k - 1] \o W[k]
    BY <1>4 DEF IsFlat, f
  <1>6. Len(W) >= 1 => f[1] = W[1]
    BY <1>1, <1>5
  <1>7. ASSUME NEW k \in 1..Len(W), k + 1 <= Len(W) PROVE f[k + 1] = f[k] \o W[k + 1]
    <2>1. k + 1 \in 1..Len(W) /\ k + 1 # 1 /\ (k + 1) - 1 = k
      BY <1>1, <1>7
    <2> QED BY <1>5, <2>1
  <1> QED BY <1>2, <1>3, <1>6, <1>7 DEF f

\* What the properties use of FlattenSeq.
LEMMA FlattenEmpty == FlattenSeq(<< >>) = << >>
  <1>1. << >> \in Seq({})
    OBVIOUS
  <1> QED BY <1>1, FlattenIsFlat

LEMMA FlattenAppend ==
  ASSUME NEW S, NEW W \in Seq(Seq(S)), NEW x \in Seq(S)
  PROVE  FlattenSeq(Append(W, x)) = FlattenSeq(W) \o x
  <1> DEFINE V == Append(W, x)
             f == Flat(W)
             g == Flat(V)
  <1>1. /\ V \in Seq(Seq(S)) /\ V # << >> /\ Len(W) \in Nat /\ Len(V) = Len(W) + 1
        /\ V[Len(W) + 1] = x /\ \A k \in 1..Len(W) : V[k] = W[k]
    BY AppendProperties, LenProperties
  <1> HIDE DEF V
  <1>2. /\ W = << >> => FlattenSeq(W) = << >>
        /\ W # << >> => FlattenSeq(W) = f[Len(W)]
        /\ Len(W) >= 1 => f[1] = W[1]
        /\ \A k \in 1..Len(W) : k + 1 <= Len(W) => f[k + 1] = f[k] \o W[k + 1]
    BY FlattenIsFlat
  <1>3. /\ FlattenSeq(V) = g[Len(V)]
        /\ g[1] = V[1]
        /\ \A k \in 1..Len(V) : k + 1 <= Len(V) => g[k + 1] = g[k] \o V[k + 1]
    <2>1. Len(V) >= 1
      BY <1>1
    <2> QED BY <1>1, <2>1, FlattenIsFlat
  <1> HIDE DEF f, g
  <1>4. CASE W = << >>
    <2>1. Len(W) = 0 /\ << >> \o x = x
      BY <1>4, EmptySeq, ConcatEmptySeq
    <2> QED BY <1>1, <1>2, <1>3, <1>4, <2>1 DEF V
  <1>5. CASE W # << >>
    <2>1. Len(W) >= 1
      BY <1>1, <1>5, EmptySeq
    <2> DEFINE T == {n \in Nat : n + 1 <= Len(W) => g[n + 1] = f[n + 1]}
    <2>2. 0 \in T
      <3>1. 1 \in 1..Len(W)
        BY <1>1, <2>1
      <3>2. g[1] = f[1]
        BY <1>1, <1>2, <1>3, <2>1, <3>1
      <3> QED BY <3>2
    <2>3. ASSUME NEW n \in Nat, n \in T PROVE n + 1 \in T
      <3> SUFFICES ASSUME (n + 1) + 1 <= Len(W) PROVE g[(n + 1) + 1] = f[(n + 1) + 1]
        OBVIOUS
      <3>1. /\ n + 1 \in 1..Len(W) /\ n + 1 \in 1..Len(V) /\ (n + 1) + 1 \in 1..Len(W)
            /\ (n + 1) + 1 <= Len(V) /\ n + 1 <= Len(W)
        BY <1>1
      <3>2. g[(n + 1) + 1] = g[n + 1] \o V[(n + 1) + 1]
        BY <1>3, <3>1
      <3>3. f[(n + 1) + 1] = f[n + 1] \o W[(n + 1) + 1]
        BY <1>2, <3>1
      <3>4. g[n + 1] = f[n + 1] /\ V[(n + 1) + 1] = W[(n + 1) + 1]
        BY <1>1, <2>3, <3>1
      <3> QED BY <3>2, <3>3, <3>4
    <2>4. T = Nat
      <3>1. T \subseteq Nat
        OBVIOUS
      <3> HIDE DEF T
      <3> QED BY <2>2, <2>3, <3>1, SetInduction
    <2>5. g[Len(W)] = f[Len(W)]
      <3> DEFINE n == Len(W) - 1
      <3>1. n \in T
        <4>1. n \in Nat
          BY <1>1, <2>1
        <4> HIDE DEF T, n
        <4> QED BY <2>4, <4>1
      <3>2. n + 1 = Len(W)
        BY <1>1
      <3> HIDE DEF n
      <3> QED BY <1>1, <3>1, <3>2
    <2>6. g[Len(W) + 1] = g[Len(W)] \o V[Len(W) + 1]
      <3>1. Len(W) \in 1..Len(V) /\ Len(W) + 1 <= Len(V)
        BY <1>1, <2>1
      <3> QED BY <1>3, <3>1
    <2> QED BY <1>1, <1>2, <1>3, <1>5, <2>5, <2>6 DEF V
  <1> QED BY <1>4, <1>5

LEMMA FlattenIsSeq ==
  ASSUME NEW S, NEW W \in Seq(Seq(S))
  PROVE  FlattenSeq(W) \in Seq(S)
  <1> DEFINE T == {V \in Seq(Seq(S)) : FlattenSeq(V) \in Seq(S)}
  <1>1. << >> \in T
    <2>1. << >> \in Seq(Seq(S)) /\ << >> \in Seq(S)
      OBVIOUS
    <2> QED BY <2>1, FlattenEmpty
  <1>2. ASSUME NEW V \in Seq(Seq(S)), NEW x \in Seq(S), V \in T PROVE Append(V, x) \in T
    <2>1. FlattenSeq(Append(V, x)) = FlattenSeq(V) \o x
      BY FlattenAppend
    <2>2. FlattenSeq(V) \o x \in Seq(S) /\ Append(V, x) \in Seq(Seq(S))
      BY <1>2, ConcatProperties
    <2> QED BY <2>1, <2>2
  <1>3. T \subseteq Seq(Seq(S))
    OBVIOUS
  <1>4. W \in T
    <2> HIDE DEF T
    <2> QED BY <1>1, <1>2, <1>3, SeqInduction
  <1> QED BY <1>4

LEMMA FlattenConcat ==
  ASSUME NEW S, NEW U \in Seq(Seq(S)), NEW W \in Seq(Seq(S))
  PROVE  FlattenSeq(U \o W) = FlattenSeq(U) \o FlattenSeq(W)
  <1> DEFINE T == {V \in Seq(Seq(S)) : FlattenSeq(U \o V) = FlattenSeq(U) \o FlattenSeq(V)}
  <1>0. FlattenSeq(U) \in Seq(S)
    BY FlattenIsSeq
  <1>1. << >> \in T
    <2>1. << >> \in Seq(Seq(S)) /\ U \o << >> = U
      BY EmptySeq, ConcatEmptySeq
    <2>2. FlattenSeq(U) \o << >> = FlattenSeq(U)
      BY <1>0, ConcatEmptySeq
    <2> QED BY <2>1, <2>2, FlattenEmpty
  <1>2. ASSUME NEW V \in Seq(Seq(S)), NEW x \in Seq(S), V \in T PROVE Append(V, x) \in T
    <2>1. /\ U \o V \in Seq(Seq(S)) /\ Append(V, x) \in Seq(Seq(S))
          /\ U \o Append(V, x) = Append(U \o V, x)
      OBVIOUS
    <2>2. FlattenSeq(Append(U \o V, x)) = FlattenSeq(U \o V) \o x
      BY <2>1, FlattenAppend
    <2>3. FlattenSeq(Append(V, x)) = FlattenSeq(V) \o x
      BY FlattenAppend
    <2>4. FlattenSeq(V) \in Seq(S)
      BY FlattenIsSeq
    <2>5. (FlattenSeq(U) \o FlattenSeq(V)) \o x = FlattenSeq(U) \o (FlattenSeq(V) \o x)
      <3> DEFINE u == FlattenSeq(U)
                 v == FlattenSeq(V)
      <3>1. u \in Seq(S) /\ v \in Seq(S) /\ x \in Seq(S)
        BY <1>0, <2>4
      <3> HIDE DEF u, v
      <3>2. (u \o v) \o x = u \o (v \o x)
        BY <3>1, ConcatAssociative
      <3> QED BY <3>2 DEF u, v
    <2> QED BY <1>2, <2>1, <2>2, <2>3, <2>5
  <1>3. T \subseteq Seq(Seq(S))
    OBVIOUS
  <1>4. W \in T
    <2> HIDE DEF T
    <2> QED BY <1>1, <1>2, <1>3, SeqInduction
  <1> QED BY <1>4

----------------------------------------------------------------------------
(* What an iterator has passed, when the history or the iterator changes. *)

LEMMA SegmentTyped ==
  ASSUME LogTyped, NEW s \in 1..Len(log)
  PROVE  /\ log[s] \in [request : Requests \cup {Unlimited}, events : Seq(Events)]
         /\ log[s].events \in Seq(Events) /\ Len(log[s].events) \in Nat
         /\ log[s].request \in Requests \cup {Unlimited}
  <1>1. log[s] \in [request : Requests \cup {Unlimited}, events : Seq(Events)]
    BY ElementOfSeq DEF LogTyped
  <1> QED BY <1>1, LenProperties

LEMMA PartTyped ==
  ASSUME LogTyped, CursorTyped, NEW i \in Simulations
  PROVE  Part(i) \in Seq(Events)
  <1>1. CASE cursor[i].seg = 0
    BY <1>1, EmptySeq DEF Part
  <1>2. CASE cursor[i].seg # 0
    <2>1. /\ cursor[i].seg \in 1..Len(log) /\ cursor[i].off \in Nat
          /\ cursor[i].off <= Len(log[cursor[i].seg].events)
      BY <1>2 DEF CursorTyped
    <2> DEFINE w == log[cursor[i].seg].events
               n == cursor[i].off
    <2>2. w \in Seq(Events) /\ Len(w) \in Nat /\ n \in Nat /\ n <= Len(w)
      BY <2>1, SegmentTyped
    <2>3. Part(i) = SubSeq(w, 1, n)
      BY <1>2 DEF Part
    <2> HIDE DEF w, n
    <2>4. \A k \in 1..n : w[k] \in Events
      BY <2>2, ElementOfSeq
    <2>5. SubSeq(w, 1, n) \in Seq(Events)
      BY <2>2, <2>4, SubSeqProperties
    <2> QED BY <2>3, <2>5
  <1> QED BY <1>1, <1>2

LEMMA WholeTyped ==
  ASSUME LogTyped, CursorTyped, FromTyped, NEW i \in Simulations, Started(i)
  PROVE  /\ Whole(i) \in Seq(Seq(Events))
         /\ Len(Whole(i)) = from[i].seg - cursor[i].seg
         /\ FlattenSeq(Whole(i)) \in Seq(Events)
  <1>1. /\ cursor[i].seg \in Nat /\ from[i].seg \in 1..Len(log) /\ cursor[i].seg <= from[i].seg
        /\ Len(log) \in Nat
    BY LenProperties DEF CursorTyped, FromTyped, LogTyped
  <1> DEFINE n == from[i].seg - cursor[i].seg
  <1>2. ASSUME NEW k \in 1..n PROVE log[from[i].seg + 1 - k].events \in Seq(Events)
    <2>1. from[i].seg + 1 - k \in 1..Len(log)
      BY <1>1
    <2> QED BY <2>1, SegmentTyped
  <1>3. n \in Nat
    BY <1>1
  <1>4. Whole(i) \in [1..n -> Seq(Events)]
    BY <1>2 DEF Whole
  <1> HIDE DEF n
  <1>5. Whole(i) \in Seq(Seq(Events)) /\ Len(Whole(i)) = n
    BY <1>3, <1>4
  <1> QED BY <1>5, FlattenIsSeq DEF n

LEMMA PastTyped ==
  ASSUME LogTyped, CursorTyped, FromTyped, NEW i \in Simulations, Started(i)
  PROVE  Past(i) \in Seq(Events)
  BY PartTyped, WholeTyped, ConcatProperties DEF Past

\* Nothing but the events an iterator has passed makes its past.
LEMMA WholeKept ==
  ASSUME LogTyped, CursorTyped, FromTyped, NEW i \in Simulations, Started(i),
         cursor'[i].seg = cursor[i].seg, from'[i].seg = from[i].seg,
         \A s \in (cursor[i].seg + 1)..from[i].seg : log'[s].events = log[s].events
  PROVE  Whole(i)' = Whole(i)
  <1>1. cursor[i].seg \in Nat /\ from[i].seg \in Nat
    BY DEF CursorTyped, FromTyped
  <1>2. ASSUME NEW k \in 1..(from[i].seg - cursor[i].seg)
        PROVE  log'[from[i].seg + 1 - k].events = log[from[i].seg + 1 - k].events
    <2>1. from[i].seg + 1 - k \in (cursor[i].seg + 1)..from[i].seg
      BY <1>1
    <2> QED BY <2>1
  <1> QED BY <1>2 DEF Whole

LEMMA PastKept ==
  ASSUME LogTyped, CursorTyped, FromTyped, NEW i \in Simulations, Started(i),
         cursor'[i] = cursor[i], from'[i] = from[i],
         \A s \in (cursor[i].seg + 1)..from[i].seg : log'[s].events = log[s].events,
         cursor[i].seg # 0 => SubSeq(log'[cursor[i].seg].events, 1, cursor[i].off) =
                              SubSeq(log[cursor[i].seg].events, 1, cursor[i].off)
  PROVE  Past(i)' = Past(i)
  <1>1. Whole(i)' = Whole(i)
    BY WholeKept
  <1>2. Part(i)' = Part(i)
    BY DEF Part
  <1> QED BY <1>1, <1>2 DEF Past

\* An iterator that passes one event.
LEMMA PastAppends ==
  ASSUME LogTyped, CursorTyped, FromTyped, NEW i \in Simulations, cursor[i].at = "open",
         cursor'[i] = [cursor[i] EXCEPT !.off = @ + 1], from'[i] = from[i],
         \A s \in (cursor[i].seg + 1)..from[i].seg : log'[s].events = log[s].events,
         NEW e \in Events,
         SubSeq(log'[cursor[i].seg].events, 1, cursor[i].off + 1) =
           Append(SubSeq(log[cursor[i].seg].events, 1, cursor[i].off), e)
  PROVE  Past(i)' = Append(Past(i), e)
  <1>1. /\ Started(i) /\ cursor[i].seg \in Nat /\ cursor[i].seg # 0
        /\ cursor'[i].seg = cursor[i].seg /\ cursor'[i].off = cursor[i].off + 1
    BY DEF CursorTyped, Started
  <1>2. Whole(i)' = Whole(i)
    BY <1>1, WholeKept
  <1>3. Part(i)' = Append(Part(i), e)
    BY <1>1 DEF Part
  <1>4. FlattenSeq(Whole(i)) \in Seq(Events) /\ Part(i) \in Seq(Events)
    BY <1>1, WholeTyped, PartTyped
  <1> DEFINE f == FlattenSeq(Whole(i))
             p == Part(i)
  <1>5. Past(i)' = f \o Append(p, e) /\ Past(i) = f \o p
    BY <1>2, <1>3 DEF Past
  <1>6. f \in Seq(Events) /\ p \in Seq(Events)
    BY <1>4
  <1> HIDE DEF f, p
  <1>7. f \o Append(p, e) = Append(f \o p, e)
    BY <1>6
  <1> QED BY <1>5, <1>7

\* An iterator that leaves a segment it has passed.
LEMMA PastCrosses ==
  ASSUME LogTyped, CursorTyped, FromTyped, NEW i \in Simulations, cursor[i].at = "open",
         cursor[i].off = Len(log[cursor[i].seg].events),
         cursor'[i].seg = cursor[i].seg - 1, cursor'[i].off = 0,
         log' = log, from'[i] = from[i]
  PROVE  Past(i)' = Past(i)
  <1>1. /\ Started(i) /\ cursor[i].seg \in 1..Len(log) /\ Len(log) \in Nat
        /\ from[i].seg \in 1..Len(log) /\ cursor[i].seg <= from[i].seg
    BY LenProperties DEF CursorTyped, FromTyped, Started, LogTyped
  <1> DEFINE w == log[cursor[i].seg].events
             n == from[i].seg - cursor[i].seg
  <1>2. w \in Seq(Events) /\ Part(i) = w
    <2>1. w \in Seq(Events)
      BY <1>1, SegmentTyped
    <2>2. Part(i) = SubSeq(w, 1, Len(w))
      BY <1>1 DEF Part
    <2> HIDE DEF w
    <2> QED BY <2>1, <2>2, SubSeqFull
  <1>3. Part(i)' = << >>
    <2>1. \A v : SubSeq(v, 1, 0) = << >>
      BY SubSeqEmpty
    <2>2. Part(i)' = << >> \/ Part(i)' = SubSeq(log[cursor'[i].seg].events, 1, 0)
      BY DEF Part
    <2> QED BY <2>1, <2>2
  <1>4. /\ Whole(i) \in Seq(Seq(Events)) /\ Len(Whole(i)) = n
        /\ Whole(i) = [k \in 1..n |-> log[from[i].seg + 1 - k].events]
    BY <1>1, WholeTyped DEF Whole
  <1>5. Whole(i)' = [k \in 1..(n + 1) |-> log[from[i].seg + 1 - k].events]
    <2>1. from[i].seg - cursor'[i].seg = n + 1
      BY <1>1
    <2> HIDE DEF n
    <2> QED BY <2>1 DEF Whole
  <1>6. n \in Nat /\ from[i].seg + 1 - (n + 1) = cursor[i].seg
    BY <1>1
  <1>7. Whole(i)' = Append(Whole(i), w)
    <2> DEFINE a == [k \in 1..(n + 1) |-> log[from[i].seg + 1 - k].events]
               b == Append(Whole(i), w)
    <2>1. /\ b \in Seq(Seq(Events)) /\ Len(b) = n + 1 /\ b[n + 1] = w
          /\ \A k \in 1..n : b[k] = Whole(i)[k]
      <3> DEFINE v == Whole(i)
      <3>1. v \in Seq(Seq(Events)) /\ Len(v) = n /\ w \in Seq(Events)
        BY <1>2, <1>4
      <3> HIDE DEF v, w, n
      <3>2. /\ Append(v, w) \in Seq(Seq(Events)) /\ Len(Append(v, w)) = n + 1
            /\ Append(v, w)[n + 1] = w /\ \A k \in 1..n : Append(v, w)[k] = v[k]
        BY <3>1
      <3> QED BY <3>2 DEF v
    <2>2. \A k \in 1..n : Whole(i)[k] = log[from[i].seg + 1 - k].events
      <3> HIDE DEF n
      <3> QED BY <1>4
    <2>3. a[n + 1] = w
      <3>1. a[n + 1] = log[from[i].seg + 1 - (n + 1)].events
        BY <1>6
      <3> QED BY <1>6, <3>1
    <2>4. \A k \in 1..n : a[k] = b[k]
      <3>1. \A k \in 1..n : a[k] = log[from[i].seg + 1 - k].events
        <4> HIDE DEF n
        <4> QED BY <1>6
      <3> HIDE DEF a, b, n
      <3> QED BY <2>1, <2>2, <3>1
    <2>5. \A k \in 1..(n + 1) : a[k] = b[k]
      <3>1. n \in Nat
        BY <1>6
      <3>2. b[n + 1] = a[n + 1]
        BY <2>1, <2>3
      <3> HIDE DEF a, b, w, n
      <3>3. \A k \in 1..(n + 1) : k \in 1..n \/ k = n + 1
        BY <3>1
      <3> QED BY <2>4, <3>2, <3>3
    <2>6. a = b
      <3>1. DOMAIN a = 1..(n + 1)
        OBVIOUS
      <3>2. b \in [1..(n + 1) -> Seq(Events)]
        <4> HIDE DEF b, n
        <4> QED BY <2>1, LenProperties
      <3>3. a = [k \in 1..(n + 1) |-> a[k]]
        OBVIOUS
      <3> HIDE DEF a, b, n
      <3> QED BY <2>5, <3>1, <3>2, <3>3
    <2> QED BY <1>5, <2>6
  <1>8. FlattenSeq(Whole(i)') = FlattenSeq(Whole(i)) \o w
    <2> HIDE DEF w, n
    <2> QED BY <1>2, <1>4, <1>7, FlattenAppend
  <1>9. FlattenSeq(Whole(i)) \o w \in Seq(Events)
    <2>1. FlattenSeq(Whole(i)) \in Seq(Events)
      BY <1>1, WholeTyped
    <2> HIDE DEF w
    <2> QED BY <1>2, <2>1, ConcatProperties
  <1>10. Past(i)' = (FlattenSeq(Whole(i)) \o w) \o << >>
    <2> HIDE DEF w
    <2> QED BY <1>3, <1>8 DEF Past
  <1>11. Past(i) = FlattenSeq(Whole(i)) \o w
    <2> HIDE DEF w
    <2> QED BY <1>2 DEF Past
  <1> DEFINE z == FlattenSeq(Whole(i)) \o w
  <1>12. z \in Seq(Events) /\ Past(i)' = z \o << >> /\ Past(i) = z
    BY <1>9, <1>10, <1>11
  <1> HIDE DEF z
  <1> QED BY <1>12, ConcatEmptySeq

\* A simulation that starts has passed nothing.
LEMMA PastStarts ==
  ASSUME NEW i \in Simulations,
         from'[i].seg \in Nat, cursor'[i].seg = from'[i].seg, cursor'[i].off = 0
  PROVE  Past(i)' = << >>
  <1>1. Whole(i)' = << >>
    BY DEF Whole
  <1>2. Part(i)' = << >>
    <2>1. SubSeq(log'[cursor'[i].seg].events, 1, 0) = << >>
      BY SubSeqEmpty
    <2> QED BY <2>1 DEF Part
  <1>3. << >> \o << >> = << >>
    OBVIOUS
  <1> QED BY <1>1, <1>2, <1>3, FlattenEmpty DEF Past

----------------------------------------------------------------------------
(* The steps that neither touch the history nor move an iterator. *)

LEMMA QuietKeeps ==
  ASSUME IInv, UNCHANGED <<log, cursor, from>>
  PROVE  /\ LogTyped' /\ CursorTyped' /\ FromTyped' /\ SegmentsFit' /\ PassedComplete'
         /\ \A i \in Simulations : Past(i)' = Past(i) /\ Started(i)' = Started(i)
  <1>1. LogTyped' /\ CursorTyped' /\ FromTyped'
    BY DEF IInv, LogTyped, CursorTyped, FromTyped, Started
  <1>2. SegmentsFit' /\ PassedComplete'
    BY DEF IInv, SegmentsFit, PassedComplete, Started
  <1>3. \A i \in Simulations : Past(i)' = Past(i) /\ Started(i)' = Started(i)
    BY DEF Past, Whole, Part, Started
  <1> QED BY <1>1, <1>2, <1>3

LEMMA LagsKept ==
  ASSUME IInv, UNCHANGED <<log, cursor, from>>,
         \A i \in Simulations : Started(i) => Upcoming(i)' = Upcoming(i)
  PROVE  SetLags'
  BY QuietKeeps DEF SetLags, IInv

LEMMA InvokeKeeps ==
  ASSUME IInv, ~Called, NEW i \in Simulations, NEW op \in {"load", "get", "store"},
         NEW ev \in Events \cup {NoEvent}, op = "store" => ev = event,
         H!Invoke(op, i, ev), UNCHANGED <<event, set, from>>
  PROVE  IInv'
  <1>1. /\ UNCHANGED <<log, cursor, from>> /\ Started(i)
        /\ call' = [op |-> op, it |-> i, ev |-> ev, code |-> "RUNNING"]
    BY DEF H!Invoke, Started
  <1>2. CallTyped'
    BY <1>1 DEF CallTyped, Called, Codes, Started
  <1>3. SetTyped'
    BY DEF SetTyped, IInv
  <1>4. call.code = "NONE"
    BY DEF IInv, CallTyped
  <1>5. SetLags'
    BY <1>1, <1>4, LagsKept DEF Upcoming
  <1> QED BY <1>1, <1>2, <1>3, <1>5, QuietKeeps DEF IInv

LEMMA GenerateKeeps == ASSUME IInv, NEW ev \in Events, Generate(ev) PROVE IInv'
  <1>1. ~Called /\ event' = ev /\ UNCHANGED <<log, cursor, call, set, from>>
    BY DEF Generate
  <1>2. CallTyped'
    BY <1>1 DEF IInv, CallTyped, Called, Started
  <1>3. SetTyped'
    BY <1>1 DEF SetTyped, IInv
  <1>4. SetLags'
    BY <1>1, LagsKept DEF Upcoming
  <1> QED BY <1>1, <1>2, <1>3, <1>4, QuietKeeps DEF IInv

\* A call that returns without an event.
LEMMA ReturnKeeps ==
  ASSUME IInv, call.code = "RUNNING", NEW code \in Codes \ {"NONE", "LOADED", "STORED"},
         H!Return(code), UNCHANGED <<log, cursor, event, set, from>>
  PROVE  IInv'
  <1>1. call' = [call EXCEPT !.code = code] /\ call \in [op : {"none", "load", "get", "store"},
               it : Simulations, ev : Events \cup {NoEvent}, code : Codes]
    BY DEF H!Return, IInv, CallTyped
  <1>2. /\ call'.code = code /\ call'.op = call.op /\ call'.it = call.it /\ call'.ev = call.ev
        /\ call' \in [op : {"none", "load", "get", "store"},
               it : Simulations, ev : Events \cup {NoEvent}, code : Codes]
    BY <1>1
  <1>3. CallTyped'
    BY <1>2 DEF IInv, CallTyped, Called, Started
  <1>4. SetTyped'
    BY DEF SetTyped, IInv
  <1>5. SetLags'
    BY <1>2, LagsKept DEF Upcoming
  <1> QED BY <1>3, <1>4, <1>5, QuietKeeps DEF IInv

LEMMA ProceedKeeps == ASSUME IInv, Proceed PROVE IInv'
  <1>1. /\ Called /\ UNCHANGED <<log, cursor, from>>
        /\ event' = IF call.code = "LOADED" THEN call.ev ELSE event
        /\ set' = IF call.code \in {"LOADED", "STORED"}
                  THEN [set EXCEPT ![call.it] = ApplySet(@, event')] ELSE set
        /\ call' = [call EXCEPT !.op = "none", !.ev = NoEvent, !.code = "NONE"]
    BY DEF Proceed
  <1>2. /\ call \in [op : {"none", "load", "get", "store"}, it : Simulations,
                     ev : Events \cup {NoEvent}, code : Codes]
        /\ call.op = "store" => call.ev = event
        /\ call.code = "STORED" => call.op = "store"
        /\ call.code \in {"LOADED", "STORED"} => call.ev \in Events
        /\ event \in Events \cup {NoEvent} /\ set \in [Simulations -> Boxes]
    BY DEF IInv, CallTyped, SetTyped
  <1>3. /\ call' \in [op : {"none", "load", "get", "store"}, it : Simulations,
                      ev : Events \cup {NoEvent}, code : Codes]
        /\ call'.op = "none" /\ call'.code = "NONE"
    BY <1>1, <1>2 DEF Codes
  <1>4. CallTyped'
    BY <1>3 DEF CallTyped, Called
  <1>5. call.code \in {"LOADED", "STORED"} => event' = call.ev
    BY <1>1, <1>2
  <1>6. SetTyped'
    <2>1. event' \in Events \cup {NoEvent}
      BY <1>1, <1>2
    <2>2. CASE call.code \in {"LOADED", "STORED"}
      <3>1. ApplySet(set[call.it], event') \in Boxes
        BY <1>2, <1>5, <2>2, ApplySetIsBox
      <3> QED BY <1>1, <1>2, <2>1, <2>2, <3>1 DEF SetTyped
    <2>3. CASE call.code \notin {"LOADED", "STORED"}
      BY <1>1, <1>2, <2>1, <2>3 DEF SetTyped
    <2> QED BY <2>2, <2>3
  <1>7. ASSUME NEW i \in Simulations PROVE Upcoming(i)' = Upcoming(i)
    <2>1. Upcoming(i)' = set'[i]
      BY <1>3 DEF Upcoming
    <2>2. set'[i] = IF i = call.it /\ call.code \in {"LOADED", "STORED"}
                    THEN ApplySet(set[i], event') ELSE set[i]
      BY <1>1, <1>2
    <2> QED BY <1>5, <2>1, <2>2 DEF Upcoming
  <1>8. SetLags'
    BY <1>1, <1>7, LagsKept
  <1> QED BY <1>1, <1>4, <1>6, <1>8, QuietKeeps DEF IInv

----------------------------------------------------------------------------
(* The steps that add a segment. *)

\* The segments that were there are still there, with what they hold.
Extends == /\ Len(log) <= Len(log')
           /\ \A s \in 1..Len(log) : log'[s] = log[s]

LEMMA NewSegmentExtends ==
  ASSUME LogTyped, SegmentsFit, NEW n \in Requests \cup {Unlimited}, H!NewSegment(n)
  PROVE  /\ Extends /\ LogTyped' /\ SegmentsFit'
         /\ Len(log) \in Nat /\ Len(log') = Len(log) + 1
  <1> DEFINE new == [request |-> n, events |-> << >>]
             R == [request : Requests \cup {Unlimited}, events : Seq(Events)]
  <1>1. new \in R
    BY EmptySeq
  <1>2. log \in Seq(R) /\ log' = Append(log, new)
    BY DEF LogTyped, H!NewSegment
  <1>3. new.events = << >> /\ new.request = n
    OBVIOUS
  <1> HIDE DEF new
  <1>4. /\ log' \in Seq(R) /\ Len(log') = Len(log) + 1 /\ Len(log) \in Nat
        /\ \A s \in 1..Len(log) : log'[s] = log[s]
        /\ log'[Len(log) + 1] = new
    <2> HIDE DEF R
    <2> QED BY <1>1, <1>2
  <1>5. LogTyped'
    BY <1>4 DEF LogTyped
  <1>6. SegmentsFit'
    <2> SUFFICES ASSUME NEW s \in 1..(Len(log) + 1), log'[s].request # Unlimited
                 PROVE  Len(log'[s].events) <= log'[s].request
      BY <1>4, LenProperties DEF SegmentsFit
    <2>1. CASE s = Len(log) + 1
      <3>1. n \in Nat /\ Len(<< >>) = 0
        BY <1>3, <1>4, <2>1, RequestsAssumption, EmptySeq
      <3> QED BY <1>3, <1>4, <2>1, <3>1
    <2>2. CASE s # Len(log) + 1
      <3>1. s \in 1..Len(log) /\ s \in DOMAIN log
        BY <1>2, <1>4, <2>2, LenProperties
      <3> QED BY <1>4, <3>1 DEF SegmentsFit
    <2> QED BY <2>1, <2>2
  <1> QED BY <1>4, <1>5, <1>6 DEF Extends

\* What does not change for an iterator when the history extends.
LEMMA ExtendsKeeps ==
  ASSUME LogTyped, CursorTyped, FromTyped, PassedComplete, Extends, Len(log') \in Nat,
         NEW i \in Simulations, cursor'[i] = cursor[i], from'[i] = from[i]
  PROVE  /\ Started(i) => Past(i)' = Past(i)
         /\ Started(i) => from'[i].seg \in 1..Len(log') /\ cursor'[i].seg <= from'[i].seg
         /\ IF cursor'[i].at = "open"
            THEN /\ cursor'[i].seg \in 1..Len(log')
                 /\ cursor'[i].off <= Len(log'[cursor'[i].seg].events)
            ELSE cursor'[i].seg = 0 /\ cursor'[i].off = 0
         /\ Started(i) => \A s \in (cursor'[i].seg + 1)..from'[i].seg :
              log'[s].request # Unlimited /\ Len(log'[s].events) >= log'[s].request
  <1>1. /\ Len(log) \in Nat /\ Len(log) <= Len(log') /\ cursor[i].seg \in Nat
        /\ \A s \in 1..Len(log) : s \in 1..Len(log') /\ log'[s] = log[s]
    BY LenProperties DEF LogTyped, CursorTyped, Extends
  <1>2. /\ cursor[i].at = "open" => cursor[i].seg \in 1..Len(log)
        /\ cursor[i].at # "open" => cursor[i].seg = 0 /\ cursor[i].off = 0
        /\ cursor[i].seg # 0 => cursor[i].seg \in 1..Len(log)
    BY DEF CursorTyped
  <1>3. /\ Started(i) => from[i].seg \in 1..Len(log) /\ cursor[i].seg <= from[i].seg
        /\ Started(i) => \A s \in (cursor[i].seg + 1)..from[i].seg : s \in 1..Len(log)
    <2>1. Started(i) => from[i].seg \in 1..Len(log) /\ cursor[i].seg <= from[i].seg
      BY DEF FromTyped
    <2> QED BY <1>1, <2>1
  <1>4. Started(i) => Past(i)' = Past(i)
    BY <1>1, <1>2, <1>3, PastKept
  <1>5. Started(i) => from'[i].seg \in 1..Len(log') /\ cursor'[i].seg <= from'[i].seg
    BY <1>1, <1>3
  <1>6. IF cursor'[i].at = "open"
        THEN cursor'[i].seg \in 1..Len(log') /\ cursor'[i].off <= Len(log'[cursor'[i].seg].events)
        ELSE cursor'[i].seg = 0 /\ cursor'[i].off = 0
    BY <1>1, <1>2 DEF CursorTyped
  <1>7. Started(i) => \A s \in (cursor'[i].seg + 1)..from'[i].seg :
          log'[s].request # Unlimited /\ Len(log'[s].events) >= log'[s].request
    BY <1>1, <1>3 DEF PassedComplete
  <1> QED BY <1>4, <1>5, <1>6, <1>7

LEMMA BackwardKeeps == ASSUME IInv, NEW n \in Requests, Backward(n) PROVE IInv'
  <1>1. H!NewSegment(n) /\ UNCHANGED <<cursor, call, event, set, from>>
    BY DEF Backward, H!Backward
  <1>2. LogTyped /\ CursorTyped /\ FromTyped /\ SegmentsFit /\ PassedComplete /\ SetLags
    BY DEF IInv
  <1>3. Extends /\ LogTyped' /\ SegmentsFit' /\ Len(log') \in Nat
    BY <1>1, <1>2, NewSegmentExtends
  <1>4. CursorTyped'
    BY <1>1, <1>2, <1>3, ExtendsKeeps DEF CursorTyped
  <1>5. FromTyped'
    BY <1>1, <1>2, <1>3, ExtendsKeeps DEF FromTyped, Started
  <1>6. PassedComplete'
    BY <1>1, <1>2, <1>3, ExtendsKeeps DEF PassedComplete, Started
  <1>7. SetLags'
    <2> SUFFICES ASSUME NEW i \in Simulations, Started(i)'
                 PROVE  Upcoming(i)' = FoldLeft(ApplySet, from'[i].set, Past(i)')
      BY DEF SetLags
    <2>1. Started(i) /\ Upcoming(i)' = Upcoming(i) /\ from'[i].set = from[i].set
      BY <1>1 DEF Started, Upcoming
    <2>2. Past(i)' = Past(i)
      BY <1>1, <1>2, <1>3, <2>1, ExtendsKeeps
    <2> QED BY <1>2, <2>1, <2>2 DEF SetLags
  <1>8. CallTyped' /\ SetTyped'
    BY <1>1 DEF IInv, CallTyped, SetTyped, Called, Started
  <1> QED BY <1>3, <1>4, <1>5, <1>6, <1>7, <1>8 DEF IInv

LEMMA StartKeeps ==
  ASSUME IInv, NEW i \in Simulations, NEW s \in Starts, Start(i, s)
  PROVE  IInv'
  <1>1. /\ ~Called /\ UNCHANGED <<call, event>>
        /\ IF log = << >> THEN H!NewSegment(Unlimited) ELSE UNCHANGED log
        /\ cursor' = [cursor EXCEPT ![i] = [at |-> "open", seg |-> Len(log'), off |-> 0]]
        /\ set' = [set EXCEPT ![i] = s]
        /\ from' = [from EXCEPT ![i] = [seg |-> Len(log'), set |-> s]]
    BY DEF Start, H!Iterator
  <1>2. LogTyped /\ CursorTyped /\ FromTyped /\ SegmentsFit /\ PassedComplete /\ SetLags
    BY DEF IInv
  <1>3. s \in Boxes
    BY StartsAssumption DEF Boxes
  <1>4. Extends /\ LogTyped' /\ SegmentsFit' /\ Len(log') \in Nat /\ Len(log') >= 1
    <2>1. CASE log = << >>
      BY <1>1, <1>2, <2>1, NewSegmentExtends
    <2>2. CASE log # << >>
      <3>1. log' = log /\ Len(log) \in Nat /\ Len(log) # 0
        BY <1>1, <1>2, <2>2, EmptySeq DEF LogTyped
      <3> QED BY <1>2, <3>1 DEF Extends, LogTyped, SegmentsFit
    <2> QED BY <2>1, <2>2
  <1>5. /\ cursor'[i] = [at |-> "open", seg |-> Len(log'), off |-> 0]
        /\ from'[i] = [seg |-> Len(log'), set |-> s] /\ set'[i] = s
        /\ \A j \in Simulations \ {i} :
             cursor'[j] = cursor[j] /\ from'[j] = from[j] /\ set'[j] = set[j]
    BY <1>1, <1>2 DEF CursorTyped, FromTyped, IInv, SetTyped
  <1>6. CursorTyped'
    <2>1. cursor' \in [Simulations -> [at : {"unmade", "open", "closed"}, seg : Nat, off : Nat]]
      BY <1>1, <1>2, <1>4 DEF CursorTyped
    <2>2. Len(log'[Len(log')].events) \in Nat
      <3>1. log' \in Seq([request : Requests \cup {Unlimited}, events : Seq(Events)])
        BY <1>4 DEF LogTyped
      <3>2. log'[Len(log')] \in [request : Requests \cup {Unlimited}, events : Seq(Events)]
        <4> DEFINE R == [request : Requests \cup {Unlimited}, events : Seq(Events)]
        <4>1. log' \in Seq(R) /\ Len(log') \in 1..Len(log')
          BY <1>4, <3>1
        <4> HIDE DEF R
        <4>2. log'[Len(log')] \in R
          BY <4>1, ElementOfSeq
        <4> QED BY <4>2 DEF R
      <3> QED BY <3>2, LenProperties
    <2>3. ASSUME NEW j \in Simulations
          PROVE  IF cursor'[j].at = "open"
                 THEN /\ cursor'[j].seg \in 1..Len(log')
                      /\ cursor'[j].off <= Len(log'[cursor'[j].seg].events)
                 ELSE cursor'[j].seg = 0 /\ cursor'[j].off = 0
      <3>1. CASE j = i
        BY <1>4, <1>5, <2>2, <3>1
      <3>2. CASE j # i
        BY <1>2, <1>4, <1>5, <3>2, ExtendsKeeps
      <3> QED BY <3>1, <3>2
    <2> QED BY <2>1, <2>3 DEF CursorTyped
  <1>7. FromTyped'
    <2>1. from' \in [Simulations -> [seg : Nat, set : Boxes]]
      BY <1>1, <1>2, <1>3, <1>4 DEF FromTyped
    <2>2. ASSUME NEW j \in Simulations, Started(j)'
          PROVE  from'[j].seg \in 1..Len(log') /\ cursor'[j].seg <= from'[j].seg
      <3>1. CASE j = i
        BY <1>4, <1>5, <3>1
      <3>2. CASE j # i
        BY <1>2, <1>4, <1>5, <2>2, <3>2, ExtendsKeeps DEF Started
      <3> QED BY <3>1, <3>2
    <2> QED BY <2>1, <2>2 DEF FromTyped
  <1>8. PassedComplete'
    <2> SUFFICES ASSUME NEW j \in Simulations, Started(j)'
                 PROVE  \A k \in (cursor'[j].seg + 1)..from'[j].seg :
                          log'[k].request # Unlimited /\ Len(log'[k].events) >= log'[k].request
      BY DEF PassedComplete
    <2>1. CASE j = i
      BY <1>4, <1>5, <2>1
    <2>2. CASE j # i
      BY <1>2, <1>4, <1>5, <2>2, ExtendsKeeps DEF Started
    <2> QED BY <2>1, <2>2
  <1>9. SetLags'
    <2> SUFFICES ASSUME NEW j \in Simulations, Started(j)'
                 PROVE  Upcoming(j)' = FoldLeft(ApplySet, from'[j].set, Past(j)')
      BY DEF SetLags
    <2>1. call.code = "NONE" /\ call' = call
      BY <1>1 DEF IInv, CallTyped
    <2>2. Upcoming(j)' = set'[j] /\ Upcoming(j) = set[j]
      BY <2>1 DEF Upcoming
    <2>3. CASE j = i
      <3>1. from'[i].seg \in Nat /\ cursor'[i].seg = from'[i].seg /\ cursor'[i].off = 0
        BY <1>4, <1>5
      <3>2. Past(i)' = << >>
        BY <3>1, PastStarts
      <3>3. from'[i].set = s /\ set'[i] = s
        BY <1>5
      <3> QED BY <2>2, <2>3, <3>2, <3>3, FoldEmpty
    <2>4. CASE j # i
      <3>1. Started(j) /\ from'[j].set = from[j].set /\ set'[j] = set[j]
        BY <1>5, <2>4 DEF Started
      <3>2. Past(j)' = Past(j)
        BY <1>2, <1>4, <1>5, <2>4, <3>1, ExtendsKeeps
      <3> QED BY <1>2, <2>2, <3>1, <3>2 DEF SetLags
    <2> QED BY <2>3, <2>4
  <1>10. CallTyped'
    BY <1>1 DEF IInv, CallTyped, Called
  <1>11. SetTyped'
    BY <1>1, <1>3 DEF IInv, SetTyped
  <1> QED BY <1>4, <1>6, <1>7, <1>8, <1>9, <1>10, <1>11 DEF IInv

----------------------------------------------------------------------------
(* The steps that move an iterator. *)

\* What they start from: an open iterator, of a simulation that has started.
LEMMA OpenFacts ==
  ASSUME IInv, NEW i \in Simulations, i = call.it, H!Open
  PROVE  /\ call.code = "RUNNING" /\ cursor[i].at = "open" /\ Started(i) /\ Called
         /\ H!Me = cursor[i] /\ H!Segment = log[cursor[i].seg]
         /\ cursor[i] \in [at : {"unmade", "open", "closed"}, seg : Nat, off : Nat]
         /\ cursor[i].seg \in 1..Len(log) /\ Len(log) \in Nat
         /\ cursor[i].off <= Len(log[cursor[i].seg].events)
         /\ log[cursor[i].seg].events \in Seq(Events)
         /\ Len(log[cursor[i].seg].events) \in Nat
         /\ from[i].seg \in 1..Len(log) /\ cursor[i].seg <= from[i].seg
  <1>1. call.code = "RUNNING" /\ cursor[i].at = "open" /\ Started(i) /\ H!Me = cursor[i]
    BY DEF H!Open, H!Running, H!Me, Started
  <1>2. Called
    BY <1>1 DEF IInv, CallTyped
  <1>3. /\ cursor[i] \in [at : {"unmade", "open", "closed"}, seg : Nat, off : Nat]
        /\ cursor[i].seg \in 1..Len(log) /\ cursor[i].off <= Len(log[cursor[i].seg].events)
    BY <1>1 DEF IInv, CursorTyped
  <1>4. from[i].seg \in 1..Len(log) /\ cursor[i].seg <= from[i].seg
    BY <1>1 DEF IInv, FromTyped
  <1>5. /\ log[cursor[i].seg].events \in Seq(Events)
        /\ Len(log[cursor[i].seg].events) \in Nat /\ Len(log) \in Nat
    BY <1>3, SegmentTyped, LenProperties DEF IInv, LogTyped
  <1> QED BY <1>1, <1>2, <1>3, <1>4, <1>5 DEF H!Segment

\* A complete segment holds what was asked for, and the iterator is at its end.
LEMMA CompleteFacts ==
  ASSUME IInv, NEW i \in Simulations, i = call.it, H!Open, H!Complete
  PROVE  /\ cursor[i].off = Len(log[cursor[i].seg].events)
         /\ log[cursor[i].seg].request # Unlimited
         /\ Len(log[cursor[i].seg].events) >= log[cursor[i].seg].request
  <1> DEFINE g == log[cursor[i].seg]
             n == cursor[i].off
             m == Len(log[cursor[i].seg].events)
  <1>1. n \in Nat /\ m \in Nat /\ n <= m /\ cursor[i].seg \in 1..Len(log)
    BY OpenFacts
  <1>2. g.request # Unlimited /\ n >= g.request
    BY OpenFacts DEF H!Complete
  <1>3. g.request \in Nat
    BY <1>1, <1>2, SegmentTyped, RequestsAssumption DEF IInv
  <1>4. m <= g.request
    BY <1>1, <1>2, LenProperties DEF IInv, SegmentsFit, LogTyped
  <1> HIDE DEF m, n
  <1>5. n = m /\ m >= g.request
    BY <1>1, <1>2, <1>3, <1>4
  <1> QED BY <1>2, <1>5 DEF m, n

\* The other iterators, when one moves.
LEMMA OthersKept ==
  ASSUME LogTyped, CursorTyped, FromTyped, log' = log, from' = from,
         NEW i \in Simulations, NEW c, cursor' = [cursor EXCEPT ![i] = c]
  PROVE  \A j \in Simulations \ {i} :
           cursor'[j] = cursor[j] /\ (Started(j) => Past(j)' = Past(j))
  <1> SUFFICES ASSUME NEW j \in Simulations \ {i}
               PROVE  cursor'[j] = cursor[j] /\ (Started(j) => Past(j)' = Past(j))
    OBVIOUS
  <1>1. cursor'[j] = cursor[j]
    BY DEF CursorTyped
  <1> QED BY <1>1, PastKept

\* Leaving a complete segment, for the next one or for the end of the history.
LEMMA LeaveKeeps ==
  ASSUME IInv, NEW i \in Simulations, i = call.it, H!Open, H!Complete,
         NEW c \in [at : {"unmade", "open", "closed"}, seg : Nat, off : Nat],
         c.seg = cursor[i].seg - 1, c.off = 0,
         c.at = IF c.seg = 0 THEN "closed" ELSE "open",
         cursor' = [cursor EXCEPT ![i] = c],
         UNCHANGED <<log, event, set, from>>,
         call'.it = call.it, call'.code \notin {"LOADED", "STORED"}, CallTyped'
  PROVE  IInv'
  <1>1. LogTyped /\ CursorTyped /\ FromTyped /\ SegmentsFit /\ PassedComplete /\ SetLags
    BY DEF IInv
  <1>2. cursor'[i] = c /\ \A j \in Simulations \ {i} : cursor'[j] = cursor[j]
    BY <1>1 DEF CursorTyped
  <1>3. /\ cursor[i].at = "open" /\ Started(i) /\ call.code = "RUNNING"
        /\ cursor[i].seg \in 1..Len(log) /\ Len(log) \in Nat
        /\ from[i].seg \in 1..Len(log) /\ cursor[i].seg <= from[i].seg
    BY OpenFacts
  <1>4. Started(i)' /\ \A j \in Simulations \ {i} : Started(j)' = Started(j)
    BY <1>2 DEF Started
  <1>5. LogTyped' /\ SegmentsFit' /\ SetTyped'
    BY DEF IInv, LogTyped, SegmentsFit, SetTyped
  <1>6. CursorTyped'
    <2>1. cursor' \in [Simulations -> [at : {"unmade", "open", "closed"}, seg : Nat, off : Nat]]
      BY <1>1 DEF CursorTyped
    <2>2. c.seg # 0 => c.seg \in 1..Len(log) /\ Len(log[c.seg].events) \in Nat
      <3>1. c.seg # 0 => c.seg \in 1..Len(log)
        BY <1>3
      <3> QED BY <1>1, <3>1, SegmentTyped
    <2>3. ASSUME NEW j \in Simulations
          PROVE  IF cursor'[j].at = "open"
                 THEN /\ cursor'[j].seg \in 1..Len(log)
                      /\ cursor'[j].off <= Len(log[cursor'[j].seg].events)
                 ELSE cursor'[j].seg = 0 /\ cursor'[j].off = 0
      <3>1. CASE j = i
        BY <1>2, <2>2, <3>1
      <3>2. CASE j # i
        BY <1>1, <1>2, <3>2 DEF CursorTyped
      <3> QED BY <3>1, <3>2
    <2> QED BY <2>1, <2>3 DEF CursorTyped
  <1>7. FromTyped'
    <2>1. ASSUME NEW j \in Simulations, Started(j)'
          PROVE  from[j].seg \in 1..Len(log) /\ cursor'[j].seg <= from[j].seg
      <3>1. CASE j = i
        BY <1>2, <1>3, <3>1
      <3>2. CASE j # i
        BY <1>1, <1>2, <1>4, <2>1, <3>2 DEF FromTyped
      <3> QED BY <3>1, <3>2
    <2> QED BY <1>1, <2>1 DEF FromTyped
  <1>8. PassedComplete'
    <2> SUFFICES ASSUME NEW j \in Simulations, Started(j)',
                        NEW s \in (cursor'[j].seg + 1)..from[j].seg
                 PROVE  log[s].request # Unlimited /\ Len(log[s].events) >= log[s].request
      BY DEF PassedComplete
    <2>1. CASE j # i
      BY <1>1, <1>2, <1>4, <2>1 DEF PassedComplete
    <2>2. CASE j = i /\ s = cursor[i].seg
      BY <2>2, CompleteFacts
    <2>3. CASE j = i /\ s # cursor[i].seg
      <3>1. s \in (cursor[i].seg + 1)..from[i].seg
        BY <1>2, <1>3, <2>3
      <3> QED BY <1>1, <1>3, <3>1 DEF PassedComplete
    <2> QED BY <2>1, <2>2, <2>3
  <1>9. SetLags'
    <2> SUFFICES ASSUME NEW j \in Simulations, Started(j)'
                 PROVE  Upcoming(j)' = FoldLeft(ApplySet, from[j].set, Past(j)')
      BY DEF SetLags
    <2>1. Upcoming(j)' = Upcoming(j)
      BY <1>3 DEF Upcoming
    <2>2. CASE j = i
      <3>1. Past(i)' = Past(i)
        BY <1>1, <1>2, <1>3, CompleteFacts, PastCrosses
      <3> QED BY <1>1, <1>3, <2>1, <2>2, <3>1 DEF SetLags
    <2>3. CASE j # i
      <3>1. Past(j)' = Past(j) /\ Started(j)
        BY <1>1, <1>4, <2>3, OthersKept
      <3> QED BY <1>1, <2>1, <3>1 DEF SetLags
    <2> QED BY <2>2, <2>3
  <1> QED BY <1>5, <1>6, <1>7, <1>8, <1>9 DEF IInv

LEMMA CrossKeeps == ASSUME IInv, H!Cross, UNCHANGED <<event, set, from>> PROVE IInv'
  <1>1. PICK i \in Simulations : i = call.it
    BY DEF IInv, CallTyped
  <1>2. H!Open /\ H!Complete /\ H!Me = cursor[i] /\ cursor[i].seg > 1 /\ UNCHANGED <<log, call>>
    BY <1>1, OpenFacts DEF H!Cross
  <1>3. cursor[i].seg \in 1..Len(log) /\ Len(log) \in Nat
    BY <1>1, <1>2, OpenFacts
  <1> DEFINE c == [at |-> "open", seg |-> cursor[i].seg - 1, off |-> 0]
  <1>4. cursor' = [cursor EXCEPT ![i] = c]
    BY <1>1 DEF H!Cross, IInv, CursorTyped
  <1>5. /\ c \in [at : {"unmade", "open", "closed"}, seg : Nat, off : Nat] /\ c.at = "open"
        /\ c.seg = cursor[i].seg - 1 /\ c.off = 0 /\ c.seg # 0
    BY <1>2, <1>3
  <1> HIDE DEF c
  <1>6. call.code = "RUNNING" /\ Started(i) /\ Started(i)'
    <2>1. cursor'[i] = c
      BY <1>4 DEF IInv, CursorTyped
    <2> QED BY <1>1, <1>2, <1>5, <2>1, OpenFacts DEF Started
  <1>7. CallTyped'
    BY <1>1, <1>2, <1>6 DEF IInv, CallTyped, Called
  <1> QED BY <1>1, <1>2, <1>4, <1>5, <1>6, <1>7, LeaveKeeps

LEMMA EndOfHistoryKeeps ==
  ASSUME IInv, H!EndOfHistory, UNCHANGED <<event, set, from>>
  PROVE  IInv'
  <1>1. PICK i \in Simulations : i = call.it
    BY DEF IInv, CallTyped
  <1>2. H!Open /\ H!Complete /\ H!Me = cursor[i] /\ cursor[i].seg = 1 /\ UNCHANGED log
    BY <1>1, OpenFacts DEF H!EndOfHistory
  <1>3. PICK code \in {"END_HISTORY", "DATA_STORE_ERROR"} : call' = [call EXCEPT !.code = code]
    BY DEF H!EndOfHistory, H!Return
  <1> DEFINE c == [at |-> "closed", seg |-> 0, off |-> 0]
  <1>4. cursor' = [cursor EXCEPT ![i] = c]
    BY <1>1 DEF H!EndOfHistory
  <1>5. /\ c \in [at : {"unmade", "open", "closed"}, seg : Nat, off : Nat] /\ c.at = "closed"
        /\ c.seg = cursor[i].seg - 1 /\ c.off = 0 /\ c.seg = 0
    BY <1>2
  <1> HIDE DEF c
  <1>6. Started(i)'
    <2>1. cursor'[i] = c
      BY <1>4 DEF IInv, CursorTyped
    <2> QED BY <1>5, <2>1 DEF Started
  <1>7. /\ call' \in [op : {"none", "load", "get", "store"}, it : Simulations,
                      ev : Events \cup {NoEvent}, code : Codes]
        /\ call'.code = code /\ call'.op = call.op /\ call'.it = call.it /\ call'.ev = call.ev
    BY <1>3 DEF IInv, CallTyped, Codes
  <1>8. CallTyped'
    <2>1. Called /\ (call.op = "store" => call.ev = event)
      BY <1>1, <1>2, OpenFacts DEF IInv, CallTyped
    <2> QED BY <1>1, <1>6, <1>7, <2>1 DEF CallTyped, Called
  <1> QED BY <1>1, <1>2, <1>4, <1>5, <1>7, <1>8, LeaveKeeps

\* Passing an event, whether it was read or has just been appended: only the
\* iterator's segment may have changed, which was not complete, and at its end.
OtherSegmentsStay(k) == Len(log') = Len(log) /\ \A s \in 1..Len(log) : s # k => log'[s] = log[s]
OnlyIfIncomplete(k) ==
  log' = log \/ ~(log[k].request # Unlimited /\ Len(log[k].events) >= log[k].request)
EventsStay(k) ==
  /\ Len(log[k].events) <= Len(log'[k].events) /\ Len(log'[k].events) \in Nat
  /\ \A n \in 0..Len(log[k].events) : SubSeq(log'[k].events, 1, n) = SubSeq(log[k].events, 1, n)
NextIs(k, n, e) ==
  /\ n + 1 <= Len(log'[k].events)
  /\ SubSeq(log'[k].events, 1, n + 1) = Append(SubSeq(log[k].events, 1, n), e)

LEMMA PassKeeps ==
  ASSUME IInv, NEW i \in Simulations, i = call.it, H!Open,
         NEW e \in Events, H!Advance, UNCHANGED <<event, set, from>>,
         call'.it = i, call'.code \in {"LOADED", "STORED"}, call'.ev = e, CallTyped',
         LogTyped', SegmentsFit', OtherSegmentsStay(cursor[i].seg),
         OnlyIfIncomplete(cursor[i].seg), EventsStay(cursor[i].seg),
         NextIs(cursor[i].seg, cursor[i].off, e)
  PROVE  IInv'
  <1>1. LogTyped /\ CursorTyped /\ FromTyped /\ SegmentsFit /\ PassedComplete /\ SetLags
    BY DEF IInv
  <1>2. /\ cursor[i].at = "open" /\ Started(i) /\ call.code = "RUNNING"
        /\ cursor[i].seg \in 1..Len(log) /\ Len(log) \in Nat
        /\ cursor[i] \in [at : {"unmade", "open", "closed"}, seg : Nat, off : Nat]
        /\ from[i].seg \in 1..Len(log) /\ cursor[i].seg <= from[i].seg
        /\ cursor[i].off <= Len(log[cursor[i].seg].events)
        /\ Len(log[cursor[i].seg].events) \in Nat
    BY OpenFacts
  <1> DEFINE c == [cursor[i] EXCEPT !.off = @ + 1]
  <1>3. /\ c \in [at : {"unmade", "open", "closed"}, seg : Nat, off : Nat]
        /\ c.at = "open" /\ c.seg = cursor[i].seg /\ c.off = cursor[i].off + 1
    <2> DEFINE r == cursor[i]
    <2>1. r \in [at : {"unmade", "open", "closed"}, seg : Nat, off : Nat] /\ r.at = "open"
      BY <1>2
    <2> HIDE DEF r
    <2>2. /\ [r EXCEPT !.off = @ + 1] \in [at : {"unmade", "open", "closed"}, seg : Nat, off : Nat]
          /\ [r EXCEPT !.off = @ + 1].at = "open"
          /\ [r EXCEPT !.off = @ + 1].seg = r.seg /\ [r EXCEPT !.off = @ + 1].off = r.off + 1
      BY <2>1
    <2> QED BY <2>2 DEF r
  <1>4. cursor' = [cursor EXCEPT ![i] = c]
    BY DEF H!Advance
  <1> HIDE DEF c
  <1>5. /\ cursor' \in [Simulations -> [at : {"unmade", "open", "closed"}, seg : Nat, off : Nat]]
        /\ cursor'[i] = c /\ \A j \in Simulations \ {i} : cursor'[j] = cursor[j]
    BY <1>1, <1>3, <1>4 DEF CursorTyped
  <1>6. Started(i)' /\ \A j \in Simulations \ {i} : Started(j)' = Started(j)
    BY <1>2, <1>3, <1>5 DEF Started
  <1>7. \A j \in Simulations : cursor'[j].seg = cursor[j].seg /\ (Started(j)' => Started(j))
    BY <1>2, <1>3, <1>5, <1>6
  <1>8. ASSUME NEW j \in Simulations, Started(j), NEW s \in (cursor[j].seg + 1)..from[j].seg
        PROVE  s \in 1..Len(log) /\ log'[s] = log[s]
    <2>1. s \in 1..Len(log)
      <3>1. cursor[j].seg \in Nat /\ from[j].seg \in 1..Len(log) /\ Len(log) \in Nat
        BY <1>1, <1>2, <1>8 DEF CursorTyped, FromTyped
      <3> QED BY <1>8, <3>1
    <2>2. log[s].request # Unlimited /\ Len(log[s].events) >= log[s].request
      BY <1>1, <1>8 DEF PassedComplete
    <2>3. s # cursor[i].seg \/ log' = log
      BY <2>2 DEF OnlyIfIncomplete
    <2> QED BY <2>1, <2>3 DEF OtherSegmentsStay
  <1>9. CursorTyped'
    <2> SUFFICES ASSUME NEW j \in Simulations
                 PROVE  IF cursor'[j].at = "open"
                        THEN /\ cursor'[j].seg \in 1..Len(log')
                             /\ cursor'[j].off <= Len(log'[cursor'[j].seg].events)
                        ELSE cursor'[j].seg = 0 /\ cursor'[j].off = 0
      BY <1>5 DEF CursorTyped
    <2>1. CASE j = i
      BY <1>2, <1>3, <1>5, <2>1 DEF OtherSegmentsStay, NextIs
    <2>2. CASE j # i /\ cursor[j].at = "open"
      <3>1. /\ cursor[j].seg \in 1..Len(log) /\ cursor[j].off \in Nat
            /\ cursor[j].off <= Len(log[cursor[j].seg].events)
        BY <1>1, <2>2 DEF CursorTyped
      <3>2. cursor[j].off <= Len(log'[cursor[j].seg].events)
        <4>1. CASE cursor[j].seg = cursor[i].seg
          <5> DEFINE m == Len(log[cursor[i].seg].events)
                     n == Len(log'[cursor[i].seg].events)
          <5>1. /\ m \in Nat /\ n \in Nat /\ m <= n
                /\ cursor[j].off \in Nat /\ cursor[j].off <= m
            BY <1>2, <3>1, <4>1 DEF EventsStay
          <5>2. Len(log'[cursor[j].seg].events) = n
            BY <4>1
          <5> HIDE DEF m, n
          <5> QED BY <5>1, <5>2
        <4>2. CASE cursor[j].seg # cursor[i].seg
          BY <3>1, <4>2 DEF OtherSegmentsStay
        <4> QED BY <4>1, <4>2
      <3> QED BY <1>5, <2>2, <3>1, <3>2 DEF OtherSegmentsStay
    <2>3. CASE j # i /\ cursor[j].at # "open"
      BY <1>1, <1>5, <2>3 DEF CursorTyped
    <2> QED BY <2>1, <2>2, <2>3
  <1>10. FromTyped'
    BY <1>1, <1>7 DEF FromTyped, OtherSegmentsStay
  <1>11. PassedComplete'
    <2> SUFFICES ASSUME NEW j \in Simulations, Started(j)',
                        NEW s \in (cursor'[j].seg + 1)..from'[j].seg
                 PROVE  log'[s].request # Unlimited /\ Len(log'[s].events) >= log'[s].request
      BY DEF PassedComplete
    <2>1. Started(j) /\ s \in (cursor[j].seg + 1)..from[j].seg
      BY <1>7
    <2>2. log'[s] = log[s]
      BY <1>8, <2>1
    <2> QED BY <1>1, <2>1, <2>2 DEF PassedComplete
  <1>12. SetLags'
    <2> SUFFICES ASSUME NEW j \in Simulations, Started(j)'
                 PROVE  Upcoming(j)' = FoldLeft(ApplySet, from[j].set, Past(j)')
      BY DEF SetLags
    <2>1. Started(j) /\ Upcoming(j) = set[j]
      BY <1>2, <1>7 DEF Upcoming
    <2>2. set[j] = FoldLeft(ApplySet, from[j].set, Past(j))
      BY <1>1, <2>1 DEF SetLags
    <2>3. CASE j = i
      <3>1. Past(i)' = Append(Past(i), e)
        <4>1. cursor'[i] = [cursor[i] EXCEPT !.off = @ + 1]
          BY <1>5 DEF c
        <4>2. \A s \in (cursor[i].seg + 1)..from[i].seg : log'[s].events = log[s].events
          BY <1>2, <1>8
        <4> QED BY <1>1, <1>2, <4>1, <4>2, PastAppends DEF NextIs
      <3>2. Past(i) \in Seq(Events)
        BY <1>1, <1>2, PastTyped
      <3>3. FoldLeft(ApplySet, from[i].set, Past(i)') =
              ApplySet(FoldLeft(ApplySet, from[i].set, Past(i)), e)
        BY <3>1, <3>2, FoldAppend
      <3>4. Upcoming(i)' = ApplySet(set[i], e)
        BY DEF Upcoming
      <3> QED BY <2>2, <2>3, <3>3, <3>4
    <2>4. CASE j # i
      <3>1. Upcoming(j)' = set[j]
        BY <2>4 DEF Upcoming
      <3>2. Past(j)' = Past(j)
        <4>1. cursor[j].seg # 0 => /\ cursor[j].seg \in 1..Len(log) /\ cursor[j].off \in Nat
                                   /\ cursor[j].off <= Len(log[cursor[j].seg].events)
          BY <1>1 DEF CursorTyped
        <4>2. cursor[j].seg # 0 => SubSeq(log'[cursor[j].seg].events, 1, cursor[j].off) =
                                   SubSeq(log[cursor[j].seg].events, 1, cursor[j].off)
          <5>1. CASE cursor[j].seg = cursor[i].seg
            <6> DEFINE m == Len(log[cursor[i].seg].events)
            <6>1. cursor[j].seg # 0 => cursor[j].off \in 0..m
              BY <1>2, <4>1, <5>1
            <6> QED BY <5>1, <6>1 DEF EventsStay
          <5>2. CASE cursor[j].seg # cursor[i].seg
            BY <4>1, <5>2 DEF OtherSegmentsStay
          <5> QED BY <5>1, <5>2
        <4>3. \A s \in (cursor[j].seg + 1)..from[j].seg : log'[s].events = log[s].events
          BY <1>8, <2>1
        <4> QED BY <1>1, <1>5, <2>1, <2>4, <4>2, <4>3, PastKept
      <3> QED BY <2>2, <3>1, <3>2
    <2> QED BY <2>3, <2>4
  <1>13. SetTyped'
    BY DEF IInv, SetTyped
  <1> QED BY <1>9, <1>10, <1>11, <1>12, <1>13 DEF IInv

LEMMA ReadKeeps == ASSUME IInv, H!Read, UNCHANGED <<event, set, from>> PROVE IInv'
  <1>1. PICK i \in Simulations : i = call.it
    BY DEF IInv, CallTyped
  <1>2. H!Open /\ UNCHANGED log /\ ~H!AtEnd /\ call.op \in {"load", "get"}
    BY DEF H!Read, H!Reading
  <1>3. /\ cursor[i] \in [at : {"unmade", "open", "closed"}, seg : Nat, off : Nat]
        /\ Started(i) /\ Called /\ cursor[i].seg \in 1..Len(log)
        /\ cursor[i].off <= Len(log[cursor[i].seg].events)
        /\ log[cursor[i].seg].events \in Seq(Events) /\ Len(log[cursor[i].seg].events) \in Nat
        /\ H!Me = cursor[i] /\ H!Segment = log[cursor[i].seg]
    BY <1>1, <1>2, OpenFacts
  <1> DEFINE w == log[cursor[i].seg].events
             n == cursor[i].off
             e == w[n + 1]
  <1>4. w \in Seq(Events) /\ Len(w) \in Nat /\ n \in Nat /\ n + 1 \in 1..Len(w) /\ n + 1 <= Len(w)
    <2>1. n \in Nat
      BY <1>3
    <2>2. n # Len(w) /\ n <= Len(w) /\ Len(w) \in Nat /\ w \in Seq(Events)
      BY <1>2, <1>3 DEF H!AtEnd
    <2> HIDE DEF n, w
    <2> QED BY <2>1, <2>2
  <1>5. e \in Events
    <2> HIDE DEF w, n
    <2> QED BY <1>4, ElementOfSeq
  <1>6. H!Segment.events[H!Me.off + 1] = e
    BY <1>3
  <1>7. H!Advance /\ call' = [call EXCEPT !.ev = e, !.code = "LOADED"]
    BY <1>6 DEF H!Read
  <1>8. NextIs(cursor[i].seg, cursor[i].off, e)
    <2>1. SubSeq(w, 1, n + 1) = Append(SubSeq(w, 1, n), e)
      <3> HIDE DEF w, n
      <3>1. 1 \in 1..Len(w) /\ n + 1 \in 1..Len(w) /\ (n + 1) - 1 = n
        BY <1>4
      <3>2. SubSeq(w, 1, n + 1) = SubSeq(w, 1, n) \o <<e>>
        BY <1>4, <3>1, SubSeqRecursiveSecond
      <3>3. SubSeq(w, 1, n) \in Seq(Events)
        <4>1. \A k \in 1..n : w[k] \in Events
          BY <1>4, ElementOfSeq
        <4> QED BY <1>4, <4>1, SubSeqProperties
      <3> QED BY <1>5, <3>2, <3>3, AppendIsConcat
    <2> QED BY <1>2, <1>4, <2>1 DEF NextIs
  <1> HIDE DEF e
  <1>9. /\ call' \in [op : {"none", "load", "get", "store"}, it : Simulations,
                      ev : Events \cup {NoEvent}, code : Codes]
        /\ call'.op = call.op /\ call'.it = call.it /\ call'.ev = e /\ call'.code = "LOADED"
    BY <1>5, <1>7 DEF IInv, CallTyped, Codes
  <1>10. Started(i)'
    <2>1. cursor'[i].at = cursor[i].at
      BY <1>1, <1>3, <1>7 DEF H!Advance, IInv, CursorTyped
    <2> QED BY <1>3, <2>1 DEF Started
  <1>11. CallTyped'
    BY <1>1, <1>2, <1>5, <1>9, <1>10 DEF CallTyped, Called
  <1>12. LogTyped' /\ SegmentsFit'
    BY <1>2 DEF IInv, LogTyped, SegmentsFit
  <1>13. /\ OtherSegmentsStay(cursor[i].seg) /\ OnlyIfIncomplete(cursor[i].seg)
         /\ EventsStay(cursor[i].seg)
    BY <1>2, <1>3 DEF OtherSegmentsStay, OnlyIfIncomplete, EventsStay
  <1> QED BY <1>1, <1>2, <1>5, <1>7, <1>8, <1>9, <1>11, <1>12, <1>13, PassKeeps

LEMMA AppendKeeps == ASSUME IInv, H!Append1, UNCHANGED <<event, set, from>> PROVE IInv'
  <1>1. PICK i \in Simulations : i = call.it
    BY DEF IInv, CallTyped
  <1> DEFINE s == cursor[i].seg
             w == log[s].events
             e == call.ev
             R == [request : Requests \cup {Unlimited}, events : Seq(Events)]
  <1>2. /\ H!Open /\ ~H!Complete /\ ~H!Reading /\ H!Me = cursor[i] /\ H!Segment = log[s]
        /\ e \notin {NoEvent} /\ cursor[i].off = Len(w) /\ H!Advance
        /\ log' = [log EXCEPT ![s].events = Append(@, e)]
        /\ call' = [call EXCEPT !.code = "STORED"]
    BY <1>1, OpenFacts DEF H!Append1, H!AtEnd, H!Return
  <1>3. /\ cursor[i] \in [at : {"unmade", "open", "closed"}, seg : Nat, off : Nat]
        /\ Started(i) /\ Called /\ s \in 1..Len(log) /\ Len(log) \in Nat
        /\ w \in Seq(Events) /\ Len(w) \in Nat
    BY <1>1, <1>2, OpenFacts
  <1>4. /\ call \in [op : {"none", "load", "get", "store"}, it : Simulations,
                     ev : Events \cup {NoEvent}, code : Codes]
        /\ call.op = "store" /\ e = event /\ e \in Events
    BY <1>2, <1>3 DEF IInv, CallTyped, Called, H!Reading
  <1>5. log \in Seq(R) /\ log[s] \in R
    BY <1>3, SegmentTyped DEF IInv, LogTyped
  <1> DEFINE new == [log[s] EXCEPT !.events = Append(@, e)]
             v == Append(w, e)
  <1>6. /\ v \in Seq(Events) /\ Len(v) = Len(w) + 1
        /\ \A n \in 0..Len(w) : SubSeq(v, 1, n) = SubSeq(w, 1, n)
        /\ SubSeq(v, 1, Len(w) + 1) = v /\ SubSeq(w, 1, Len(w)) = w
    <2> HIDE DEF w, e
    <2>1. v \in Seq(Events) /\ Len(v) = Len(w) + 1 /\ v = w \o <<e>> /\ <<e>> \in Seq(Events)
      BY <1>3, <1>4, AppendIsConcat
    <2>2. ASSUME NEW n \in 0..Len(w) PROVE SubSeq(v, 1, n) = SubSeq(w, 1, n)
      <3>1. CASE n = 0
        BY <3>1, SubSeqEmpty
      <3>2. CASE n # 0
        <4>1. n \in 1..Len(w) /\ 1 \in 1..Len(w)
          BY <1>3, <3>2
        <4> HIDE DEF v
        <4> QED BY <1>3, <2>1, <4>1, SubSeqOfConcat1
      <3> QED BY <3>1, <3>2
    <2>3. SubSeq(v, 1, Len(v)) = v /\ SubSeq(w, 1, Len(w)) = w
      <3> HIDE DEF v
      <3> QED BY <1>3, <2>1, SubSeqFull
    <2> QED BY <2>1, <2>2, <2>3
  <1>7. new \in R /\ new.events = v /\ new.request = log[s].request
    <2> HIDE DEF w, e, v, s
    <2>1. v \in Seq(Events)
      BY <1>6
    <2> QED BY <1>5, <2>1 DEF v, w
  <1>8. /\ log' \in Seq(R) /\ Len(log') = Len(log) /\ log'[s] = new
        /\ \A k \in 1..Len(log) : k # s => log'[k] = log[k]
    <2>1. log' = [log EXCEPT ![s] = new]
      BY <1>2
    <2> HIDE DEF new, R, s
    <2> QED BY <1>3, <1>5, <1>7, <2>1, ExceptSeq
  <1> HIDE DEF new, v
  <1>9. LogTyped'
    BY <1>8 DEF LogTyped
  <1>10. log[s].request # Unlimited => Len(w) + 1 <= log[s].request
    <2>1. ~(log[s].request # Unlimited /\ Len(w) >= log[s].request)
      BY <1>2 DEF H!Complete
    <2>2. log[s].request # Unlimited => log[s].request \in Nat
      BY <1>5, RequestsAssumption
    <2> HIDE DEF w
    <2> QED BY <1>3, <2>1, <2>2
  <1>11. SegmentsFit'
    <2> SUFFICES ASSUME NEW k \in 1..Len(log), log'[k].request # Unlimited
                 PROVE  Len(log'[k].events) <= log'[k].request
      BY <1>8, LenProperties DEF SegmentsFit
    <2>1. CASE k = s
      BY <1>6, <1>7, <1>8, <1>10, <2>1
    <2>2. CASE k # s
      <3>1. k \in DOMAIN log
        BY <1>5, LenProperties
      <3> QED BY <1>8, <2>2, <3>1 DEF SegmentsFit, IInv
    <2> QED BY <2>1, <2>2
  <1>12. OtherSegmentsStay(s) /\ OnlyIfIncomplete(s)
    BY <1>2, <1>8 DEF OtherSegmentsStay, OnlyIfIncomplete, H!Complete
  <1>13. EventsStay(s)
    <2>1. log'[s].events = v /\ Len(w) <= Len(v) /\ Len(v) \in Nat
      BY <1>3, <1>6, <1>7, <1>8
    <2> QED BY <1>6, <2>1 DEF EventsStay
  <1>14. NextIs(s, cursor[i].off, e)
    <2>1. log'[s].events = v /\ Len(w) + 1 <= Len(v)
      BY <1>3, <1>6, <1>7, <1>8
    <2>2. SubSeq(v, 1, Len(w) + 1) = Append(SubSeq(w, 1, Len(w)), e)
      BY <1>6 DEF v
    <2> QED BY <1>2, <2>1, <2>2 DEF NextIs
  <1>15. /\ call' \in [op : {"none", "load", "get", "store"}, it : Simulations,
                       ev : Events \cup {NoEvent}, code : Codes]
         /\ call'.op = call.op /\ call'.it = call.it /\ call'.ev = e /\ call'.code = "STORED"
    BY <1>2, <1>4 DEF Codes
  <1>16. Started(i)'
    <2>1. cursor'[i].at = cursor[i].at
      BY <1>1, <1>2, <1>3 DEF H!Advance, IInv, CursorTyped
    <2> QED BY <1>3, <2>1 DEF Started
  <1>17. CallTyped'
    BY <1>1, <1>4, <1>15, <1>16 DEF CallTyped, Called
  <1> QED BY <1>1, <1>2, <1>4, <1>9, <1>11, <1>12, <1>13, <1>14, <1>15, <1>17, PassKeeps

LEMMA HistoryStepKeeps == ASSUME IInv, HistoryStep PROVE IInv'
  <1>1. H!Step /\ UNCHANGED <<event, set, from>>
    BY DEF HistoryStep
  <1>2. CASE H!Abort
    BY <1>1, <1>2, ReturnKeeps DEF H!Abort, H!Running, Codes
  <1>3. CASE H!Cross
    BY <1>1, <1>3, CrossKeeps
  <1>4. CASE H!EndOfHistory
    BY <1>1, <1>4, EndOfHistoryKeeps
  <1>5. CASE H!EndOfData
    <2>1. /\ call.code = "RUNNING" /\ UNCHANGED <<log, cursor>>
          /\ H!Return("END_DATA") \/ H!Return("DATA_STORE_ERROR") \/ H!Return("ABORTED")
      BY <1>5 DEF H!EndOfData, H!Open, H!Running
    <2> QED BY <1>1, <2>1, ReturnKeeps DEF Codes
  <1>6. CASE H!Read
    BY <1>1, <1>6, ReadKeeps
  <1>7. CASE H!NotAtEnd
    BY <1>1, <1>7, ReturnKeeps DEF H!NotAtEnd, H!Open, H!Running, Codes
  <1>8. CASE H!Refuse
    <2>1. /\ call.code = "RUNNING" /\ UNCHANGED <<log, cursor>>
          /\ H!Return("STORE_INVALID_EVENT")
      BY <1>8 DEF H!Refuse, H!Refusals, H!Open, H!Running
    <2> QED BY <1>1, <2>1, ReturnKeeps DEF Codes
  <1>9. CASE H!Append1
    BY <1>1, <1>9, AppendKeeps
  <1> QED BY <1>1, <1>2, <1>3, <1>4, <1>5, <1>6, <1>7, <1>8, <1>9 DEF H!Step

LEMMA InitInvariant == ASSUME Init PROVE IInv
  <1>1. /\ log = << >> /\ event = NoEvent /\ set \in [Simulations -> Starts]
        /\ cursor = [i \in Simulations |-> [at |-> "unmade", seg |-> 0, off |-> 0]]
        /\ call \in [op : {"none"}, it : Simulations, ev : {NoEvent}, code : {"NONE"}]
        /\ from = [i \in Simulations |-> [seg |-> 0, set |-> set[i]]]
    BY DEF Init, H!Init
  <1>2. Starts \subseteq Boxes
    BY StartsAssumption DEF Boxes
  <1>3. LogTyped /\ SegmentsFit
    <2>1. DOMAIN log = {}
      BY <1>1
    <2>2. LogTyped
      BY <1>1, EmptySeq DEF LogTyped
    <2> QED BY <2>1, <2>2 DEF SegmentsFit
  <1>4. \A i \in Simulations : ~Started(i)
    BY <1>1 DEF Started
  <1>5. CursorTyped
    BY <1>1 DEF CursorTyped
  <1>6. FromTyped /\ PassedComplete /\ SetLags
    <2>1. from \in [Simulations -> [seg : Nat, set : Boxes]]
      BY <1>1, <1>2
    <2> QED BY <1>4, <2>1 DEF FromTyped, PassedComplete, SetLags
  <1>7. CallTyped
    BY <1>1 DEF CallTyped, Called, Codes
  <1>8. SetTyped
    BY <1>1, <1>2 DEF SetTyped
  <1> QED BY <1>3, <1>5, <1>6, <1>7, <1>8 DEF IInv

LEMMA NextInvariant == ASSUME IInv, [Next]_vars PROVE IInv'
  <1>1. ASSUME NEW i \in Simulations, Load(i) PROVE IInv'
    <2>1. PICK op \in {"load", "get"} : H!Invoke(op, i, NoEvent)
      BY <1>1 DEF Load
    <2> QED BY <1>1, <2>1, InvokeKeeps DEF Load
  <1>2. ASSUME NEW i \in Simulations, Store(i) PROVE IInv'
    <2>1. event \in Events \cup {NoEvent}
      BY DEF IInv, SetTyped
    <2> QED BY <1>2, <2>1, InvokeKeeps DEF Store
  <1>3. CASE UNCHANGED vars
    <2>1. UNCHANGED <<log, cursor, from>> /\ UNCHANGED <<call, event, set>>
      BY <1>3 DEF vars
    <2>2. SetLags'
      BY <2>1, LagsKept DEF Upcoming
    <2>3. CallTyped' /\ SetTyped'
      BY <2>1 DEF IInv, CallTyped, SetTyped, Called, Started
    <2> QED BY <2>1, <2>2, <2>3, QuietKeeps DEF IInv
  <1> QED BY <1>1, <1>2, <1>3, StartKeeps, BackwardKeeps, GenerateKeeps, HistoryStepKeeps,
             ProceedKeeps DEF Next

\* The inductive invariant: the set of every simulation is where the events its
\* iterator has passed lead, at most one event late.
THEOREM SimulationInvariant == Spec => []IInv
  <1>1. Init => IInv
    BY InitInvariant
  <1>2. IInv /\ [Next]_vars => IInv'
    BY NextInvariant
  <1> QED BY <1>1, <1>2, PTL DEF Spec

\* No event of the history is skipped, repeated, applied to another set or
\* applied late, whatever is stored, loaded or put in front in between: for any
\* number of simulations, any queues and transitions, any requests.
THEOREM SetsFollowHistory == Spec => []SetFollowsHistory
  <1>1. IInv => SetFollowsHistory
    <2> SUFFICES ASSUME IInv, ~Called, NEW i \in Simulations, Started(i)
                 PROVE  set[i] = FoldLeft(ApplySet, from[i].set, Past(i))
      BY DEF SetFollowsHistory
    <2>1. Upcoming(i) = set[i]
      BY DEF IInv, CallTyped, Upcoming
    <2> QED BY <2>1 DEF IInv, SetLags
  <1> QED BY <1>1, SimulationInvariant, PTL

----------------------------------------------------------------------------
(* Monotone transitions: the corners of a set keep their order, and the     *)
(* sample of a perfect simulation is final.                                 *)

SetsOrdered == \A i \in Simulations : Ordered(set[i]) /\ Ordered(from[i].set)

LEMMA NextOrdered ==
  ASSUME Jsqs = {}, IInv, SetsOrdered, [Next]_vars
  PROVE  SetsOrdered'
  <1>1. SetTyped /\ FromTyped
    BY DEF IInv
  <1>2. CASE UNCHANGED <<set, from>>
    BY <1>2 DEF SetsOrdered
  <1>3. ASSUME NEW i \in Simulations, NEW s \in Starts, Start(i, s) PROVE SetsOrdered'
    <2>1. /\ set' = [set EXCEPT ![i] = s]
          /\ from' = [from EXCEPT ![i] = [seg |-> Len(log'), set |-> s]]
      BY <1>3 DEF Start
    <2>2. Ordered(s)
      BY StartsAssumption DEF Ordered
    <2> SUFFICES ASSUME NEW j \in Simulations PROVE Ordered(set'[j]) /\ Ordered(from'[j].set)
      BY DEF SetsOrdered
    <2>3. CASE j = i
      <3>1. set'[j] = s /\ from'[j].set = s
        BY <1>1, <2>1, <2>3 DEF SetTyped, FromTyped
      <3> QED BY <2>2, <3>1
    <2>4. CASE j # i
      <3>1. set'[j] = set[j] /\ from'[j] = from[j]
        BY <1>1, <2>1, <2>4 DEF SetTyped, FromTyped
      <3> QED BY <3>1 DEF SetsOrdered
    <2> QED BY <2>3, <2>4
  <1>4. CASE Proceed
    <2>1. /\ from' = from
          /\ set' = set \/ /\ call.code \in {"LOADED", "STORED"}
                           /\ set' = [set EXCEPT ![call.it] = ApplySet(@, event')]
      BY <1>4 DEF Proceed
    <2>2. call.code \in {"LOADED", "STORED"} => event' \in Events
      BY <1>4 DEF Proceed, IInv, CallTyped
    <2> SUFFICES ASSUME NEW j \in Simulations PROVE Ordered(set'[j]) /\ Ordered(from'[j].set)
      BY DEF SetsOrdered
    <2>3. set'[j] = set[j] \/ (set'[j] = ApplySet(set[j], event') /\ event' \in Events)
      <3>1. set \in [Simulations -> Boxes]
        BY <1>1 DEF SetTyped
      <3>2. CASE set' = set
        BY <3>2
      <3>3. CASE /\ call.code \in {"LOADED", "STORED"}
                 /\ set' = [set EXCEPT ![call.it] = ApplySet(@, event')]
        <4>1. set'[j] = IF j = call.it THEN ApplySet(set[j], event') ELSE set[j]
          BY <3>1, <3>3
        <4> QED BY <2>2, <3>3, <4>1
      <3> QED BY <2>1, <3>2, <3>3
    <2>4. set[j] \in Boxes /\ Ordered(set[j]) /\ Ordered(from[j].set)
      BY <1>1 DEF SetTyped, SetsOrdered
    <2> QED BY <2>1, <2>3, <2>4, ApplySetOrdered
  <1> QED BY <1>2, <1>3, <1>4 DEF Next, Load, Store, Backward, Generate, HistoryStep, vars

LEMMA InitOrdered == ASSUME Init PROVE SetsOrdered
  <1>1. set \in [Simulations -> Starts] /\ \A i \in Simulations : from[i].set = set[i]
    BY DEF Init
  <1>2. \A s \in Starts : Ordered(s)
    BY StartsAssumption DEF Ordered
  <1> QED BY <1>1, <1>2 DEF SetsOrdered

LEMMA OrderedInvariant == ASSUME Jsqs = {} PROVE Spec => []SetsOrdered
  <1>1. Init => SetsOrdered
    BY InitOrdered
  <1>2. IInv /\ SetsOrdered /\ [Next]_vars => SetsOrdered'
    BY NextOrdered
  <1> QED BY <1>1, <1>2, SimulationInvariant, PTL DEF Spec

\* The sets are boxes of points with their corners in order, the segments hold
\* events of the transitions.
THEOREM TypeCorrect == ASSUME Jsqs = {} PROVE Spec => []TypeOK
  <1>1. IInv /\ SetsOrdered => TypeOK
    <2> SUFFICES ASSUME IInv, SetsOrdered PROVE TypeOK
      OBVIOUS
    <2>1. \A s \in DOMAIN log : log[s].request \in Requests \cup {Unlimited}
                                /\ log[s].events \in Seq(Events)
      <3>1. LogTyped /\ DOMAIN log = 1..Len(log)
        BY LenProperties DEF IInv, LogTyped
      <3> QED BY <3>1, SegmentTyped
    <2>2. event \in Events \cup {NoEvent} /\ set \in [Simulations -> [inf : Points, sup : Points]]
      BY DEF IInv, SetTyped, Boxes
    <2>3. \A i \in Simulations : Leq(set[i].inf, set[i].sup)
      BY DEF SetsOrdered, Ordered
    <2> QED BY <2>1, <2>2, <2>3 DEF TypeOK
  <1> QED BY <1>1, SimulationInvariant, OrderedInvariant, PTL

LEMMA LeqTransitive ==
  ASSUME NEW p \in Points, NEW r \in Points, NEW x \in Points, Leq(p, r), Leq(r, x)
  PROVE  Leq(p, x)
  <1>1. ASSUME NEW q \in Queues PROVE p[q] <= x[q]
    <2>1. p[q] \in Nat /\ r[q] \in Nat /\ x[q] \in Nat
      BY PointValues
    <2>2. p[q] <= r[q] /\ r[q] <= x[q]
      BY DEF Leq
    <2> QED BY <2>1, <2>2
  <1> QED BY <1>1 DEF Leq

LEMMA LeqAntisymmetric ==
  ASSUME NEW p \in Points, NEW r \in Points, Leq(p, r), Leq(r, p)
  PROVE  p = r
  <1>1. ASSUME NEW q \in Queues PROVE p[q] = r[q]
    <2>1. p[q] \in Nat /\ r[q] \in Nat
      BY PointValues
    <2>2. p[q] <= r[q] /\ r[q] <= p[q]
      BY DEF Leq
    <2> QED BY <2>1, <2>2
  <1> QED BY <1>1 DEF Points

\* All the states are in the set All.
LEMMA AllIsBox == All \in Boxes /\ \A b \in Boxes : Within(b, All)
  <1> DEFINE bottom == [q \in Queues |-> 0]
             top == [q \in Queues |-> IF q \in Standard THEN Capacity[q] ELSE 0]
  <1>1. All = [inf |-> bottom, sup |-> top]
    BY DEF All
  <1>2. bottom \in Points
    <2>1. /\ bottom \in [Queues -> Nat]
          /\ \A q \in Standard : bottom[q] <= Capacity[q]
          /\ \A q \in Outside : bottom[q] = 0
      BY QueuesAssumption DEF Queues
    <2> HIDE DEF bottom
    <2> QED BY <2>1, PointByValues
  <1>3. top \in Points
    <2>1. /\ top \in [Queues -> Nat]
          /\ \A q \in Standard : top[q] <= Capacity[q]
          /\ \A q \in Outside : top[q] = 0
      BY QueuesAssumption DEF Queues
    <2> HIDE DEF top
    <2> QED BY <2>1, PointByValues
  <1>4. ASSUME NEW p \in Points PROVE Leq(bottom, p) /\ Leq(p, top)
    <2> SUFFICES ASSUME NEW q \in Queues PROVE bottom[q] <= p[q] /\ p[q] <= top[q]
      BY DEF Leq
    <2>1. p[q] \in Nat /\ (q \in Standard => p[q] <= Capacity[q]) /\ (q \in Outside => p[q] = 0)
      BY PointValues
    <2> QED BY <2>1 DEF Queues
  <1> HIDE DEF bottom, top
  <1> QED BY <1>1, <1>2, <1>3, <1>4 DEF Boxes, Within

\* A finished simulation that started further back has passed what another
\* one has passed, after something else.
LEMMA PastOfFinished ==
  ASSUME LogTyped, CursorTyped, FromTyped, NEW i \in Simulations, NEW j \in Simulations,
         Started(i), Started(j), Finished(i), Finished(j), from[i].seg >= from[j].seg
  PROVE  \E P \in Seq(Events) : Past(i) = P \o Past(j) /\ Past(j) \in Seq(Events)
  <1> DEFINE a == from[i].seg
             b == from[j].seg
             w(n) == log[n].events
             P == [n \in 1..(a - b) |-> w(a + 1 - n)]
             U == Whole(i)
             V == Whole(j)
  <1>1. /\ a \in 1..Len(log) /\ b \in 1..Len(log) /\ Len(log) \in Nat /\ b <= a
        /\ cursor[i].seg = 0 /\ cursor[j].seg = 0
    BY LenProperties DEF FromTyped, CursorTyped, Finished, LogTyped
  <1>2. /\ U \in Seq(Seq(Events)) /\ V \in Seq(Seq(Events)) /\ Len(U) = a /\ Len(V) = b
        /\ FlattenSeq(U) \in Seq(Events) /\ FlattenSeq(V) \in Seq(Events)
    <2>1. /\ Whole(i) \in Seq(Seq(Events)) /\ Len(Whole(i)) = a - cursor[i].seg
          /\ FlattenSeq(Whole(i)) \in Seq(Events)
      BY WholeTyped, Zenon
    <2>2. /\ Whole(j) \in Seq(Seq(Events)) /\ Len(Whole(j)) = b - cursor[j].seg
          /\ FlattenSeq(Whole(j)) \in Seq(Events)
      BY WholeTyped, Zenon
    <2>3. a - cursor[i].seg = a /\ b - cursor[j].seg = b
      BY <1>1
    <2> HIDE DEF a, b
    <2> QED BY <2>1, <2>2, <2>3, Zenon
  <1>3. /\ \A n \in 1..a : U[n] = w(a + 1 - n)
        /\ \A n \in 1..b : V[n] = w(b + 1 - n)
    <2>1. a - cursor[i].seg = a /\ b - cursor[j].seg = b
      BY <1>1
    <2> QED BY <2>1 DEF Whole
  <1>4. P \in Seq(Seq(Events)) /\ Len(P) = a - b
    <2>1. \A n \in 1..(a - b) : w(a + 1 - n) \in Seq(Events)
      <3> SUFFICES ASSUME NEW n \in 1..(a - b) PROVE w(a + 1 - n) \in Seq(Events)
        OBVIOUS
      <3>1. a + 1 - n \in 1..Len(log)
        BY <1>1
      <3> QED BY <3>1, SegmentTyped
    <2>2. P \in [1..(a - b) -> Seq(Events)] /\ a - b \in Nat
      BY <1>1, <2>1
    <2> HIDE DEF P
    <2> QED BY <2>2
  <1>5. \A n \in 1..(a - b) : P[n] = w(a + 1 - n)
    OBVIOUS
  <1> HIDE DEF P, U, V, w, a, b
  <1>6. U = P \o V
    <2> DEFINE T == Seq(Events)
    <2>0. P \in Seq(T) /\ V \in Seq(T)
      BY <1>2, <1>4
    <2> HIDE DEF T
    <2>1. /\ P \o V \in Seq(T) /\ Len(P \o V) = Len(P) + Len(V)
          /\ \A n \in 1..Len(P) + Len(V) : (P \o V)[n] =
                IF n <= Len(P) THEN P[n] ELSE V[n - Len(P)]
      BY <2>0, ConcatProperties, Zenon
    <2>2. Len(P \o V) = a
      BY <1>1, <1>2, <1>4, <2>1
    <2>3. ASSUME NEW n \in 1..a PROVE U[n] = (P \o V)[n]
      <3>1. (P \o V)[n] = IF n <= a - b THEN P[n] ELSE V[n - (a - b)]
        <4>1. n \in 1..Len(P) + Len(V)
          BY <1>1, <1>2, <1>4
        <4> QED BY <1>2, <1>4, <2>1, <4>1
      <3>2. CASE n <= a - b
        BY <1>1, <1>3, <1>5, <3>1, <3>2
      <3>3. CASE ~(n <= a - b)
        <4>1. n - (a - b) \in 1..b /\ b + 1 - (n - (a - b)) = a + 1 - n
          BY <1>1, <3>3
        <4>2. V[n - (a - b)] = w(a + 1 - n)
          BY <1>3, <4>1
        <4> QED BY <1>3, <3>1, <3>3, <4>2
      <3> QED BY <3>2, <3>3
    <2> QED BY <1>2, <2>1, <2>2, <2>3, SeqEqual DEF T
  <1>7. FlattenSeq(U) = FlattenSeq(P) \o FlattenSeq(V) /\ FlattenSeq(P) \in Seq(Events)
    BY <1>2, <1>4, <1>6, FlattenConcat, FlattenIsSeq
  <1>8. Past(i) = FlattenSeq(U) /\ Past(j) = FlattenSeq(V)
    <2>1. Part(i) = << >> /\ Part(j) = << >>
      BY <1>1 DEF Part
    <2>2. FlattenSeq(U) \o << >> = FlattenSeq(U) /\ FlattenSeq(V) \o << >> = FlattenSeq(V)
      BY <1>2, ConcatEmptySeq
    <2> QED BY <2>1, <2>2 DEF Past, U, V
  <1> QED BY <1>2, <1>7, <1>8

\* What a simulation from all the states found once they have met at the end
\* of the history is what any simulation that starts further back finds: the
\* sample does not depend on how far in the past the simulation went.
THEOREM SamplesAreFinal == ASSUME Jsqs = {} PROVE Spec => []SampleIsFinal
  <1>1. IInv /\ SetsOrdered /\ SetFollowsHistory => SampleIsFinal
    <2> SUFFICES ASSUME IInv, SetsOrdered, SetFollowsHistory, ~Called,
                        NEW i \in Simulations, NEW j \in Simulations,
                        FurtherBack(i, j), Finished(i), Finished(j), set[j].inf = set[j].sup
                 PROVE  set[i] = set[j]
      BY DEF SampleIsFinal
    <2>1. Started(i) /\ Started(j) /\ from[i].seg >= from[j].seg /\ from[j].set = All
      BY DEF FurtherBack
    <2>2. LogTyped /\ CursorTyped /\ FromTyped
      BY DEF IInv
    <2>3. PICK P \in Seq(Events) : Past(i) = P \o Past(j) /\ Past(j) \in Seq(Events)
      BY <2>1, <2>2, PastOfFinished
    <2> DEFINE b == from[i].set
               q == Past(j)
               met == Lead(b, P)
    <2>4. b \in Boxes /\ Ordered(b) /\ q \in Seq(Events)
      BY <2>2, <2>3 DEF FromTyped, SetsOrdered
    <2>5. set[i] = Lead(b, P \o q) /\ set[j] = Lead(All, q)
      BY <2>1, <2>3 DEF SetFollowsHistory, Lead
    <2> HIDE DEF b, q
    <2>6. met \in Boxes /\ Ordered(met) /\ Lead(b, P \o q) = Lead(met, q)
      BY <2>4, LeadIsBox, LeadOrdered, LeadConcat
    <2> HIDE DEF met
    <2>7. /\ Lead(met, q) \in Boxes /\ Ordered(Lead(met, q)) /\ Lead(All, q) \in Boxes
          /\ Within(Lead(met, q), Lead(All, q))
      BY <2>4, <2>6, AllIsBox, LeadIsBox, LeadOrdered, LeadMonotone
    <2>8. /\ set[i] \in Boxes /\ set[j] \in Boxes /\ Leq(set[i].inf, set[i].sup)
          /\ Leq(set[j].inf, set[i].inf) /\ Leq(set[i].sup, set[j].sup)
      BY <2>5, <2>6, <2>7 DEF Ordered, Within
    <2> DEFINE x == set[i]
               y == set[j]
    <2>9. /\ x \in Boxes /\ y \in Boxes /\ y.inf = y.sup
          /\ Leq(x.inf, x.sup) /\ Leq(y.inf, x.inf) /\ Leq(x.sup, y.sup)
      BY <2>8
    <2> HIDE DEF x, y
    <2>10. /\ x.inf \in Points /\ x.sup \in Points /\ y.inf \in Points /\ y.sup \in Points
           /\ x = [inf |-> x.inf, sup |-> x.sup] /\ y = [inf |-> y.inf, sup |-> y.sup]
      BY <2>9 DEF Boxes
    <2>11. x.inf = y.inf
      BY <2>9, <2>10, LeqTransitive, LeqAntisymmetric
    <2>12. x.sup = y.sup
      BY <2>9, <2>10, LeqTransitive, LeqAntisymmetric
    <2> QED BY <2>10, <2>11, <2>12 DEF x, y
  <1> QED BY <1>1, SimulationInvariant, OrderedInvariant, SetsFollowHistory, PTL
=============================================================================
