--------------------------- MODULE StateSpaceProofs ---------------------------
(***************************************************************************)
(* Proofs of the properties of StateSpaceProps, for any queues, capacities *)
(* and events.                                                             *)
(***************************************************************************)
EXTENDS StateSpaceProps, FiniteSetTheorems, WellFoundedInduction, TLAPS

----------------------------------------------------------------------------
(* What the transitions do to points. *)

\* A point, queue by queue.
LEMMA PointValues ==
  ASSUME NEW p \in Points, NEW q \in Queues
  PROVE  /\ p \in [Queues -> Nat] /\ p[q] \in Nat
         /\ q \in Standard => p[q] <= Capacity[q] /\ Capacity[q] \in 0..(INT_MAX - 1)
         /\ q \in Outside => p[q] = 0
  BY QueuesAssumption DEF Points, Queues

\* What makes a function a point.
LEMMA PointByValues ==
  ASSUME NEW p, p \in [Queues -> Nat],
         \A q \in Standard : p[q] <= Capacity[q],
         \A q \in Outside : p[q] = 0
  PROVE  p \in Points
  <1>1. ASSUME NEW q \in Queues PROVE p[q] \in 0..INT_MAX
    <2>1. INT_MAX \in Nat /\ p[q] \in Nat
      BY QueuesAssumption
    <2>2. CASE q \in Standard
      <3>1. Capacity[q] \in 0..(INT_MAX - 1) /\ p[q] <= Capacity[q]
        BY <2>2, QueuesAssumption
      <3> QED BY <2>1, <3>1
    <2>3. CASE q \in Outside
      BY <2>1, <2>3
    <2> QED BY <2>2, <2>3 DEF Queues
  <1> QED BY <1>1 DEF Points

\* Queue by queue, what a transition does to a point.
LEMMA AddClientValues ==
  ASSUME NEW p \in Points, NEW to \in Queues
  PROVE  /\ AddClient(p, to) \in Points
         /\ \A q \in Queues : AddClient(p, to)[q] =
              IF q = to /\ q \in Standard /\ p[q] < Capacity[q] THEN p[q] + 1 ELSE p[q]
  <1> DEFINE r == AddClient(p, to)
  <1>1. CASE to \in Outside
    BY <1>1, QueuesAssumption DEF AddClient
  <1>2. CASE to \notin Outside
    <2>1. /\ to \in Standard /\ p \in [Queues -> Nat] /\ p[to] \in Nat
          /\ Capacity[to] \in Nat /\ p[to] <= Capacity[to]
      BY <1>2, PointValues DEF Queues
    <2>2. r = [p EXCEPT ![to] = IF p[to] + 1 > Capacity[to] THEN Capacity[to] ELSE p[to] + 1]
      BY <1>2 DEF AddClient
    <2>3. \A q \in Queues : r[q] =
            IF q = to /\ q \in Standard /\ p[q] < Capacity[q] THEN p[q] + 1 ELSE p[q]
      BY <2>1, <2>2
    <2>4. r \in [Queues -> Nat]
      BY <2>1, <2>2
    <2>5. ASSUME NEW q \in Standard PROVE r[q] <= Capacity[q]
      <3>1. p[q] \in Nat /\ Capacity[q] \in Nat /\ p[q] <= Capacity[q]
        BY PointValues DEF Queues
      <3> QED BY <2>3, <3>1 DEF Queues
    <2>6. ASSUME NEW q \in Outside PROVE r[q] = 0
      BY <2>3, PointValues, QueuesAssumption DEF Queues
    <2> HIDE DEF r
    <2>7. r \in Points
      BY <2>4, <2>5, <2>6, PointByValues
    <2> QED BY <2>3, <2>7 DEF r
  <1> QED BY <1>1, <1>2

LEMMA RemoveClientValues ==
  ASSUME NEW p \in Points, NEW out \in Queues
  PROVE  /\ RemoveClient(p, out) \in Points
         /\ \A q \in Queues : RemoveClient(p, out)[q] =
              IF q = out /\ q \in Standard /\ p[q] > 0 THEN p[q] - 1 ELSE p[q]
  <1> DEFINE r == RemoveClient(p, out)
  <1>1. CASE out \in Outside
    BY <1>1, QueuesAssumption DEF RemoveClient
  <1>2. CASE out \notin Outside
    <2>1. out \in Standard /\ p \in [Queues -> Nat] /\ p[out] \in Nat
      BY <1>2, PointValues DEF Queues
    <2>2. r = [p EXCEPT ![out] = IF p[out] < 1 THEN 0 ELSE p[out] - 1]
      BY <1>2 DEF RemoveClient
    <2>3. \A q \in Queues : r[q] =
            IF q = out /\ q \in Standard /\ p[q] > 0 THEN p[q] - 1 ELSE p[q]
      BY <2>1, <2>2
    <2>4. r \in [Queues -> Nat]
      BY <2>1, <2>2
    <2>5. ASSUME NEW q \in Standard PROVE r[q] <= Capacity[q]
      <3>1. p[q] \in Nat /\ Capacity[q] \in Nat /\ p[q] <= Capacity[q]
        BY PointValues DEF Queues
      <3> QED BY <2>3, <3>1 DEF Queues
    <2>6. ASSUME NEW q \in Outside PROVE r[q] = 0
      BY <2>3, PointValues, QueuesAssumption DEF Queues
    <2> HIDE DEF r
    <2>7. r \in Points
      BY <2>4, <2>5, <2>6, PointByValues
    <2> QED BY <2>3, <2>7 DEF r
  <1> QED BY <1>1, <1>2

\* Every transition maps points to points.
LEMMA ApplyIsPoint == ASSUME NEW p \in Points, NEW ev \in Events PROVE Apply(p, ev) \in Points
  <1>1. CASE ev \in Arrivals
    <2>1. ev.transition = "ArrivalReject" /\ ev.to \in Queues
      BY <1>1, EventsAssumption
    <2> QED BY <2>1, AddClientValues DEF Apply, ArrivalReject
  <1>2. CASE ev \in Departures
    <2>1. ev.transition = "Departure" /\ ev.from \in Queues
      BY <1>2, EventsAssumption
    <2> QED BY <2>1, RemoveClientValues DEF Apply, Departure
  <1>3. CASE ev \in Jsqs
    <2>1. /\ ev.transition = "JSQ2" /\ ev.from \in Queues
          /\ ev.to0 \in Queues /\ ev.to1 \in Queues
      BY <1>3, EventsAssumption DEF Queues
    <2> DEFINE to == IF CompareTo(p, ev.to0, ev.to1) > 0 THEN ev.to0 ELSE ev.to1
    <2>2. to \in Queues
      BY <2>1
    <2>3. Apply(p, ev) = p \/ Apply(p, ev) = RemoveClient(AddClient(p, to), ev.from)
      BY <2>1 DEF Apply, JSQ2
    <2> HIDE DEF to
    <2> QED BY <2>1, <2>2, <2>3, AddClientValues, RemoveClientValues
  <1> QED BY <1>1, <1>2, <1>3 DEF Events

\* Arrivals with rejection and departures preserve the order of points: it is
\* what transition.cpp:30-31 takes for granted of every transition.
LEMMA ArrivalRejectMonotone ==
  ASSUME NEW p \in Points, NEW r \in Points, Leq(p, r), NEW to \in Queues
  PROVE  Leq(ArrivalReject(p, to), ArrivalReject(r, to))
  <1> SUFFICES ASSUME NEW q \in Queues
               PROVE  ArrivalReject(p, to)[q] <= ArrivalReject(r, to)[q]
    BY DEF Leq
  <1>1. /\ p[q] \in Nat /\ r[q] \in Nat /\ p[q] <= r[q]
        /\ q \in Standard => Capacity[q] \in Nat /\ p[q] <= Capacity[q] /\ r[q] <= Capacity[q]
    BY PointValues DEF Leq
  <1>2. ASSUME NEW x \in Points
        PROVE  ArrivalReject(x, to)[q] =
                 IF q = to /\ q \in Standard /\ x[q] < Capacity[q] THEN x[q] + 1 ELSE x[q]
    <2>1. CASE IsFull(x, to)
      BY <2>1, PointValues DEF ArrivalReject, IsFull
    <2>2. CASE ~IsFull(x, to)
      BY <2>2, AddClientValues DEF ArrivalReject
    <2> QED BY <2>1, <2>2
  <1> QED BY <1>1, <1>2

LEMMA DepartureMonotone ==
  ASSUME NEW p \in Points, NEW r \in Points, Leq(p, r), NEW out \in Queues
  PROVE  Leq(Departure(p, out), Departure(r, out))
  <1> SUFFICES ASSUME NEW q \in Queues PROVE Departure(p, out)[q] <= Departure(r, out)[q]
    BY DEF Leq
  <1>1. p[q] \in Nat /\ r[q] \in Nat /\ p[q] <= r[q]
    BY PointValues DEF Leq
  <1>2. ASSUME NEW x \in Points
        PROVE  Departure(x, out)[q] =
                 IF q = out /\ q \in Standard /\ x[q] > 0 THEN x[q] - 1 ELSE x[q]
    <2>1. CASE IsEmpty(x, out)
      BY <2>1 DEF Departure, IsEmpty
    <2>2. CASE ~IsEmpty(x, out)
      BY <2>2, RemoveClientValues DEF Departure
    <2> QED BY <2>1, <2>2
  <1> QED BY <1>1, <1>2

LEMMA ApplyMonotone ==
  ASSUME Jsqs = {}, NEW p \in Points, NEW r \in Points, Leq(p, r), NEW ev \in Events
  PROVE  Leq(Apply(p, ev), Apply(r, ev))
  <1>1. CASE ev \in Arrivals
    <2>1. ev.transition = "ArrivalReject" /\ ev.to \in Queues
      BY <1>1, EventsAssumption
    <2>2. Apply(p, ev) = ArrivalReject(p, ev.to) /\ Apply(r, ev) = ArrivalReject(r, ev.to)
      BY <2>1 DEF Apply
    <2> QED BY <2>1, <2>2, ArrivalRejectMonotone
  <1>2. CASE ev \in Departures
    <2>1. ev.transition = "Departure" /\ ev.from \in Queues
      BY <1>2, EventsAssumption
    <2>2. Apply(p, ev) = Departure(p, ev.from) /\ Apply(r, ev) = Departure(r, ev.from)
      BY <2>1 DEF Apply
    <2> QED BY <2>1, <2>2, DepartureMonotone
  <1> QED BY <1>1, <1>2 DEF Events

----------------------------------------------------------------------------
(* Induction, with the set of the numbers for which a fact holds in the     *)
(* place of the fact.                                                       *)

LEMMA LessThanNat == ASSUME NEW x \in Nat, NEW y \in Nat, y < x PROVE <<y, x>> \in OpToRel(<, Nat)
  BY DEF OpToRel

\* A set of numbers that contains 0 and the successor of each of its members.
LEMMA SetInduction ==
  ASSUME NEW T, T \subseteq Nat, 0 \in T, \A n \in Nat : n \in T => n + 1 \in T
  PROVE  T = Nat
  <1> DEFINE U == Nat \ T
             R == OpToRel(<, Nat)
  <1>1. SUFFICES ASSUME U # {} PROVE FALSE
    OBVIOUS
  <1>2. U \subseteq Nat
    OBVIOUS
  <1>3. IsWellFoundedOn(R, Nat)
    BY NatLessThanWellFounded
  <1> HIDE DEF R, U
  <1>4. PICK x \in U : \A y \in U : ~(<<y, x>> \in R)
    BY <1>1, <1>2, <1>3, WFMin
  <1>5. x \in Nat /\ x # 0 /\ x - 1 \in Nat /\ x - 1 < x
    BY <1>4 DEF U
  <1>6. x - 1 \notin U
    BY <1>4, <1>5, LessThanNat DEF R
  <1> QED BY <1>4, <1>5, <1>6 DEF U

----------------------------------------------------------------------------
\* Whatever the transitions, every queue stays within its capacity
\* (addClient, removeClient, and the guards of the transitions).
THEOREM TypeCorrect == Spec => []TypeOK
  <1>1. Init => TypeOK
    BY DEF Init, TypeOK, Box
  <1>2. TypeOK /\ [Next]_vars => TypeOK'
    <2> SUFFICES ASSUME TypeOK, [Next]_vars PROVE TypeOK'
      OBVIOUS
    <2>1. ASSUME NEW ev \in Events, ApplySet(ev) PROVE TypeOK'
      <3>1. inf' \in Points /\ sup' \in Points /\ (shape = "Point" => inf' = sup')
        BY <2>1, ApplyIsPoint DEF TypeOK, ApplySet, ApplyPoint, ApplyHyperRectangle
      <3>2. inside' \subseteq Points
        BY <2>1, ApplyIsPoint DEF TypeOK, ApplySet
      <3> QED BY <2>1, <3>1, <3>2 DEF TypeOK, ApplySet
    <2>2. CASE UNCHANGED vars
      BY <2>2 DEF TypeOK, vars
    <2> QED BY <2>1, <2>2 DEF Next
  <1> QED BY <1>1, <1>2, PTL DEF Spec

\* The extreme points are two of the points that the set stands for.
Corners == inf \in inside /\ sup \in inside

SInv == TypeOK /\ Envelope /\ Corners

LEMMA BoundsInductive == ASSUME Jsqs = {} PROVE Spec => []SInv
  <1>1. Init => SInv
    <2> SUFFICES ASSUME Init PROVE SInv
      OBVIOUS
    <2>1. Leq(inf, inf) /\ Leq(sup, sup)
      BY PointValues DEF Init, Leq
    <2> QED BY <2>1 DEF Init, SInv, TypeOK, Envelope, Corners, Box
  <1>2. TypeOK /\ SInv /\ [Next]_vars /\ TypeOK' => SInv'
    <2> SUFFICES ASSUME TypeOK, SInv, [Next]_vars, TypeOK' PROVE SInv'
      OBVIOUS
    <2>1. ASSUME NEW ev \in Events, ApplySet(ev) PROVE SInv'
      <3>1. /\ inf' = Apply(inf, ev) /\ sup' = Apply(sup, ev)
            /\ inside' = {Apply(x, ev) : x \in inside}
        BY <2>1 DEF TypeOK, ApplySet, ApplyPoint, ApplyHyperRectangle
      <3>2. Corners'
        BY <3>1 DEF SInv, Corners
      <3>3. Envelope'
        <4> SUFFICES ASSUME NEW x \in inside
                     PROVE  Leq(inf', Apply(x, ev)) /\ Leq(Apply(x, ev), sup')
          BY <3>1 DEF Envelope
        <4>1. x \in Points /\ inf \in Points /\ sup \in Points /\ Leq(inf, x) /\ Leq(x, sup)
          BY DEF SInv, TypeOK, Envelope
        <4> QED BY <3>1, <4>1, ApplyMonotone
      <3> QED BY <3>2, <3>3 DEF SInv
    <2>2. CASE UNCHANGED vars
      BY <2>2 DEF SInv, Envelope, Corners, vars
    <2> QED BY <2>1, <2>2 DEF Next
  <1> QED BY <1>1, <1>2, TypeCorrect, PTL DEF Spec

\* With arrivals and departures only, the two extreme points enclose at every
\* step all the trajectories of the initial set (transition.cpp:33-37).
THEOREM EnvelopeHolds == ASSUME Jsqs = {} PROVE Spec => []Envelope
  <1>1. SInv => Envelope
    BY DEF SInv
  <1> QED BY <1>1, BoundsInductive, PTL

\* With arrivals and departures only, the extreme points are equal exactly when
\* all the trajectories of the initial set have met: the sample is exact.
THEOREM CouplingIsExact == ASSUME Jsqs = {} PROVE Spec => []CouplingDetected
  <1>1. SInv => CouplingDetected
    <2> SUFFICES ASSUME SInv PROVE CouplingDetected
      OBVIOUS
    <2>1. ASSUME inf = sup PROVE inside = {inf}
      <3> SUFFICES ASSUME NEW x \in inside PROVE x = inf
        BY DEF SInv, Corners
      <3>1. x \in [Queues -> Nat] /\ inf \in [Queues -> Nat]
        BY QueuesAssumption DEF SInv, TypeOK, Points
      <3>2. \A q \in Queues : inf[q] <= x[q] /\ x[q] <= inf[q]
        BY <2>1 DEF SInv, Envelope, Leq
      <3>3. \A q \in Queues : x[q] = inf[q]
        BY <3>1, <3>2
      <3> QED BY <3>1, <3>3
    <2>2. ASSUME NEW x \in inside, inside = {x} PROVE inf = sup
      BY <2>2 DEF SInv, Corners
    <2> QED BY <2>1, <2>2 DEF CouplingDetected, SInv, Corners
  <1> QED BY <1>1, BoundsInductive, PTL

----------------------------------------------------------------------------
(* Population is defined by a recursive function on the sets of queues: that *)
(* there is such a function is proved first, then what it says of two points *)
(* that differ at one queue only.                                            *)

First(s) == CHOOSE q \in s : TRUE
Sum(f, p, s) == IF s = {} THEN 0 ELSE p[First(s)] + f[s \ {First(s)}]
Small(n) == {s \in SUBSET Standard : Cardinality(s) <= n}
IsTotal(f, p, D) == f = [s \in D |-> Sum(f, p, s)]
Total(p) == CHOOSE f : IsTotal(f, p, SUBSET Standard)

LEMMA PopulationIsTotal == ASSUME NEW p PROVE Population(p) = Total(p)[Standard]
  BY DEF Population, FoldFunctionOnSet, MapThenFoldSet, Total, IsTotal, Sum, First

LEMMA SetsOfQueues ==
  ASSUME NEW s \in SUBSET Standard
  PROVE  /\ Cardinality(s) \in Nat /\ Cardinality(s) <= Cardinality(Standard)
         /\ s = {} <=> Cardinality(s) = 0
         /\ s # {} => /\ First(s) \in s
                      /\ s \ {First(s)} \in SUBSET Standard
                      /\ Cardinality(s \ {First(s)}) = Cardinality(s) - 1
  <1>1. IsFiniteSet(s) /\ Cardinality(s) <= Cardinality(Standard)
    BY FinitelyMany, FS_Subset
  <1>2. Cardinality(s) \in Nat
    BY <1>1, FS_CardinalityType
  <1>3. s = {} <=> Cardinality(s) = 0
    BY <1>1, FS_EmptySet
  <1>4. ASSUME s # {} PROVE First(s) \in s
    BY <1>4 DEF First
  <1>5. ASSUME s # {} PROVE Cardinality(s \ {First(s)}) = Cardinality(s) - 1
    BY <1>1, <1>4, <1>5, FS_RemoveElement
  <1> QED BY <1>1, <1>2, <1>3, <1>4, <1>5

LEMMA TotalExists == ASSUME NEW p PROVE \E f : IsTotal(f, p, SUBSET Standard)
  <1> DEFINE T == {n \in Nat : \E f : IsTotal(f, p, Small(n))}
  <1>1. 0 \in T
    <2> DEFINE f == [s \in Small(0) |-> 0]
    <2>1. ASSUME NEW s \in Small(0) PROVE s = {}
      <3>1. s \in SUBSET Standard /\ Cardinality(s) <= 0
        BY DEF Small
      <3>2. Cardinality(s) \in Nat /\ (s = {} <=> Cardinality(s) = 0)
        BY <3>1, SetsOfQueues
      <3> QED BY <3>1, <3>2
    <2>2. IsTotal(f, p, Small(0))
      BY <2>1 DEF IsTotal, Sum
    <2> QED BY <2>2
  <1>2. ASSUME NEW n \in Nat, n \in T PROVE n + 1 \in T
    <2>1. PICK f : IsTotal(f, p, Small(n))
      BY <1>2
    <2> DEFINE g == [s \in Small(n + 1) |-> IF s \in Small(n) THEN f[s] ELSE Sum(f, p, s)]
    <2>2. ASSUME NEW s \in Small(n + 1) PROVE g[s] = Sum(g, p, s)
      <3>1. g[s] = Sum(f, p, s)
        BY <2>1 DEF IsTotal
      <3>2. CASE s = {}
        BY <3>1, <3>2 DEF Sum
      <3>3. CASE s # {}
        <4>1. /\ s \in SUBSET Standard /\ Cardinality(s) <= n + 1 /\ Cardinality(s) \in Nat
              /\ s \ {First(s)} \in SUBSET Standard
              /\ Cardinality(s \ {First(s)}) = Cardinality(s) - 1
          BY <3>3, SetsOfQueues DEF Small
        <4>2. s \ {First(s)} \in Small(n) /\ s \ {First(s)} \in Small(n + 1)
          BY <4>1 DEF Small
        <4>3. g[s \ {First(s)}] = f[s \ {First(s)}]
          BY <4>2
        <4> HIDE DEF g
        <4> QED BY <3>1, <3>3, <4>3 DEF Sum
      <3> QED BY <3>2, <3>3
    <2>3. IsTotal(g, p, Small(n + 1))
      <3>1. g = [s \in Small(n + 1) |-> g[s]]
        OBVIOUS
      <3> HIDE DEF g
      <3> QED BY <2>2, <3>1 DEF IsTotal
    <2> QED BY <2>3
  <1> HIDE DEF T
  <1>3. Cardinality(Standard) \in T
    <2>1. T \subseteq Nat
      BY DEF T
    <2>2. T = Nat
      BY <1>1, <1>2, <2>1, SetInduction
    <2> QED BY <2>2, SetsOfQueues
  <1>4. Small(Cardinality(Standard)) = SUBSET Standard
    BY SetsOfQueues DEF Small
  <1> QED BY <1>3, <1>4 DEF T

LEMMA TotalValues ==
  ASSUME NEW p, NEW s \in SUBSET Standard
  PROVE  Total(p)[s] = IF s = {} THEN 0 ELSE p[First(s)] + Total(p)[s \ {First(s)}]
  <1>1. IsTotal(Total(p), p, SUBSET Standard)
    BY TotalExists DEF Total
  <1> QED BY <1>1 DEF IsTotal, Sum

\* Two points that differ at one queue differ in their populations by as much.
LEMMA OneQueueDiffers ==
  ASSUME NEW p \in Points, NEW r \in Points, NEW q \in Standard,
         \A x \in Standard : x # q => r[x] = p[x]
  PROVE  /\ Population(p) \in Int /\ Population(r) \in Int
         /\ Population(r) = Population(p) + (r[q] - p[q])
  <1> DEFINE gap(s) == IF q \in s THEN r[q] - p[q] ELSE 0
             good(s) == /\ Total(p)[s] \in Int /\ Total(r)[s] \in Int
                        /\ Total(r)[s] = Total(p)[s] + gap(s)
             T == {n \in Nat : \A s \in SUBSET Standard : Cardinality(s) = n => good(s)}
  <1>1. \A x \in Standard : p[x] \in Nat /\ r[x] \in Nat
    BY PointValues DEF Queues
  <1>2. 0 \in T
    <2> SUFFICES ASSUME NEW s \in SUBSET Standard, Cardinality(s) = 0 PROVE good(s)
      OBVIOUS
    <2>1. s = {}
      BY SetsOfQueues
    <2>2. Total(p)[s] = 0 /\ Total(r)[s] = 0
      BY <2>1, TotalValues
    <2> QED BY <2>1, <2>2
  <1>3. ASSUME NEW n \in Nat, n \in T PROVE n + 1 \in T
    <2> SUFFICES ASSUME NEW s \in SUBSET Standard, Cardinality(s) = n + 1 PROVE good(s)
      OBVIOUS
    <2> DEFINE x == First(s)
               t == s \ {First(s)}
    <2>1. /\ s # {} /\ x \in s /\ x \in Standard /\ t \in SUBSET Standard
          /\ Cardinality(t) = n
      BY SetsOfQueues
    <2>2. Total(p)[s] = p[x] + Total(p)[t] /\ Total(r)[s] = r[x] + Total(r)[t]
      BY <2>1, TotalValues
    <2>3. good(t)
      BY <1>3, <2>1
    <2>4. t = s \ {x}
      OBVIOUS
    <2> HIDE DEF x, t
    <2>5. p[x] \in Nat /\ r[x] \in Nat /\ p[q] \in Nat /\ r[q] \in Nat
      BY <1>1, <2>1
    <2>6. CASE x = q
      <3>1. q \in s /\ q \notin t
        BY <2>1, <2>4, <2>6
      <3> QED BY <2>2, <2>3, <2>5, <2>6, <3>1
    <2>7. CASE x # q
      <3>1. (q \in s <=> q \in t) /\ r[x] = p[x]
        BY <2>1, <2>4, <2>7
      <3> QED BY <2>2, <2>3, <2>5, <3>1
    <2> QED BY <2>6, <2>7
  <1>4. Cardinality(Standard) \in T
    <2>1. T \subseteq Nat
      OBVIOUS
    <2> HIDE DEF T
    <2>2. T = Nat
      BY <1>2, <1>3, <2>1, SetInduction
    <2> QED BY <2>2, SetsOfQueues
  <1>5. good(Standard)
    BY <1>4
  <1> QED BY <1>5, PopulationIsTotal

LEMMA PopulationType == ASSUME NEW p \in Points PROVE Population(p) \in Int
  <1>1. CASE Standard = {}
    BY <1>1, PopulationIsTotal, TotalValues
  <1>2. CASE Standard # {}
    BY <1>2, OneQueueDiffers
  <1> QED BY <1>1, <1>2

----------------------------------------------------------------------------
(* How each transition changes the number of clients. *)

LEMMA AddClientGain ==
  ASSUME NEW p \in Points, NEW to \in Queues
  PROVE  Population(AddClient(p, to)) =
           Population(p) + (IF to \in Standard /\ p[to] < Capacity[to] THEN 1 ELSE 0)
  <1> DEFINE r == AddClient(p, to)
  <1>1. /\ r \in Points
        /\ \A q \in Queues : r[q] =
             IF q = to /\ q \in Standard /\ p[q] < Capacity[q] THEN p[q] + 1 ELSE p[q]
    BY AddClientValues
  <1>2. CASE to \in Outside
    <2>1. r = p /\ to \notin Standard
      BY <1>2, QueuesAssumption DEF AddClient
    <2> QED BY <2>1, PopulationType
  <1>3. CASE to \in Standard
    <2> HIDE DEF r
    <2>1. \A x \in Standard : x # to => r[x] = p[x]
      BY <1>1 DEF Queues
    <2>2. Population(p) \in Int /\ Population(r) = Population(p) + (r[to] - p[to])
      BY <1>1, <1>3, <2>1, OneQueueDiffers
    <2>3. p[to] \in Nat
      BY PointValues
    <2> QED BY <1>1, <1>3, <2>2, <2>3 DEF r
  <1> QED BY <1>2, <1>3 DEF Queues

LEMMA RemoveClientGain ==
  ASSUME NEW p \in Points, NEW from \in Queues
  PROVE  Population(RemoveClient(p, from)) =
           Population(p) - (IF from \in Standard /\ p[from] > 0 THEN 1 ELSE 0)
  <1> DEFINE r == RemoveClient(p, from)
  <1>1. /\ r \in Points
        /\ \A q \in Queues : r[q] =
             IF q = from /\ q \in Standard /\ p[q] > 0 THEN p[q] - 1 ELSE p[q]
    BY RemoveClientValues
  <1>2. CASE from \in Outside
    <2>1. r = p /\ from \notin Standard
      BY <1>2, QueuesAssumption DEF RemoveClient
    <2> QED BY <2>1, PopulationType
  <1>3. CASE from \in Standard
    <2> HIDE DEF r
    <2>1. \A x \in Standard : x # from => r[x] = p[x]
      BY <1>1 DEF Queues
    <2>2. Population(p) \in Int /\ Population(r) = Population(p) + (r[from] - p[from])
      BY <1>1, <1>3, <2>1, OneQueueDiffers
    <2>3. p[from] \in Nat
      BY PointValues
    <2> QED BY <1>1, <1>3, <2>2, <2>3 DEF r
  <1> QED BY <1>2, <1>3 DEF Queues

\* What ClientsConserved says of one event.
Conserves(p, ev) ==
  LET gain == Population(Apply(p, ev)) - Population(p)
  IN  /\ gain \in -1..1
      /\ gain = 1 => \/ ev.transition = "ArrivalReject"
                     \/ ev.transition = "JSQ2" /\ ev.from \in Outside
      /\ gain = -1 => \/ ev.transition = "Departure"
                      \/ /\ ev.transition = "JSQ2"
                         /\ \E q \in {ev.to0, ev.to1} : IsFull(p, q)

LEMMA TransitionsConserve ==
  ASSUME NEW p \in Points, NEW ev \in Events
  PROVE  Conserves(p, ev)
  <1>0. Population(p) \in Int
    BY PopulationType
  <1>1. CASE ev \in Arrivals
    <2>1. ev.transition = "ArrivalReject" /\ ev.to \in Queues
      BY <1>1, EventsAssumption
    <2>2. Apply(p, ev) = p \/ Apply(p, ev) = AddClient(p, ev.to)
      BY <2>1 DEF Apply, ArrivalReject
    <2>3. Population(Apply(p, ev)) \in {Population(p), Population(p) + 1}
      BY <1>0, <2>1, <2>2, AddClientGain
    <2> QED BY <1>0, <2>1, <2>3 DEF Conserves
  <1>2. CASE ev \in Departures
    <2>1. ev.transition = "Departure" /\ ev.from \in Queues
      BY <1>2, EventsAssumption
    <2>2. Apply(p, ev) = p \/ Apply(p, ev) = RemoveClient(p, ev.from)
      BY <2>1 DEF Apply, Departure
    <2>3. Population(Apply(p, ev)) \in {Population(p), Population(p) - 1}
      BY <1>0, <2>1, <2>2, RemoveClientGain
    <2> QED BY <1>0, <2>1, <2>3 DEF Conserves
  <1>3. CASE ev \in Jsqs
    <2>1. /\ ev.transition = "JSQ2" /\ ev.from \in Queues
          /\ ev.to0 \in Standard /\ ev.to1 \in Standard
      BY <1>3, EventsAssumption
    <2> DEFINE to == IF CompareTo(p, ev.to0, ev.to1) > 0 THEN ev.to0 ELSE ev.to1
               r == AddClient(p, to)
               came == IF p[to] < Capacity[to] THEN 1 ELSE 0
               left == IF ev.from \in Standard THEN 1 ELSE 0
    <2>2. to \in {ev.to0, ev.to1} /\ to \in Standard /\ to \in Queues
      BY <2>1 DEF Queues
    <2>3. CASE IsEmpty(p, ev.from)
      <3>1. Apply(p, ev) = p
        BY <2>1, <2>3 DEF Apply, JSQ2
      <3> QED BY <1>0, <3>1 DEF Conserves
    <2>4. CASE ~IsEmpty(p, ev.from)
      <3>1. Apply(p, ev) = RemoveClient(r, ev.from)
        BY <2>1, <2>4 DEF Apply, JSQ2
      <3> HIDE DEF to
      <3>2. Population(r) = Population(p) + came
        BY <2>2, AddClientGain
      <3>3. r \in Points /\ \A q \in Queues : r[q] >= p[q]
        <4>1. \A q \in Queues : p[q] \in Nat
          BY PointValues
        <4> QED BY <2>2, <4>1, AddClientValues
      <3> HIDE DEF r
      <3>4. ev.from \in Standard => r[ev.from] > 0
        BY <2>1, <2>4, <3>3, PointValues DEF IsEmpty
      <3>5. Population(Apply(p, ev)) = Population(r) - left
        BY <2>1, <3>1, <3>3, <3>4, RemoveClientGain
      <3>6. left = 0 => ev.from \in Outside
        BY <2>1 DEF Queues
      <3>7. came = 0 => \E q \in {ev.to0, ev.to1} : IsFull(p, q)
        <4>1. p[to] \in Nat /\ Capacity[to] \in Nat /\ p[to] <= Capacity[to]
          BY <2>2, PointValues
        <4> QED BY <2>2, <4>1 DEF IsFull
      <3>8. came \in {0, 1} /\ left \in {0, 1}
        OBVIOUS
      <3> HIDE DEF came, left
      <3>9. Population(Apply(p, ev)) - Population(p) = came - left
        BY <1>0, <3>2, <3>5, <3>8
      <3>10. /\ came - left \in -1..1
             /\ came - left = 1 => left = 0
             /\ came - left = -1 => came = 0
        BY <3>8
      <3> QED BY <2>1, <3>6, <3>7, <3>9, <3>10 DEF Conserves
    <2> QED BY <2>3, <2>4
  <1> QED BY <1>1, <1>2, <1>3 DEF Events

\* No transition makes a client out of nothing, and none loses one but a
\* departure, or a JSQ2 that has a full queue to choose (libtransition).
THEOREM ClientsAreConserved == Spec => ClientsConserved
  <1> DEFINE A == shape = "Point" =>
                    LET gain == Population(inf') - Population(inf)
                        tr == event'.transition
                    IN  /\ gain \in -1..1
                        /\ gain = 1 => \/ tr = "ArrivalReject"
                                       \/ (tr = "JSQ2" /\ event'.from \in Outside)
                        /\ gain = -1 => \/ tr = "Departure"
                                        \/ /\ tr = "JSQ2"
                                           /\ \E q \in {event'.to0, event'.to1} : IsFull(inf, q)
  <1>1. TypeOK /\ [Next]_vars => [A]_vars
    <2> SUFFICES ASSUME TypeOK, NEW ev \in Events, ApplySet(ev), shape = "Point" PROVE A
      BY DEF Next
    <2>1. inf \in Points /\ event' = ev /\ inf' = Apply(inf, ev)
      BY DEF TypeOK, ApplySet, ApplyPoint, ApplyHyperRectangle
    <2>2. Conserves(inf, ev)
      BY <2>1, TransitionsConserve
    <2> QED BY <2>1, <2>2 DEF Conserves
  <1> QED BY <1>1, TypeCorrect, PTL DEF Spec, ClientsConserved
=============================================================================
