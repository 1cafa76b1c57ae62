-------------------------- MODULE ConfigurationProofs --------------------------
(***************************************************************************)
(* Proofs about the registries, for any objects, names, libraries and      *)
(* bounds.                                                                 *)
(***************************************************************************)
EXTENDS ConfigurationProps, FiniteSetTheorems, SequenceTheorems, WellFoundedInduction, TLAPS

\* The vectors hold objects, each at the place that is its number.
InPlace(v, num) == \A i \in 1..Len(v) : num[v[i]] = i - 1
Vectors ==
  /\ eventTypesVector \in Seq(EventTypes) /\ queueConfigsVector \in Seq(Queues)
  /\ InPlace(eventTypesVector, number) /\ InPlace(queueConfigsVector, number)

\* A point has the first queues of the vector: those registered when it was built.
PointsArePrefixes ==
  \A p \in points : /\ p \in Seq(Queues) /\ Len(p) <= Len(queueConfigsVector)
                    /\ \A i \in 1..Len(p) : p[i] = queueConfigsVector[i]

StoredCodes == \A e \in stored : e.code \in Nat

Numbered ==
  /\ Vectors
  /\ \A name \in DOMAIN eventTypesMap : Name[eventTypesMap[name]] = name
  /\ \A name \in DOMAIN queueConfigsMap : Name[queueConfigsMap[name]] = name
  /\ Range(eventTypesVector) = Range(eventTypesMap)
  /\ Range(queueConfigsVector) = Range(queueConfigsMap)
  /\ DOMAIN number = Range(eventTypesVector) \cup Range(queueConfigsVector)

IInv ==
  /\ transitionsMap \subseteq Transitions
  /\ outcome \in {"none", "registered", "same", "ExistingName", "UnknownName", "DLOpenError"}
  /\ Numbered
  /\ CodesDecode /\ StoredCodes
  /\ PointsArePrefixes

----------------------------------------------------------------------------
LEMMA PutRange ==
  ASSUME NEW f, NEW x, NEW v, x \notin DOMAIN f
  PROVE  Range(Put(f, x, v)) = Range(f) \cup {v}
  BY DEF Put, Range

LEMMA Places ==
  ASSUME NEW S, NEW s \in Seq(S)
  PROVE  /\ DOMAIN s = 1..Len(s) /\ Len(s) \in Nat
         /\ Range(s) \subseteq S
         /\ \A i \in 1..Len(s) : s[i] \in Range(s)
         /\ \A x \in Range(s) : \E i \in 1..Len(s) : s[i] = x
  BY DEF Range

LEMMA AppendIsLonger ==
  ASSUME NEW S, NEW s \in Seq(S), NEW e \in S
  PROVE  /\ Append(s, e) \in Seq(S)
         /\ Len(Append(s, e)) = Len(s) + 1
         /\ Append(s, e)[Len(s) + 1] = e
         /\ \A i \in 1..Len(s) : Append(s, e)[i] = s[i]
         /\ Range(Append(s, e)) = Range(s) \cup {e}
  <1>1. /\ Append(s, e) \in Seq(S) /\ Len(Append(s, e)) = Len(s) + 1
        /\ Append(s, e)[Len(s) + 1] = e
        /\ \A i \in 1..Len(s) : Append(s, e)[i] = s[i]
    OBVIOUS
  <1>2. DOMAIN Append(s, e) = 1..(Len(s) + 1) /\ DOMAIN s = 1..Len(s) /\ Len(s) \in Nat
    OBVIOUS
  <1>3. 1..(Len(s) + 1) = 1..Len(s) \cup {Len(s) + 1}
    BY <1>2
  <1>4. Range(Append(s, e)) = Range(s) \cup {e}
    BY <1>1, <1>2, <1>3 DEF Range
  <1> QED BY <1>1, <1>4

LEMMA Distinct == EventTypes \cap Queues = {} /\ Range(Library) \subseteq Transitions
  BY Zenon, ConfigurationAssumption

LEMMA Longer ==
  ASSUME NEW a \in Nat, NEW b \in Nat
  PROVE  /\ a <= b => a <= b + 1 /\ \A i \in 1..a : i \in 1..b
         /\ a < b => a + 1 \in 1..b /\ a < b + 1
  OBVIOUS

\* A new object gets the number of its place; the numbers of others stay.
LEMMA NewNumber ==
  ASSUME NEW S, NEW v \in Seq(S), NEW x \in S, NEW num, x \notin DOMAIN num,
         Range(v) \subseteq DOMAIN num, InPlace(v, num)
  PROVE  InPlace(Append(v, x), Put(num, x, Len(v)))
  <1> DEFINE w == Append(v, x)
             num2 == Put(num, x, Len(v))
  <1>1. Len(w) = Len(v) + 1 /\ w[Len(v) + 1] = x /\ \A i \in 1..Len(v) : w[i] = v[i]
    BY AppendIsLonger
  <1>2. num2[x] = Len(v) /\ \A y \in DOMAIN num : y # x => num2[y] = num[y]
    BY DEF Put
  <1>3. Len(v) \in Nat /\ \A i \in 1..Len(v) : v[i] \in DOMAIN num /\ v[i] # x
    BY Places
  <1> HIDE DEF w, num2
  <1>4. ASSUME NEW i \in 1..Len(w) PROVE num2[w[i]] = i - 1
    <2>1. CASE i \in 1..Len(v)
      BY <1>1, <1>2, <1>3, <2>1 DEF InPlace
    <2>2. CASE i = Len(v) + 1
      BY <1>1, <1>2, <1>3, <2>2
    <2> QED BY <1>1, <1>3, <2>1, <2>2
  <1>5. InPlace(w, num2)
    BY <1>4 DEF InPlace
  <1> QED BY <1>5 DEF w, num2

LEMMA OldNumbers ==
  ASSUME NEW S, NEW v \in Seq(S), NEW x, NEW n, NEW num, x \notin DOMAIN num,
         Range(v) \subseteq DOMAIN num, InPlace(v, num)
  PROVE  InPlace(v, Put(num, x, n))
  <1> DEFINE num2 == Put(num, x, n)
  <1>1. \A y \in DOMAIN num : y # x => num2[y] = num[y]
    BY DEF Put
  <1>2. \A i \in 1..Len(v) : v[i] \in DOMAIN num /\ v[i] # x
    BY Places
  <1> HIDE DEF num2
  <1>3. InPlace(v, num2)
    BY <1>1, <1>2 DEF InPlace
  <1> QED BY <1>3 DEF num2

LEMMA Injective ==
  ASSUME NEW S, NEW v \in Seq(S), NEW num, InPlace(v, num)
  PROVE  IsInjective(v)
  <1>1. \A i \in DOMAIN v : num[v[i]] = i - 1 /\ i \in Int
    BY Places DEF InPlace
  <1> QED BY <1>1 DEF IsInjective

LEMMA StateInvariants ==
  ASSUME IInv
  PROVE  TypeOK /\ CodesDecode /\ IdsFindQueues
  <1>1. IsInjective(eventTypesVector) /\ IsInjective(queueConfigsVector)
    BY Injective DEF IInv, Numbered, Vectors
  <1>2. TypeOK
    BY <1>1 DEF IInv, Numbered, TypeOK
  <1>3. ASSUME NEW p \in points, NEW i \in DOMAIN p
        PROVE  p[i] \in DOMAIN number /\ number[p[i]] = i - 1 /\ queueConfigsMap[Name[p[i]]] = p[i]
    <2>1. p \in Seq(Queues) /\ Len(p) <= Len(queueConfigsVector) /\ queueConfigsVector \in Seq(Queues)
      BY DEF IInv, PointsArePrefixes, Numbered, Vectors
    <2>2. i \in 1..Len(p) /\ i \in 1..Len(queueConfigsVector)
      <3>1. Len(p) \in Nat /\ Len(queueConfigsVector) \in Nat /\ DOMAIN p = 1..Len(p)
        BY <2>1, Places
      <3> QED BY <2>1, <3>1
    <2>3. p[i] = queueConfigsVector[i]
      BY <2>2 DEF IInv, PointsArePrefixes
    <2>4. p[i] \in Range(queueConfigsVector)
      BY <2>1, <2>2, <2>3, Places
    <2>5. PICK name \in DOMAIN queueConfigsMap : queueConfigsMap[name] = p[i]
      <3>1. p[i] \in Range(queueConfigsMap)
        BY <2>4 DEF IInv, Numbered
      <3> QED BY <3>1 DEF Range
    <2>6. Name[p[i]] = name
      BY <2>5 DEF IInv, Numbered
    <2>7. number[p[i]] = i - 1
      BY <2>2, <2>3 DEF IInv, Numbered, Vectors, InPlace
    <2> QED BY <2>4, <2>5, <2>6, <2>7 DEF IInv, Numbered
  <1> QED BY <1>2, <1>3 DEF IdsFindQueues, IInv

----------------------------------------------------------------------------
LEMMA InitHolds == ASSUME Init PROVE IInv
  <1>1. Vectors
    BY DEF Init, Vectors, InPlace
  <1>2. Numbered
    BY <1>1 DEF Init, Numbered, Range
  <1> QED BY <1>2 DEF Init, IInv, CodesDecode, StoredCodes, PointsArePrefixes

\* What a step keeps that leaves the registries, the points and the history.
LEMMA RegistriesStay ==
  ASSUME IInv, UNCHANGED <<registries, points, stored>>
  PROVE  Numbered' /\ CodesDecode' /\ StoredCodes' /\ PointsArePrefixes'
  <1>1. Numbered'
    <2>1. Vectors'
      BY DEF IInv, registries, Numbered, Vectors, InPlace
    <2>2. Range(eventTypesVector)' = Range(eventTypesVector) /\ Range(eventTypesMap)' = Range(eventTypesMap)
      BY DEF registries
    <2>3. Range(queueConfigsVector)' = Range(queueConfigsVector) /\ Range(queueConfigsMap)' = Range(queueConfigsMap)
      BY DEF registries
    <2> QED BY <2>1, <2>2, <2>3 DEF IInv, registries, Numbered
  <1>2. CodesDecode' /\ StoredCodes'
    BY DEF IInv, registries, CodesDecode, StoredCodes
  <1>3. PointsArePrefixes'
    BY DEF IInv, registries, PointsArePrefixes
  <1> QED BY <1>1, <1>2, <1>3

\* Registering a queue: numbers already given, codes and points stay right.
LEMMA NewQueueStep ==
  ASSUME IInv, NEW q \in Queues, NewQueue(q)
  PROVE  IInv'
  <1> DEFINE n == Len(queueConfigsVector)
  <1>1. CASE Name[q] \in DOMAIN queueConfigsMap
    <2>1. UNCHANGED <<registries, points, stored>> /\ UNCHANGED transitionsMap
      BY <1>1 DEF NewQueue, RegisterQueue, registries
    <2>2. outcome' \in {"same", "ExistingName"}
      BY <1>1 DEF NewQueue, RegisterQueue
    <2> QED BY <2>1, <2>2, RegistriesStay DEF IInv
  <1>2. CASE Name[q] \notin DOMAIN queueConfigsMap
    <2>1. /\ queueConfigsMap' = Put(queueConfigsMap, Name[q], q)
          /\ queueConfigsVector' = Append(queueConfigsVector, q)
          /\ number' = Put(number, q, n)
          /\ outcome' = "registered"
          /\ UNCHANGED <<transitionsMap, eventTypesMap, eventTypesVector, points, stored>>
      BY <1>2 DEF NewQueue, RegisterQueue
    <2>2. /\ queueConfigsVector \in Seq(Queues) /\ eventTypesVector \in Seq(EventTypes)
          /\ InPlace(eventTypesVector, number) /\ InPlace(queueConfigsVector, number)
          /\ Range(queueConfigsVector) = Range(queueConfigsMap)
          /\ DOMAIN number = Range(eventTypesVector) \cup Range(queueConfigsVector)
      BY DEF IInv, Numbered, Vectors
    <2>3. q \notin DOMAIN number
      <3>1. q \notin Range(queueConfigsMap)
        BY <1>2 DEF IInv, Numbered, Range
      <3>2. q \notin Range(eventTypesVector)
        BY <2>2, Places, Distinct
      <3> QED BY <2>2, <3>1, <3>2
    <2>4. /\ queueConfigsVector' \in Seq(Queues) /\ Len(queueConfigsVector') = n + 1 /\ n \in Nat
          /\ \A i \in 1..n : queueConfigsVector'[i] = queueConfigsVector[i]
          /\ Range(queueConfigsVector') = Range(queueConfigsVector) \cup {q}
      <3>1. queueConfigsVector \in Seq(Queues) /\ queueConfigsVector' = Append(queueConfigsVector, q)
        BY <2>1, <2>2
      <3>2. /\ queueConfigsVector' \in Seq(Queues) /\ Len(queueConfigsVector') = n + 1 /\ n \in Nat
            /\ \A i \in 1..n : queueConfigsVector'[i] = queueConfigsVector[i]
        BY <3>1
      <3>3. DOMAIN queueConfigsVector' = DOMAIN queueConfigsVector \cup {n + 1} /\ DOMAIN queueConfigsVector = 1..n
        BY <3>1
      <3>4. queueConfigsVector'[n + 1] = q
        BY <3>1
      <3>5. Range(queueConfigsVector') = Range(queueConfigsVector) \cup {q}
        BY <3>2, <3>3, <3>4 DEF Range
      <3> QED BY <3>2, <3>5
    <2>5. Vectors'
      <3>1. InPlace(Append(queueConfigsVector, q), Put(number, q, n))
        BY <2>2, <2>3, NewNumber
      <3>2. InPlace(eventTypesVector, Put(number, q, n))
        BY <2>2, <2>3, OldNumbers
      <3> QED BY <2>1, <2>2, <2>4, <3>1, <3>2 DEF Vectors, InPlace
    <2>6. Numbered'
      <3> DEFINE put == Put(queueConfigsMap, Name[q], q)
      <3>0. /\ DOMAIN put = DOMAIN queueConfigsMap \cup {Name[q]}
            /\ put[Name[q]] = q
            /\ \A name \in DOMAIN queueConfigsMap : name # Name[q] => put[name] = queueConfigsMap[name]
        BY DEF Put
      <3>7. Range(put) = Range(queueConfigsMap) \cup {q}
        BY <1>2, PutRange
      <3> HIDE DEF put
      <3>1. queueConfigsMap' = put
        BY <2>1 DEF put
      <3>2. Range(queueConfigsMap') = Range(queueConfigsMap) \cup {q}
        BY <3>7, <3>1
      <3>3. DOMAIN number' = DOMAIN number \cup {q}
        BY <2>1 DEF Put
      <3>4. \A name \in DOMAIN queueConfigsMap' : Name[queueConfigsMap'[name]] = name
        BY <3>0, <3>1 DEF IInv, Numbered
      <3>5. /\ \A name \in DOMAIN eventTypesMap' : Name[eventTypesMap'[name]] = name
            /\ Range(eventTypesVector') = Range(eventTypesMap')
        BY <2>1 DEF IInv, Numbered
      <3>6. DOMAIN number' = Range(eventTypesVector') \cup Range(queueConfigsVector')
        BY <2>1, <2>2, <2>4, <3>3
      <3> QED BY <2>2, <2>4, <2>5, <3>2, <3>4, <3>5, <3>6 DEF Numbered
    <2>7. CodesDecode' /\ StoredCodes'
      BY <2>1 DEF CodesDecode, StoredCodes, IInv
    <2>8. PointsArePrefixes'
      <3>1. ASSUME NEW p \in points
            PROVE  /\ p \in Seq(Queues) /\ Len(p) <= Len(queueConfigsVector')
                   /\ \A i \in 1..Len(p) : p[i] = queueConfigsVector'[i]
        <4>1. /\ p \in Seq(Queues) /\ Len(p) <= n
              /\ \A i \in 1..Len(p) : p[i] = queueConfigsVector[i]
          BY DEF IInv, PointsArePrefixes
        <4>2. Len(p) \in Nat
          BY <4>1, Places
        <4>3. \A i \in 1..Len(p) : i \in 1..n
          BY <2>4, <4>1, <4>2, Longer
        <4>4. Len(p) <= n + 1
          BY <2>4, <4>1, <4>2, Longer
        <4> QED BY <2>4, <4>1, <4>3, <4>4
      <3> QED BY <2>1, <3>1 DEF PointsArePrefixes
    <2> QED BY <2>1, <2>6, <2>7, <2>8 DEF IInv
  <1> QED BY <1>1, <1>2

\* Registering an event type: codes stored in the history keep their meaning.
LEMMA NewEventTypeStep ==
  ASSUME IInv, NEW et \in EventTypes, NewEventType(et)
  PROVE  IInv'
  <1> DEFINE n == Len(eventTypesVector)
  <1>1. CASE Transition[et] \notin transitionsMap \/ Name[et] \in DOMAIN eventTypesMap
    <2>1. UNCHANGED <<registries, points, stored>> /\ UNCHANGED transitionsMap
      BY <1>1 DEF NewEventType, RegisterEventType, registries
    <2>2. outcome' \in {"same", "ExistingName", "UnknownName"}
      BY <1>1 DEF NewEventType, RegisterEventType
    <2> QED BY <2>1, <2>2, RegistriesStay DEF IInv
  <1>2. CASE Transition[et] \in transitionsMap /\ Name[et] \notin DOMAIN eventTypesMap
    <2>1. /\ eventTypesMap' = Put(eventTypesMap, Name[et], et)
          /\ eventTypesVector' = Append(eventTypesVector, et)
          /\ number' = Put(number, et, n)
          /\ outcome' = "registered"
          /\ UNCHANGED <<transitionsMap, queueConfigsMap, queueConfigsVector, points, stored>>
      BY <1>2 DEF NewEventType, RegisterEventType, Insert
    <2>2. /\ queueConfigsVector \in Seq(Queues) /\ eventTypesVector \in Seq(EventTypes)
          /\ InPlace(eventTypesVector, number) /\ InPlace(queueConfigsVector, number)
          /\ Range(eventTypesVector) = Range(eventTypesMap)
          /\ DOMAIN number = Range(eventTypesVector) \cup Range(queueConfigsVector)
      BY DEF IInv, Numbered, Vectors
    <2>3. et \notin DOMAIN number
      <3>1. et \notin Range(eventTypesMap)
        BY <1>2 DEF IInv, Numbered, Range
      <3>2. et \notin Range(queueConfigsVector)
        BY <2>2, Places, Distinct
      <3> QED BY <2>2, <3>1, <3>2
    <2>4. /\ eventTypesVector' \in Seq(EventTypes) /\ Len(eventTypesVector') = n + 1 /\ n \in Nat
          /\ \A i \in 1..n : eventTypesVector'[i] = eventTypesVector[i]
          /\ Range(eventTypesVector') = Range(eventTypesVector) \cup {et}
      <3>1. eventTypesVector \in Seq(EventTypes) /\ eventTypesVector' = Append(eventTypesVector, et)
        BY <2>1, <2>2
      <3>2. /\ eventTypesVector' \in Seq(EventTypes) /\ Len(eventTypesVector') = n + 1 /\ n \in Nat
            /\ \A i \in 1..n : eventTypesVector'[i] = eventTypesVector[i]
        BY <3>1
      <3>3. DOMAIN eventTypesVector' = DOMAIN eventTypesVector \cup {n + 1} /\ DOMAIN eventTypesVector = 1..n
        BY <3>1
      <3>4. eventTypesVector'[n + 1] = et
        BY <3>1
      <3>5. Range(eventTypesVector') = Range(eventTypesVector) \cup {et}
        BY <3>2, <3>3, <3>4 DEF Range
      <3> QED BY <3>2, <3>5
    <2>5. Vectors'
      <3>1. InPlace(Append(eventTypesVector, et), Put(number, et, n))
        BY <2>2, <2>3, NewNumber
      <3>2. InPlace(queueConfigsVector, Put(number, et, n))
        BY <2>2, <2>3, OldNumbers
      <3> QED BY <2>1, <2>2, <2>4, <3>1, <3>2 DEF Vectors, InPlace
    <2>6. Numbered'
      <3> DEFINE put == Put(eventTypesMap, Name[et], et)
      <3>0. /\ DOMAIN put = DOMAIN eventTypesMap \cup {Name[et]}
            /\ put[Name[et]] = et
            /\ \A name \in DOMAIN eventTypesMap : name # Name[et] => put[name] = eventTypesMap[name]
        BY DEF Put
      <3>7. Range(put) = Range(eventTypesMap) \cup {et}
        BY <1>2, PutRange
      <3> HIDE DEF put
      <3>1. eventTypesMap' = put
        BY <2>1 DEF put
      <3>2. Range(eventTypesMap') = Range(eventTypesMap) \cup {et}
        BY <3>7, <3>1
      <3>3. DOMAIN number' = DOMAIN number \cup {et}
        BY <2>1 DEF Put
      <3>4. \A name \in DOMAIN eventTypesMap' : Name[eventTypesMap'[name]] = name
        BY <3>0, <3>1 DEF IInv, Numbered
      <3>5. /\ \A name \in DOMAIN queueConfigsMap' : Name[queueConfigsMap'[name]] = name
            /\ Range(queueConfigsVector') = Range(queueConfigsMap')
        BY <2>1 DEF IInv, Numbered
      <3>6. DOMAIN number' = Range(eventTypesVector') \cup Range(queueConfigsVector')
        BY <2>1, <2>2, <2>4, <3>3
      <3> QED BY <2>2, <2>4, <2>5, <3>2, <3>4, <3>5, <3>6 DEF Numbered
    <2>7. CodesDecode'
      <3>1. ASSUME NEW e \in stored
            PROVE  e.code < Len(eventTypesVector') /\ eventTypesVector'[e.code + 1] = e.type
        <4>1. e.code \in Nat /\ e.code < n /\ eventTypesVector[e.code + 1] = e.type
          BY DEF IInv, CodesDecode, StoredCodes
        <4>2. e.code + 1 \in 1..n /\ e.code < n + 1
          BY <2>4, <4>1, Longer
        <4> QED BY <2>4, <4>1, <4>2
      <3> QED BY <2>1, <3>1 DEF CodesDecode
    <2>8. PointsArePrefixes'
      BY <2>1 DEF PointsArePrefixes, IInv
    <2>9. StoredCodes'
      BY <2>1 DEF StoredCodes, IInv
    <2> QED BY <2>1, <2>6, <2>7, <2>8, <2>9 DEF IInv
  <1> QED BY <1>1, <1>2

LEMMA TransitionSteps ==
  ASSUME IInv, (\E name \in Transitions : NewTransition(name)) \/ LoadTransitionLibrary
  PROVE  IInv'
  <1>1. UNCHANGED <<registries, points, stored>>
    BY DEF NewTransition, LoadTransitionLibrary
  <1>2. transitionsMap' \subseteq Transitions
    <2>1. ASSUME NEW name \in Transitions, NewTransition(name) PROVE transitionsMap' \subseteq Transitions
      BY <2>1 DEF NewTransition, IInv
    <2>2. ASSUME InitTransitionLibrary PROVE transitionsMap' \subseteq Transitions
      <3>1. \A i \in DOMAIN Library : Library[i] \in Transitions
        BY Distinct DEF Range
      <3> QED BY <2>2, <3>1 DEF InitTransitionLibrary, IInv
    <2> QED BY <2>1, <2>2 DEF LoadTransitionLibrary, LoadFails, IInv
  <1>3. outcome' \in {"registered", "ExistingName", "DLOpenError"}
    BY DEF NewTransition, LoadTransitionLibrary, LoadFails, InitTransitionLibrary
  <1> QED BY <1>1, <1>2, <1>3, RegistriesStay DEF IInv

\* A new point has all the queues of the vector.
LEMMA NewPointStep ==
  ASSUME IInv, NewPoint
  PROVE  IInv'
  <1>1. /\ points' = points \cup {queueConfigsVector} /\ outcome' = "registered"
        /\ UNCHANGED <<transitionsMap, registries, stored>>
    BY DEF NewPoint
  <1>2. Numbered' /\ CodesDecode' /\ StoredCodes'
    <2>1. Vectors'
      BY <1>1 DEF IInv, registries, Numbered, Vectors, InPlace
    <2>2. Numbered'
      BY <1>1, <2>1 DEF IInv, registries, Numbered
    <2> QED BY <1>1, <2>2 DEF IInv, registries, CodesDecode, StoredCodes
  <1>3. queueConfigsVector \in Seq(Queues) /\ Len(queueConfigsVector) \in Nat
    BY DEF IInv, Numbered, Vectors
  <1>4. PointsArePrefixes'
    BY <1>1, <1>3 DEF IInv, registries, PointsArePrefixes
  <1> QED BY <1>1, <1>2, <1>4 DEF IInv

\* The code that is stored is the place of the type.
LEMMA StoreEventStep ==
  ASSUME IInv, NEW et \in EventTypes, StoreEvent(et)
  PROVE  IInv'
  <1>1. /\ stored' = stored \cup {[code |-> number[et], type |-> et]}
        /\ et \in Range(eventTypesVector) /\ outcome' = "registered"
        /\ UNCHANGED <<transitionsMap, registries, points>>
    BY DEF StoreEvent
  <1>2. Numbered' /\ PointsArePrefixes'
    <2>1. Vectors'
      BY <1>1 DEF IInv, registries, Numbered, Vectors, InPlace
    <2>2. Numbered'
      BY <1>1, <2>1 DEF IInv, registries, Numbered
    <2> QED BY <1>1, <2>2 DEF IInv, registries, PointsArePrefixes
  <1>3. eventTypesVector \in Seq(EventTypes) /\ InPlace(eventTypesVector, number)
    BY DEF IInv, Numbered, Vectors
  <1>4. PICK i \in 1..Len(eventTypesVector) : eventTypesVector[i] = et
    BY <1>1, <1>3, Places
  <1>5. number[et] = i - 1
    BY <1>3, <1>4 DEF InPlace
  <1>6. /\ number[et] \in Nat /\ number[et] < Len(eventTypesVector)
        /\ eventTypesVector[number[et] + 1] = et
    <2>1. Len(eventTypesVector) \in Nat
      BY <1>3
    <2> QED BY <1>4, <1>5, <2>1
  <1>7. CodesDecode' /\ StoredCodes'
    BY <1>1, <1>6 DEF IInv, registries, CodesDecode, StoredCodes
  <1> QED BY <1>1, <1>2, <1>7 DEF IInv

\* IInv is an inductive invariant.
THEOREM Inductive == Spec => []IInv
  <1>1. Init => IInv
    BY InitHolds
  <1>2. IInv /\ [Next]_vars => IInv'
    <2> SUFFICES ASSUME IInv, [Next]_vars PROVE IInv'
      OBVIOUS
    <2>1. ASSUME NEW q \in Queues, NewQueue(q) PROVE IInv'
      BY <2>1, NewQueueStep
    <2>2. ASSUME NEW et \in EventTypes, NewEventType(et) PROVE IInv'
      BY <2>2, NewEventTypeStep
    <2>3. ASSUME NEW et \in EventTypes, StoreEvent(et) PROVE IInv'
      BY <2>3, StoreEventStep
    <2>4. CASE UNCHANGED vars
      <3>1. UNCHANGED <<registries, points, stored>> /\ UNCHANGED <<transitionsMap, outcome>>
        BY <2>4 DEF vars, registries
      <3> QED BY <3>1, RegistriesStay DEF IInv
    <2> QED BY <2>1, <2>2, <2>3, <2>4, TransitionSteps, NewPointStep DEF Next
  <1> QED BY <1>1, <1>2, PTL DEF Spec

\* Names and objects correspond, and every id and code is a place in its vector.
THEOREM TypeCorrect == Spec => []TypeOK
  <1>1. IInv => TypeOK
    BY StateInvariants
  <1> QED BY <1>1, Inductive, PTL

\* The code of a stored event gives the type it was stored with for ever,
\* whatever is registered or refused afterwards.
THEOREM CodesAlwaysDecode == Spec => []CodesDecode
  <1>1. IInv => CodesDecode
    BY DEF IInv
  <1> QED BY <1>1, Inductive, PTL

\* The id of a queue finds its state in every point built since.
THEOREM IdsAlwaysFindQueues == Spec => []IdsFindQueues
  <1>1. IInv => IdsFindQueues
    BY StateInvariants
  <1> QED BY <1>1, Inductive, PTL

----------------------------------------------------------------------------
\* The calls of libltdl: in each sequence the user's directory comes first.
Calls == {"lt_dlinit", "MARTO_LIBRARY_PATH", "PKGLIBDIR", "advise_init", "advise_ext", "advise_local"}
Preceded(s) ==
  \A i \in 1..Len(s) : s[i] = "PKGLIBDIR" =>
    \A d \in Range(LibraryPath) : \E j \in 1..i : s[j] = d

LibrariesInv ==
  /\ ltdl \in Seq(Calls) /\ Preceded(ltdl)
  /\ initialized => Range(InitCalls) \subseteq Range(ltdl)

LEMMA PathIsSequence == LibraryPath \in Seq({"MARTO_LIBRARY_PATH"})
  <1>1. CASE LibraryPath = << >>
    BY <1>1
  <1>2. CASE LibraryPath = <<"MARTO_LIBRARY_PATH">>
    <2>1. <<"MARTO_LIBRARY_PATH">> \in Seq({"MARTO_LIBRARY_PATH"})
      OBVIOUS
    <2> QED BY <1>2, <2>1, Zenon
  <1>3. LibraryPath = << >> \/ LibraryPath = <<"MARTO_LIBRARY_PATH">>
    BY ConfigurationAssumption, Zenon
  <1> QED BY <1>1, <1>2, <1>3

LEMMA Concat ==
  ASSUME NEW S, NEW s \in Seq(S), NEW t \in Seq(S)
  PROVE  /\ s \o t \in Seq(S) /\ Len(s \o t) = Len(s) + Len(t) /\ Len(s) \in Nat /\ Len(t) \in Nat
         /\ \A i \in 1..Len(s) : (s \o t)[i] = s[i]
         /\ \A i \in 1..Len(t) : (s \o t)[Len(s) + i] = t[i]
  OBVIOUS

LEMMA PrecededInit == InitCalls \in Seq(Calls) /\ Preceded(InitCalls)
  <1> DEFINE a == <<"lt_dlinit">>
             b == <<"PKGLIBDIR", "advise_init", "advise_ext", "advise_local">>
             s == a \o LibraryPath
  <1> DEFINE m == Len(LibraryPath)
  <1>1. a \in Seq(Calls) /\ Len(a) = 1 /\ a[1] = "lt_dlinit"
    BY DEF Calls
  <1>2. b \in Seq(Calls) /\ Len(b) = 4
    BY DEF Calls
  <1>3. /\ LibraryPath \in Seq(Calls) /\ m \in Nat /\ DOMAIN LibraryPath = 1..m
        /\ \A i \in 1..m : LibraryPath[i] = "MARTO_LIBRARY_PATH"
    <2>1. /\ LibraryPath \in Seq({"MARTO_LIBRARY_PATH"}) /\ m \in Nat /\ DOMAIN LibraryPath = 1..m
          /\ \A i \in 1..m : LibraryPath[i] = "MARTO_LIBRARY_PATH"
      BY PathIsSequence
    <2>2. {"MARTO_LIBRARY_PATH"} \subseteq Calls
      BY DEF Calls
    <2> QED BY <2>1, <2>2
  <1>4. InitCalls = s \o b
    BY DEF InitCalls
  <1> HIDE DEF a, b
  <1>5. /\ s \in Seq(Calls) /\ Len(s) = m + 1 /\ s[1] = "lt_dlinit"
        /\ \A i \in 1..m : s[1 + i] = LibraryPath[i]
    <2>0. a \in Seq(Calls) /\ LibraryPath \in Seq(Calls) /\ Len(a) = 1 /\ 1 \in 1..Len(a)
      BY <1>1, <1>3
    <2>1. s \in Seq(Calls) /\ Len(s) = 1 + m
      <3>1. s \in Seq(Calls)
        BY <2>0
      <3>2. Len(s) = Len(a) + Len(LibraryPath)
        BY <2>0, Concat
      <3> QED BY <3>1, <3>2, <2>0
    <2>2. s[1] = "lt_dlinit"
      <3>1. s[1] = a[1]
        BY <2>0, Concat
      <3> QED BY <3>1, <1>1
    <2>3. \A i \in 1..m : s[1 + i] = LibraryPath[i]
      BY <1>1, <1>3, Concat
    <2> QED BY <1>3, <2>1, <2>2, <2>3
  <1> HIDE DEF s
  <1>6. ASSUME NEW i \in 1..(m + 1) PROVE s[i] # "PKGLIBDIR"
    <2>1. CASE i = 1
      BY <1>5, <2>1
    <2>2. CASE i # 1
      <3>1. i - 1 \in 1..m /\ i = 1 + (i - 1)
        BY <1>3, <2>2
      <3>2. s[i] = "MARTO_LIBRARY_PATH"
        BY <1>3, <1>5, <3>1
      <3> QED BY <3>2
    <2> QED BY <2>1, <2>2
  <1>7. /\ s \o b \in Seq(Calls) /\ Len(s \o b) = m + 1 + 4
        /\ \A i \in 1..(m + 1) : (s \o b)[i] = s[i]
    <2>1. s \in Seq(Calls) /\ b \in Seq(Calls) /\ Len(s) = m + 1 /\ Len(b) = 4
      BY <1>2, <1>5
    <2>2. s \o b \in Seq(Calls)
      BY <2>1
    <2>3. Len(s \o b) = m + 1 + 4
      <3>1. Len(s \o b) = Len(s) + Len(b)
        BY <2>1, Concat
      <3> QED BY <3>1, <2>1
    <2>4. \A i \in 1..(m + 1) : (s \o b)[i] = s[i]
      BY <2>1, Concat
    <2> QED BY <2>2, <2>3, <2>4
  <1>8. ASSUME NEW i \in 1..Len(s \o b), (s \o b)[i] = "PKGLIBDIR", NEW d \in Range(LibraryPath)
        PROVE  \E j \in 1..i : (s \o b)[j] = d
    <2>1. ~(i \in 1..(m + 1))
      BY <1>6, <1>7, <1>8
    <2>2. m + 1 < i
      BY <1>3, <1>7, <2>1
    <2>3. PICK k \in 1..m : LibraryPath[k] = d
      BY <1>3 DEF Range
    <2>4. 1 + k \in 1..i /\ 1 + k \in 1..(m + 1)
      BY <1>3, <2>2
    <2> QED BY <1>5, <1>7, <2>3, <2>4
  <1> QED BY <1>4, <1>7, <1>8 DEF Preceded

LEMMA PrecededPrefix ==
  ASSUME NEW s \in Seq(Calls), Preceded(s), NEW n \in 0..Len(s)
  PROVE  SubSeq(s, 1, n) \in Seq(Calls) /\ Preceded(SubSeq(s, 1, n))
  <1>1. /\ SubSeq(s, 1, n) \in Seq(Calls) /\ Len(SubSeq(s, 1, n)) = n
        /\ \A i \in 1..n : SubSeq(s, 1, n)[i] = s[i]
    OBVIOUS
  <1>2. \A i \in 1..n : i \in 1..Len(s) /\ \A j \in 1..i : j \in 1..n
    OBVIOUS
  <1> QED BY <1>1, <1>2 DEF Preceded

LEMMA PrecededConcat ==
  ASSUME NEW s \in Seq(Calls), NEW t \in Seq(Calls), Preceded(s), Preceded(t)
  PROVE  /\ s \o t \in Seq(Calls) /\ Preceded(s \o t)
         /\ Range(s) \subseteq Range(s \o t) /\ Range(t) \subseteq Range(s \o t)
  <1> DEFINE st == s \o t
             m == Len(s)
             n == Len(t)
  <1>1. m \in Nat /\ n \in Nat /\ st \in Seq(Calls) /\ Len(st) = m + n
    OBVIOUS
  <1>2. \A i \in 1..m : st[i] = s[i]
    OBVIOUS
  <1>3. \A i \in 1..n : st[m + i] = t[i]
    OBVIOUS
  <1>4. DOMAIN s = 1..m /\ DOMAIN t = 1..n /\ DOMAIN st = 1..(m + n)
    OBVIOUS
  <1> HIDE DEF st
  <1>5. ASSUME NEW i \in 1..Len(st), st[i] = "PKGLIBDIR", NEW d \in Range(LibraryPath)
        PROVE  \E j \in 1..i : st[j] = d
    <2>1. CASE i <= m
      <3>1. i \in 1..m /\ s[i] = "PKGLIBDIR"
        BY <1>1, <1>2, <1>5, <2>1
      <3>2. PICK j \in 1..i : s[j] = d
        BY <3>1 DEF Preceded
      <3> QED BY <1>2, <3>1, <3>2
    <2>2. CASE m < i
      <3>1. i - m \in 1..n /\ i = m + (i - m)
        BY <1>1, <2>2
      <3>2. t[i - m] = "PKGLIBDIR"
        BY <1>3, <1>5, <3>1
      <3>3. PICK j \in 1..(i - m) : t[j] = d
        BY <3>1, <3>2 DEF Preceded
      <3>4. m + j \in 1..i /\ j \in 1..n
        BY <1>1, <3>1
      <3> QED BY <1>3, <3>3, <3>4
    <2> QED BY <1>1, <2>1, <2>2
  <1>6. Preceded(st)
    BY <1>5 DEF Preceded
  <1>7. Range(s) \subseteq Range(st)
    BY <1>1, <1>2, <1>4 DEF Range
  <1>8. Range(t) \subseteq Range(st)
    <2>1. \A i \in 1..n : m + i \in DOMAIN st
      BY <1>1, <1>4
    <2> QED BY <1>3, <1>4, <2>1 DEF Range
  <1> QED BY <1>1, <1>6, <1>7, <1>8 DEF st

LEMMA LibrariesStep ==
  ASSUME LibrariesInv, [Next]_vars
  PROVE  LibrariesInv'
  <1>1. CASE UNCHANGED library
    BY <1>1 DEF library, LibrariesInv, Preceded
  <1>2. ASSUME NEW n \in 0..(Len(InitCalls) - 1), ~initialized,
               ltdl' = ltdl \o SubSeq(InitCalls, 1, n), UNCHANGED initialized
        PROVE  LibrariesInv'
    <2>1. n \in 0..Len(InitCalls)
      BY PrecededInit
    <2>2. SubSeq(InitCalls, 1, n) \in Seq(Calls) /\ Preceded(SubSeq(InitCalls, 1, n))
      BY <2>1, PrecededInit, PrecededPrefix
    <2>3. ltdl \o SubSeq(InitCalls, 1, n) \in Seq(Calls) /\ Preceded(ltdl \o SubSeq(InitCalls, 1, n))
      BY <2>2, PrecededConcat DEF LibrariesInv
    <2> QED BY <1>2, <2>3 DEF LibrariesInv, Preceded
  <1>3. ASSUME initialized' = TRUE, ltdl' = IF initialized THEN ltdl ELSE ltdl \o InitCalls
        PROVE  LibrariesInv'
    <2>1. CASE initialized
      BY <1>3, <2>1 DEF LibrariesInv, Preceded
    <2>2. CASE ~initialized
      <3>1. ltdl' = ltdl \o InitCalls
        BY <1>3, <2>2
      <3>2. /\ ltdl \o InitCalls \in Seq(Calls) /\ Preceded(ltdl \o InitCalls)
            /\ Range(InitCalls) \subseteq Range(ltdl \o InitCalls)
        BY PrecededInit, PrecededConcat DEF LibrariesInv
      <3> QED BY <3>1, <3>2 DEF LibrariesInv, Preceded
    <2> QED BY <2>1, <2>2
  <1>4. CASE LoadTransitionLibrary
    BY <1>2, <1>3, <1>4 DEF LoadTransitionLibrary, InitializeFails, Initialize
  <1>5. UNCHANGED library \/ LoadTransitionLibrary
    BY DEF Next, vars, library, NewTransition, NewQueue, NewEventType, NewPoint, StoreEvent
  <1> QED BY <1>1, <1>4, <1>5

\* No library is looked up before libltdl is set up completely, whatever calls
\* failed before, and the user's directory precedes that of the package.
THEOREM LibrariesAlwaysFound == Spec => []LibrariesFound
  <1>1. Init => LibrariesInv
    BY DEF Init, LibrariesInv, Preceded
  <1>2. LibrariesInv /\ [Next]_vars => LibrariesInv'
    BY LibrariesStep
  <1>3. LibrariesInv => LibrariesFound
    <2> SUFFICES ASSUME LibrariesInv PROVE LibrariesFound
      OBVIOUS
    <2>1. DOMAIN ltdl = 1..Len(ltdl)
      BY DEF LibrariesInv
    <2> QED BY <2>1 DEF LibrariesInv, LibrariesFound, Preceded
  <1> QED BY <1>1, <1>2, <1>3, PTL DEF Spec

----------------------------------------------------------------------------
(* The sums of rates are defined by a recursive function on the sets of      *)
(* positions of a sequence: that there is such a function is proved first.   *)

LEMMA LessThanNat == ASSUME NEW x \in Nat, NEW y \in Nat, y < x PROVE <<y, x>> \in OpToRel(<, Nat)
  BY DEF OpToRel

\* A set of numbers that contains 0 and the successor of each of its members.
LEMMA SetInduction ==
  ASSUME NEW T, T \subseteq Nat, 0 \in T, \A n \in Nat : n \in T => n + 1 \in T
  PROVE  T = Nat
  <1> DEFINE U == Nat \ T
             R == OpToRel(<, Nat)
  <1>1. SUFFICES ASSUME U # {} PROVE FALSE
    OBVIOUS
  <1>2. U \subseteq Nat
    OBVIOUS
  <1>3. IsWellFoundedOn(R, Nat)
    BY NatLessThanWellFounded
  <1> HIDE DEF R, U
  <1>4. PICK x \in U : \A y \in U : ~(<<y, x>> \in R)
    BY <1>1, <1>2, <1>3, WFMin
  <1>5. x \in Nat /\ x # 0 /\ x - 1 \in Nat /\ x - 1 < x
    BY <1>4 DEF U
  <1>6. x - 1 \notin U
    BY <1>4, <1>5, LessThanNat DEF R
  <1> QED BY <1>4, <1>5, <1>6 DEF U

RatesOf(q) == FoldLeft(LAMBDA sum, et : sum + Rate[et], 0, q)
IsFold(f, q, D) ==
  f = [s \in SUBSET D |-> IF s = {} THEN 0 ELSE f[s \ {Max(s)}] + Rate[q[Max(s)]]]
Fold(q) == CHOOSE f : IsFold(f, q, DOMAIN q)

LEMMA RatesOfIsFold == ASSUME NEW q PROVE RatesOf(q) = Fold(q)[DOMAIN q]
  BY DEF RatesOf, FoldLeft, MapThenFoldSet, Fold, IsFold

LEMMA MaxOfInterval ==
  ASSUME NEW n \in Nat, NEW s, s \subseteq 1..(n + 1), n + 1 \in s
  PROVE  Max(s) = n + 1
  <1> DEFINE x == CHOOSE x \in s : \A y \in s : x >= y
  <1>1. \A y \in s : y \in Nat /\ n + 1 >= y
    OBVIOUS
  <1>2. x \in s /\ \A y \in s : x >= y
    BY <1>1
  <1>3. Max(s) = x
    BY DEF Max
  <1> HIDE DEF x
  <1>4. x \in Nat /\ x >= n + 1 /\ n + 1 >= x
    BY <1>1, <1>2
  <1> QED BY <1>3, <1>4

LEMMA MaxIsMember ==
  ASSUME NEW n \in Nat, NEW s, s \subseteq 1..n, s # {}
  PROVE  Max(s) \in s
  <1> DEFINE T == {m \in Nat : \A r : r \subseteq 1..m /\ r # {} => Max(r) \in r}
  <1>1. 0 \in T
    OBVIOUS
  <1>2. ASSUME NEW m \in Nat, m \in T PROVE m + 1 \in T
    <2> SUFFICES ASSUME NEW r, r \subseteq 1..(m + 1), r # {} PROVE Max(r) \in r
      OBVIOUS
    <2>1. CASE m + 1 \in r
      BY <2>1, MaxOfInterval
    <2>2. CASE m + 1 \notin r
      <3>1. r \subseteq 1..m
        BY <2>2
      <3> QED BY <1>2, <3>1
    <2> QED BY <2>1, <2>2
  <1> HIDE DEF T
  <1>3. n \in T
    <2>1. T \subseteq Nat
      BY DEF T
    <2> QED BY <1>1, <1>2, <2>1, SetInduction
  <1> QED BY <1>3 DEF T

LEMMA FoldExists == ASSUME NEW q, NEW m \in Nat PROVE \E f : IsFold(f, q, 1..m)
  <1> DEFINE T == {n \in Nat : \E f : IsFold(f, q, 1..n)}
  <1>1. 0 \in T
    <2> DEFINE f == [s \in SUBSET (1..0) |-> 0]
    <2>1. \A s \in SUBSET (1..0) : s = {}
      OBVIOUS
    <2>2. IsFold(f, q, 1..0)
      BY <2>1 DEF IsFold
    <2> QED BY <2>2
  <1>2. ASSUME NEW n \in Nat, n \in T PROVE n + 1 \in T
    <2>1. PICK f : IsFold(f, q, 1..n)
      BY <1>2
    <2> DEFINE g == [s \in SUBSET (1..(n + 1)) |->
                       IF n + 1 \in s THEN f[s \ {n + 1}] + Rate[q[n + 1]] ELSE f[s]]
    <2>2. ASSUME NEW s \in SUBSET (1..(n + 1))
          PROVE  g[s] = IF s = {} THEN 0 ELSE g[s \ {Max(s)}] + Rate[q[Max(s)]]
      <3>1. CASE n + 1 \in s
        <4>1. Max(s) = n + 1 /\ s # {}
          BY <3>1, MaxOfInterval
        <4>2. s \ {n + 1} \in SUBSET (1..n) /\ s \ {n + 1} \in SUBSET (1..(n + 1))
          OBVIOUS
        <4>3. g[s \ {n + 1}] = f[s \ {n + 1}]
          BY <4>2
        <4> QED BY <3>1, <4>1, <4>3
      <3>2. CASE n + 1 \notin s
        <4>1. s \in SUBSET (1..n) /\ g[s] = f[s]
          BY <3>2
        <4>2. CASE s = {}
          BY <2>1, <4>1, <4>2 DEF IsFold
        <4>3. CASE s # {}
          <5>1. s \ {Max(s)} \in SUBSET (1..n) /\ s \ {Max(s)} \in SUBSET (1..(n + 1))
            BY <4>1
          <5>2. g[s \ {Max(s)}] = f[s \ {Max(s)}]
            BY <3>2, <5>1
          <5>3. f[s] = f[s \ {Max(s)}] + Rate[q[Max(s)]]
            BY <2>1, <4>1, <4>3 DEF IsFold
          <5> QED BY <4>1, <4>3, <5>2, <5>3
        <4> QED BY <4>2, <4>3
      <3> QED BY <3>1, <3>2
    <2>3. IsFold(g, q, 1..(n + 1))
      BY <2>2 DEF IsFold
    <2> QED BY <2>3
  <1> HIDE DEF T
  <1>3. m \in T
    <2>1. T \subseteq Nat
      BY DEF T
    <2> QED BY <1>1, <1>2, <2>1, SetInduction
  <1> QED BY <1>3 DEF T

\* The value of the recursive function on the first positions.
LEMMA FoldValues ==
  ASSUME NEW S, NEW q \in Seq(S)
  PROVE  /\ Fold(q)[1..0] = 0
         /\ \A n \in Nat : n + 1 <= Len(q) =>
              Fold(q)[1..(n + 1)] = Fold(q)[1..n] + Rate[q[n + 1]]
  <1>1. DOMAIN q = 1..Len(q) /\ Len(q) \in Nat
    OBVIOUS
  <1>2. IsFold(Fold(q), q, 1..Len(q))
    BY <1>1, FoldExists DEF Fold
  <1> DEFINE f == Fold(q)
  <1> HIDE DEF f
  <1>3. \A s \in SUBSET (1..Len(q)) :
          f[s] = IF s = {} THEN 0 ELSE f[s \ {Max(s)}] + Rate[q[Max(s)]]
    BY <1>2 DEF IsFold, f
  <1>4. f[1..0] = 0
    <2>1. 1..0 = {} /\ 1..0 \in SUBSET (1..Len(q))
      OBVIOUS
    <2> QED BY <1>3, <2>1
  <1>5. ASSUME NEW n \in Nat, n + 1 <= Len(q)
        PROVE  f[1..(n + 1)] = f[1..n] + Rate[q[n + 1]]
    <2>1. 1..(n + 1) \in SUBSET (1..Len(q)) /\ n + 1 \in 1..(n + 1)
      BY <1>1, <1>5
    <2>2. Max(1..(n + 1)) = n + 1
      BY <2>1, MaxOfInterval
    <2>3. (1..(n + 1)) \ {n + 1} = 1..n /\ 1..(n + 1) # {}
      BY <2>1
    <2> QED BY <1>3, <2>1, <2>2, <2>3
  <1> QED BY <1>4, <1>5 DEF f

\* What the proofs use of the sum of rates: its value for the empty sequence, and
\* for a sequence with one more element.
LEMMA FoldEmpty == RatesOf(<< >>) = 0
  <1>1. << >> \in Seq({}) /\ DOMAIN << >> = 1..0
    OBVIOUS
  <1>2. Fold(<< >>)[1..0] = 0
    BY <1>1, FoldValues
  <1>3. RatesOf(<< >>) = Fold(<< >>)[DOMAIN << >>]
    BY RatesOfIsFold
  <1> QED BY <1>1, <1>2, <1>3

LEMMA FoldAppend ==
  ASSUME NEW q \in Seq(EventTypes), NEW x \in EventTypes
  PROVE  RatesOf(Append(q, x)) = RatesOf(q) + Rate[x]
  <1> DEFINE r == Append(q, x)
             f == Fold(q)
             g == Fold(r)
             T == {n \in Nat : n <= Len(q) => g[1..n] = f[1..n]}
  <1>1. /\ r \in Seq(EventTypes) /\ Len(q) \in Nat /\ Len(r) = Len(q) + 1 /\ r[Len(q) + 1] = x
        /\ \A k \in 1..Len(q) : r[k] = q[k]
        /\ DOMAIN q = 1..Len(q) /\ DOMAIN r = 1..(Len(q) + 1)
    OBVIOUS
  <1> HIDE DEF r
  <1>2. /\ f[1..0] = 0
        /\ \A n \in Nat : n + 1 <= Len(q) => f[1..(n + 1)] = f[1..n] + Rate[q[n + 1]]
    BY FoldValues
  <1>3. /\ g[1..0] = 0
        /\ \A n \in Nat : n + 1 <= Len(r) => g[1..(n + 1)] = g[1..n] + Rate[r[n + 1]]
    <2>1. r \in Seq(EventTypes)
      BY <1>1
    <2> HIDE DEF f
    <2> QED BY <2>1, FoldValues
  <1> HIDE DEF f, g
  <1>4. 0 \in T
    BY <1>2, <1>3
  <1>5. ASSUME NEW n \in Nat, n \in T PROVE n + 1 \in T
    <2> SUFFICES ASSUME n + 1 <= Len(q) PROVE g[1..(n + 1)] = f[1..(n + 1)]
      OBVIOUS
    <2>1. n <= Len(q) /\ n + 1 <= Len(r) /\ n + 1 \in 1..Len(q)
      BY <1>1
    <2> QED BY <1>1, <1>2, <1>3, <1>5, <2>1
  <1>6. T = Nat
    <2>1. T \subseteq Nat
      OBVIOUS
    <2> HIDE DEF T
    <2> QED BY <1>4, <1>5, <2>1, SetInduction
  <1>7. g[1..Len(q)] = f[1..Len(q)]
    BY <1>1, <1>6
  <1>8. g[1..(Len(q) + 1)] = f[1..Len(q)] + Rate[x]
    BY <1>1, <1>3, <1>7
  <1> QED BY <1>1, <1>8, RatesOfIsFold DEF f, g, r

----------------------------------------------------------------------------
(* The draw of an event type. *)

\* The sums of the first rates start at 0, and each adds the rate of one more type.
Partial(q, n) == RatesOf(SubSeq(q, 1, n))

LEMMA PartialSteps ==
  ASSUME NEW q \in Seq(EventTypes)
  PROVE  /\ Partial(q, 0) = 0 /\ Partial(q, Len(q)) = RatesOf(q)
         /\ \A n \in Nat : n + 1 <= Len(q) => Partial(q, n + 1) = Partial(q, n) + Rate[q[n + 1]]
  <1>1. SubSeq(q, 1, 0) = << >> /\ SubSeq(q, 1, Len(q)) = q
    OBVIOUS
  <1>2. ASSUME NEW n \in Nat, n + 1 <= Len(q)
        PROVE  Partial(q, n + 1) = Partial(q, n) + Rate[q[n + 1]]
    <2>1. /\ SubSeq(q, 1, n) \in Seq(EventTypes) /\ q[n + 1] \in EventTypes
          /\ SubSeq(q, 1, n + 1) = Append(SubSeq(q, 1, n), q[n + 1])
      BY <1>2
    <2> QED BY <2>1, FoldAppend DEF Partial
  <1> QED BY <1>1, <1>2, FoldEmpty DEF Partial

LEMMA RatesAreNat == Rate \in [EventTypes -> Nat]
  BY ConfigurationAssumption, Zenon

LEMMA PartialType ==
  ASSUME NEW q \in Seq(EventTypes), NEW n \in 0..Len(q)
  PROVE  Partial(q, n) \in Nat
  <1> DEFINE T == {m \in Nat : m <= Len(q) => Partial(q, m) \in Nat}
  <1>0. Len(q) \in Nat /\ \A i \in 1..Len(q) : Rate[q[i]] \in Nat
    BY RatesAreNat
  <1>1. 0 \in T
    BY PartialSteps
  <1>2. ASSUME NEW m \in Nat, m \in T PROVE m + 1 \in T
    <2> SUFFICES ASSUME m + 1 <= Len(q) PROVE Partial(q, m + 1) \in Nat
      OBVIOUS
    <2>1. m <= Len(q) /\ m + 1 \in 1..Len(q)
      BY <1>0
    <2>2. Partial(q, m + 1) = Partial(q, m) + Rate[q[m + 1]]
      BY PartialSteps
    <2> QED BY <1>0, <1>2, <2>1, <2>2
  <1>3. T \subseteq Nat
    OBVIOUS
  <1> HIDE DEF T
  <1>4. T = Nat
    BY <1>1, <1>2, <1>3, SetInduction
  <1> QED BY <1>0, <1>4 DEF T

LEMMA PartialGrows ==
  ASSUME NEW q \in Seq(EventTypes), NEW i \in 0..Len(q), NEW j \in 0..Len(q), i <= j
  PROVE  Partial(q, i) <= Partial(q, j)
  <1> DEFINE T == {m \in Nat : i + m <= Len(q) => Partial(q, i) <= Partial(q, i + m)}
  <1>0. Len(q) \in Nat /\ \A k \in 1..Len(q) : Rate[q[k]] \in Nat
    BY RatesAreNat
  <1>1. 0 \in T
    BY PartialType
  <1>2. ASSUME NEW m \in Nat, m \in T PROVE m + 1 \in T
    <2> SUFFICES ASSUME i + (m + 1) <= Len(q) PROVE Partial(q, i) <= Partial(q, i + (m + 1))
      OBVIOUS
    <2>1. /\ i + m \in Nat /\ i + m \in 0..Len(q) /\ i + m <= Len(q)
          /\ (i + m) + 1 \in 1..Len(q) /\ i + (m + 1) = (i + m) + 1
      BY <1>0
    <2>2. Partial(q, (i + m) + 1) = Partial(q, i + m) + Rate[q[(i + m) + 1]]
      BY <2>1, PartialSteps
    <2>3. Partial(q, i) \in Nat /\ Partial(q, i + m) \in Nat
      BY <2>1, PartialType
    <2>4. Partial(q, i) <= Partial(q, i + m)
      BY <1>2, <2>1
    <2>5. Rate[q[(i + m) + 1]] \in Nat
      BY <1>0, <2>1
    <2> QED BY <2>1, <2>2, <2>3, <2>4, <2>5
  <1>3. T \subseteq Nat
    OBVIOUS
  <1> HIDE DEF T
  <1>4. T = Nat
    BY <1>1, <1>2, <1>3, SetInduction
  <1>5. j - i \in T /\ i + (j - i) = j
    BY <1>4
  <1> QED BY <1>5 DEF T

\* The loop stops at the first sum that reaches the draw.
LEMMA Least ==
  ASSUME NEW U, U \subseteq Nat, U # {}
  PROVE  \E x \in U : \A y \in U : x <= y
  <1> DEFINE R == OpToRel(<, Nat)
  <1>1. IsWellFoundedOn(R, Nat)
    BY NatLessThanWellFounded
  <1> HIDE DEF R
  <1>2. PICK x \in U : \A y \in U : ~(<<y, x>> \in R)
    BY <1>1, WFMin
  <1>3. ASSUME NEW y \in U PROVE x <= y
    <2>1. x \in Nat /\ y \in Nat /\ ~(y < x)
      BY <1>2, LessThanNat DEF R
    <2> QED BY <2>1
  <1> QED BY <1>3

\* What the loop returns for a draw, in the terms of the partial sums.
Hits(q, r) == {i \in 1..Len(q) : Partial(q, i) >= r}
IsHit(q, r, i) == i \in Hits(q, r) /\ \A k \in Hits(q, r) : i <= k

LEMMA OneIsHit ==
  ASSUME NEW q \in Seq(EventTypes), q # << >>, NEW r \in 0..RatesOf(q)
  PROVE  \E i \in 1..Len(q) : \A j \in 1..Len(q) : IsHit(q, r, j) <=> j = i
  <1>1. Len(q) \in Nat /\ Len(q) \in 1..Len(q) /\ Len(q) \in 0..Len(q)
    OBVIOUS
  <1>2. Partial(q, Len(q)) >= r
    BY <1>1, PartialSteps, PartialType
  <1>3. Hits(q, r) \subseteq Nat /\ Hits(q, r) # {}
    BY <1>1, <1>2 DEF Hits
  <1>4. PICK i \in Hits(q, r) : \A k \in Hits(q, r) : i <= k
    BY <1>3, Least
  <1>5. i \in 1..Len(q) /\ IsHit(q, r, i)
    BY <1>4 DEF IsHit, Hits
  <1>6. ASSUME NEW j \in 1..Len(q), IsHit(q, r, j) PROVE j = i
    <2>1. i <= j /\ j <= i
      BY <1>4, <1>6 DEF IsHit
    <2> QED BY <1>5, <2>1
  <1> QED BY <1>5, <1>6

\* Place i is hit by the draws between two sums, which its rate separates.
LEMMA HitsFollowRates ==
  ASSUME NEW q \in Seq(EventTypes), NEW i \in 1..Len(q)
  PROVE  Cardinality({r \in 1..RatesOf(q) : IsHit(q, r, i)}) = Rate[q[i]]
  <1> DEFINE a == Partial(q, i - 1)
             b == Partial(q, i)
  <1>1. Len(q) \in Nat /\ i - 1 \in 0..Len(q) /\ i \in 0..Len(q) /\ Len(q) \in 0..Len(q)
        /\ i - 1 \in Nat /\ (i - 1) + 1 = i /\ i <= Len(q) /\ q[i] \in EventTypes
    OBVIOUS
  <1>2. a \in Nat /\ b \in Nat /\ Rate[q[i]] \in Nat
    BY <1>1, PartialType, RatesAreNat
  <1>3. b = a + Rate[q[i]]
    <2>1. Partial(q, (i - 1) + 1) = Partial(q, i - 1) + Rate[q[(i - 1) + 1]]
      BY <1>1, PartialSteps
    <2> QED BY <1>1, <2>1
  <1>4. b <= RatesOf(q) /\ RatesOf(q) \in Nat
    BY <1>1, PartialGrows, PartialSteps, PartialType
  <1>5. ASSUME NEW r \in 1..RatesOf(q) PROVE IsHit(q, r, i) <=> a < r /\ r <= b
    <2>1. ASSUME IsHit(q, r, i) PROVE a < r /\ r <= b
      <3>1. r <= b
        BY <1>2, <2>1 DEF IsHit, Hits
      <3>2. CASE i = 1
        BY <1>2, <3>1, <3>2, PartialSteps
      <3>3. CASE i # 1
        <4>1. i - 1 \in 1..Len(q) /\ ~(i <= i - 1)
          BY <3>3
        <4>2. i - 1 \notin Hits(q, r)
          BY <2>1, <4>1 DEF IsHit
        <4> QED BY <1>2, <3>1, <4>1, <4>2 DEF Hits
      <3> QED BY <3>2, <3>3
    <2>2. ASSUME a < r, r <= b PROVE IsHit(q, r, i)
      <3>1. i \in Hits(q, r)
        BY <1>2, <2>2 DEF Hits
      <3>2. ASSUME NEW k \in Hits(q, r), ~(i <= k) PROVE FALSE
        <4>1. k \in 0..Len(q) /\ k <= i - 1 /\ Partial(q, k) >= r
          BY <3>2 DEF Hits
        <4>2. Partial(q, k) <= a /\ Partial(q, k) \in Nat
          BY <1>1, <4>1, PartialGrows, PartialType
        <4> HIDE DEF a, b
        <4> QED BY <1>2, <2>2, <4>1, <4>2
      <3> QED BY <3>1, <3>2 DEF IsHit
    <2> QED BY <2>1, <2>2
  <1> HIDE DEF a, b
  <1>6. {r \in 1..RatesOf(q) : IsHit(q, r, i)} = (a + 1)..b
    BY <1>2, <1>4, <1>5
  <1> DEFINE c == a + 1
  <1>7. c \in Int /\ b \in Int /\ (IF c > b THEN 0 ELSE b - c + 1) = Rate[q[i]]
    BY <1>2, <1>3
  <1>8. {r \in 1..RatesOf(q) : IsHit(q, r, i)} = c..b
    BY <1>6
  <1> HIDE DEF c
  <1>9. Cardinality(c..b) = IF c > b THEN 0 ELSE b - c + 1
    BY <1>7, FS_Interval
  <1> QED BY <1>7, <1>8, <1>9, Zenon

\* What a configuration keeps: the sum that the draws are bounded by is that of
\* the rates of the types of the vector.
RatesInv == ratesSum = RatesOf(eventTypesVector)

LEMMA RatesStep ==
  ASSUME IInv, RatesInv, [Next]_vars
  PROVE  RatesInv'
  <1>1. ASSUME NEW et \in EventTypes, NewEventType(et) PROVE RatesInv'
    <2>1. CASE UNCHANGED <<eventTypesVector, ratesSum>>
      BY <2>1 DEF RatesInv
    <2>2. CASE /\ eventTypesVector' = Append(eventTypesVector, et)
               /\ ratesSum' = ratesSum + Rate[et]
      <3>1. eventTypesVector \in Seq(EventTypes)
        BY DEF IInv, Numbered, Vectors
      <3>2. RatesOf(Append(eventTypesVector, et)) = RatesOf(eventTypesVector) + Rate[et]
        BY <1>1, <3>1, FoldAppend
      <3>3. ratesSum' = RatesOf(Append(eventTypesVector, et))
        BY <2>2, <3>2 DEF RatesInv
      <3> QED BY <2>2, <3>3 DEF RatesInv
    <2> QED BY <1>1, <2>1, <2>2 DEF NewEventType, RegisterEventType, Insert
  <1>2. CASE UNCHANGED <<eventTypesVector, ratesSum>>
    BY <1>2 DEF RatesInv
  <1>3. \/ \E et \in EventTypes : NewEventType(et)
        \/ UNCHANGED <<eventTypesVector, ratesSum>>
    BY DEF Next, vars, registries, NewTransition, LoadTransitionLibrary, NewPoint, NewQueue,
           StoreEvent
  <1> QED BY <1>1, <1>2, <1>3

LEMMA RatesGiveDraws == ASSUME IInv, RatesInv PROVE DrawsFollowRates
  <1> DEFINE v == eventTypesVector
  <1>1. /\ v \in Seq(EventTypes) /\ InPlace(v, number)
        /\ DOMAIN v = 1..Len(v)
    BY DEF IInv, Numbered, Vectors
  <1>2. \A r : Reached(r) = Hits(v, r)
    <2>1. \A i : PartialRatesSum(i) = Partial(v, i)
      BY DEF PartialRatesSum, Partial, RatesOf
    <2> HIDE DEF v
    <2>2. DOMAIN eventTypesVector = 1..Len(v)
      BY <1>1 DEF v
    <2> QED BY <2>1, <2>2 DEF Reached, Hits
  <1>3. ASSUME NEW r, NEW et
        PROVE  et \in Chosen(r) <=> \E i \in 1..Len(v) : IsHit(v, r, i) /\ v[i] = et
    BY <1>2 DEF Chosen, IsHit, Hits
  <1>4. ratesSum = RatesOf(v)
    BY DEF RatesInv
  <1>5. \A i, j \in 1..Len(v) : v[i] = v[j] => i = j
    BY <1>1, Injective DEF IsInjective
  <1> HIDE DEF v
  <1>6. ASSUME NEW r \in 0..ratesSum, v # << >> PROVE Cardinality(Chosen(r)) = 1
    <2>1. PICK i \in 1..Len(v) : \A j \in 1..Len(v) : IsHit(v, r, j) <=> j = i
      BY <1>1, <1>4, <1>6, OneIsHit
    <2>2. \A et : et \in Chosen(r) <=> et = v[i]
      BY <1>3, <2>1
    <2>3. Chosen(r) = {v[i]}
      BY <2>2
    <2> QED BY <2>3, FS_Singleton
  <1>7. ASSUME NEW et \in Range(v)
        PROVE  Cardinality({r \in 1..ratesSum : et \in Chosen(r)}) = Rate[et]
    <2>1. PICK i \in 1..Len(v) : v[i] = et
      BY <1>1, Places
    <2>2. \A r : et \in Chosen(r) <=> IsHit(v, r, i)
      BY <1>3, <1>5, <2>1
    <2>3. {r \in 1..ratesSum : et \in Chosen(r)} = {r \in 1..RatesOf(v) : IsHit(v, r, i)}
      BY <1>4, <2>2
    <2> QED BY <1>1, <2>1, <2>3, HitsFollowRates
  <1> QED BY <1>6, <1>7 DEF DrawsFollowRates, v

\* A random draw gives each event type as often as its rate says, and always
\* gives one: getRandomEventType never falls through its loop.
THEOREM DrawsAlwaysFollowRates == Spec => []DrawsFollowRates
  <1>1. Init => RatesInv
    BY FoldEmpty DEF Init, RatesInv
  <1>2. IInv /\ RatesInv /\ [Next]_vars => RatesInv'
    BY RatesStep
  <1>3. IInv /\ RatesInv => DrawsFollowRates
    BY RatesGiveDraws
  <1> QED BY <1>1, <1>2, <1>3, Inductive, PTL DEF Spec
=============================================================================
