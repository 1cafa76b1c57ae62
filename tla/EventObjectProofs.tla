--------------------------- MODULE EventObjectProofs ---------------------------
(***************************************************************************)
(* Proofs about the reuse of the Event object, for any event types, formal *)
(* parameters, lengths and sizes.                                          *)
(***************************************************************************)
EXTENDS EventObjectProps, TLAPS

Fields(pv) ==
  pv = [state |-> pv.state, fp |-> pv.fp, nbValues |-> pv.nbValues, bufferSize |-> pv.bufferSize]

\* The properties to prove, the list of known formals being a prefix of those
\* that its type has now.
IInv ==
  /\ formalParameters \in [EventTypes -> Seq(Formals)]
  /\ DOMAIN values \subseteq Formals
  /\ ev = [status |-> ev.status, type |-> ev.type, slots |-> ev.slots]
  /\ \E S : ev.slots \in Seq(S)
  /\ known \in Seq(Formals)
  /\ ev.status = "FILLED" =>
       /\ ev.type \in EventTypes
       /\ Len(known) <= Len(formalParameters[ev.type])
       /\ \A i \in 1..Len(known) :
            /\ i \in DOMAIN ev.slots
            /\ formalParameters[ev.type][i] = known[i]
            /\ ev.slots[i].state = "FPFILLED" /\ ev.slots[i].fp = known[i]
  /\ AbortsOnlyOnLateParameter

\* Filling an unused parameter links it to its formal, whatever its buffer.
LEMMA FilledParameter ==
  ASSUME NEW fp, NEW size
  PROVE  /\ filled(initPV(New(size), fp)).state = "FPFILLED"
         /\ filled(initPV(New(size), fp)).fp = fp
  <1> DEFINE half == [New(size) EXCEPT !.state = "FPLINKED"]
             linked == [half EXCEPT !.fp = fp]
             sized == setCapacity(linked, Length[fp])
  <1>1. half = [state |-> "FPLINKED", fp |-> None, nbValues |-> 0, bufferSize |-> size]
    BY DEF New
  <1>2. linked = [state |-> "FPLINKED", fp |-> fp, nbValues |-> 0, bufferSize |-> size]
    <2> HIDE DEF half
    <2> QED BY <1>1
  <1>3. initPV(New(size), fp) = sized
    BY DEF initPV
  <1>4. sized = linked \/ \E b : sized = [linked EXCEPT !.bufferSize = b]
    <2> HIDE DEF linked
    <2> QED BY DEF setCapacity, sized
  <1> HIDE DEF half, linked, sized
  <1>5. Fields(sized) /\ sized.state = "FPLINKED" /\ sized.fp = fp
    BY <1>2, <1>4 DEF Fields
  <1>6. filled(sized).state = "FPFILLED" /\ filled(sized).fp = fp
    BY <1>5 DEF filled, Fields
  <1> QED BY <1>3, <1>6

LEMMA SequenceOf ==
  ASSUME NEW m \in Nat, NEW f, f = [i \in 1..m |-> f[i]]
  PROVE  Len(f) = m /\ \E S : f \in Seq(S)
  <1> DEFINE S == {f[i] : i \in 1..m}
  <1>1. f \in [1..m -> S]
    OBVIOUS
  <1> HIDE DEF S
  <1>2. f \in Seq(S) /\ Len(f) = m
    BY <1>1
  <1> QED BY <1>2

\* The slots of an event once it has taken type t: those of t are unused.
LEMMA TakenSlots ==
  ASSUME IInv, NEW t \in EventTypes
  PROVE  LET k == Len(formalParameters[t])  slots == setType(t)
         IN  /\ k \in Nat
             /\ \E m \in Nat : m >= k /\ slots = [i \in 1..m |-> slots[i]]
             /\ \A i \in 1..k : slots[i] = New(DefaultSize)
  <1> DEFINE k == Len(formalParameters[t])
             cap == Len(ev.slots)
             m == IF k > cap THEN k ELSE cap
  <1>1. k \in Nat
    BY DEF IInv
  <1>2. cap \in Nat
    BY DEF IInv
  <1>3. m \in Nat /\ m >= k
    BY <1>1, <1>2
  <1>4. setType(t) = [i \in 1..m |-> IF i <= k THEN New(DefaultSize) ELSE ev.slots[i]]
    BY DEF setType
  <1> HIDE DEF k, cap, m
  <1>5. \A i \in 1..k : setType(t)[i] = New(DefaultSize)
    BY <1>1, <1>3, <1>4
  <1>6. setType(t) = [i \in 1..m |-> setType(t)[i]]
    BY <1>4
  <1> QED BY <1>1, <1>3, <1>5, <1>6 DEF k

\* Taking a type preserves the invariant: if the event becomes valid, all its
\* parameters were filled.
LEMMA TakePreserves ==
  ASSUME IInv, NEW t \in EventTypes, NEW n \in 0..Len(formalParameters[t]), NEW status,
         status = "FILLED" => n = Len(formalParameters[t]),
         Take(t, n, status)
  PROVE  IInv'
  <1> DEFINE k == Len(formalParameters[t])
             slots == setType(t)
             full == FillUpTo(slots, t, n)
  <1>1. /\ k \in Nat /\ n \in 0..k
        /\ \E m \in Nat : m >= k /\ slots = [i \in 1..m |-> slots[i]]
        /\ \A i \in 1..k : slots[i] = New(DefaultSize)
    BY TakenSlots
  <1>2. PICK m \in Nat : m >= k /\ slots = [i \in 1..m |-> slots[i]]
    BY <1>1
  <1> HIDE DEF k
  <1>3. \A i \in 1..n : i \in 1..k /\ slots[i].state = "UNUSED"
    <2>1. \A i \in 1..n : i \in 1..k
      BY <1>1
    <2>2. New(DefaultSize).state = "UNUSED"
      BY DEF New
    <2> HIDE DEF slots
    <2> QED BY <1>1, <2>1, <2>2
  <1>4. /\ ev' = [status |-> status, type |-> t, slots |-> full]
        /\ outcome' = IF status = "FILLED" THEN "done" ELSE "error"
        /\ known' = formalParameters[t]
        /\ UNCHANGED <<values, formalParameters>>
    BY <1>3 DEF Take
  <1>5. full = [i \in 1..m |-> IF i <= n THEN filled(initPV(slots[i], formalParameters[t][i]))
                               ELSE slots[i]]
    BY <1>2 DEF FillUpTo
  <1>6. ASSUME NEW i \in 1..n
        PROVE  full[i].state = "FPFILLED" /\ full[i].fp = formalParameters[t][i]
    <2> HIDE DEF slots, full
    <2>1. i \in 1..m /\ i <= n
      <3>1. m >= k
        BY <1>2
      <3>2. i \in 1..k /\ n \in Nat
        BY <1>1, <1>3
      <3> QED BY <1>1, <3>1, <3>2
    <2>2. slots[i] = New(DefaultSize)
      BY <1>1, <1>3
    <2>3. full[i] = filled(initPV(New(DefaultSize), formalParameters[t][i]))
      BY <1>5, <2>1, <2>2
    <2> QED BY <2>3, FilledParameter
  <1>7. full = [i \in 1..m |-> full[i]]
    BY <1>5
  <1> HIDE DEF full, slots
  <1>8. /\ ev'.status = status /\ ev'.type = t /\ ev'.slots = full
        /\ ev' = [status |-> ev'.status, type |-> ev'.type, slots |-> ev'.slots]
    BY <1>4
  <1>9. \E S : ev'.slots \in Seq(S)
    BY <1>7, <1>8, SequenceOf
  <1>10. formalParameters[t] \in Seq(Formals)
    BY DEF IInv
  <1>11. status = "FILLED" =>
           /\ Len(known') <= Len(formalParameters'[ev'.type])
           /\ \A i \in 1..Len(known') :
                /\ i \in DOMAIN ev'.slots
                /\ formalParameters'[ev'.type][i] = known'[i]
                /\ ev'.slots[i].state = "FPFILLED" /\ ev'.slots[i].fp = known'[i]
    <2> SUFFICES ASSUME status = "FILLED"
                 PROVE  /\ Len(known') <= Len(formalParameters'[ev'.type])
                        /\ \A i \in 1..Len(known') :
                             /\ i \in DOMAIN ev'.slots
                             /\ formalParameters'[ev'.type][i] = known'[i]
                             /\ ev'.slots[i].state = "FPFILLED" /\ ev'.slots[i].fp = known'[i]
      OBVIOUS
    <2>1. n = k /\ known' = formalParameters[t] /\ formalParameters'[ev'.type] = formalParameters[t]
      BY <1>4, <1>8 DEF k
    <2>2. Len(known') = k /\ Len(formalParameters'[ev'.type]) = k
      BY <2>1 DEF k
    <2>3. DOMAIN full = 1..m
      BY <1>7
    <2>4. \A i \in 1..k : i \in DOMAIN full
      BY <1>1, <1>2, <2>3
    <2> QED BY <1>1, <1>6, <1>8, <2>1, <2>2, <2>4
  <1>12. outcome' # "ABORTED"
    BY <1>4
  <1> QED BY <1>4, <1>8, <1>9, <1>10, <1>11, <1>12 DEF IInv, AbortsOnlyOnLateParameter

LEMMA Inductive == Spec => []IInv
  <1>1. Init => IInv
    <2> SUFFICES ASSUME Init PROVE IInv
      OBVIOUS
    <2>1. << >> \in Seq(Formals) /\ ev.slots \in Seq({})
      BY DEF Init
    <2> QED BY <2>1 DEF Init, IInv, AbortsOnlyOnLateParameter
  <1>2. IInv /\ [Next]_vars => IInv'
    <2> SUFFICES ASSUME IInv, [Next]_vars PROVE IInv'
      OBVIOUS
    <2>1. ASSUME NEW fp \in Formals, Make(fp) PROVE IInv'
      BY <2>1 DEF IInv, Make, AbortsOnlyOnLateParameter
    <2>2. ASSUME NEW t \in EventTypes, NEW fp \in Formals, RegisterParameter(t, fp) PROVE IInv'
      <3>1. UNCHANGED <<values, ev, known>> /\ outcome' # "ABORTED"
        BY <2>2 DEF RegisterParameter, Running
      <3>2. CASE UNCHANGED formalParameters
        BY <3>1, <3>2 DEF IInv, AbortsOnlyOnLateParameter
      <3>3. CASE formalParameters' = [formalParameters EXCEPT ![t] = Append(@, fp)]
        <4>1. formalParameters' \in [EventTypes -> Seq(Formals)]
          BY <3>3 DEF IInv
        <4>2. ASSUME NEW u \in EventTypes
              PROVE  /\ Len(formalParameters[u]) <= Len(formalParameters'[u])
                     /\ \A i \in 1..Len(formalParameters[u]) :
                          formalParameters'[u][i] = formalParameters[u][i]
          BY <3>3 DEF IInv
        <4>3. ASSUME ev.status = "FILLED"
              PROVE  /\ ev.type \in EventTypes
                     /\ Len(known) <= Len(formalParameters'[ev.type])
                     /\ \A i \in 1..Len(known) :
                          /\ i \in DOMAIN ev.slots
                          /\ formalParameters'[ev.type][i] = known[i]
                          /\ ev.slots[i].state = "FPFILLED" /\ ev.slots[i].fp = known[i]
          <5>1. /\ ev.type \in EventTypes /\ Len(known) \in Nat
                /\ Len(formalParameters[ev.type]) \in Nat /\ Len(formalParameters'[ev.type]) \in Nat
                /\ Len(known) <= Len(formalParameters[ev.type])
            BY <4>1, <4>3 DEF IInv
          <5> QED BY <4>2, <4>3, <5>1 DEF IInv
        <4> QED BY <3>1, <4>1, <4>3 DEF IInv, AbortsOnlyOnLateParameter
      <3> QED BY <2>2, <3>2, <3>3 DEF RegisterParameter
    <2>3. ASSUME NEW t \in EventTypes, Generate(t) PROVE IInv'
      <3>1. Len(formalParameters[t]) \in 0..Len(formalParameters[t])
        BY DEF IInv
      <3> QED BY <2>3, <3>1, TakePreserves DEF Generate
    <2>4. ASSUME NEW t \in EventTypes, Load(t) PROVE IInv'
      <3>1. CASE Generate(t)
        BY <2>3, <3>1
      <3>2. ASSUME NEW i \in FirstFailing(t), Take(t, i, "TYPED") PROVE IInv'
        <4>1. formalParameters[t] \in Seq(Formals)
          BY DEF IInv
        <4>2. i \in 0..Len(formalParameters[t])
          BY <4>1 DEF FirstFailing, Failing
        <4> QED BY <3>2, <4>2, TakePreserves
      <3> QED BY <2>4, <3>1, <3>2 DEF Load
    <2>5. ASSUME Clear PROVE IInv'
      <3>1. /\ ev'.status = "INVALID" /\ ev'.slots = ev.slots
            /\ ev' = [status |-> ev'.status, type |-> ev'.type, slots |-> ev'.slots]
        BY <2>5 DEF Clear, IInv
      <3>2. outcome' # "ABORTED" /\ UNCHANGED <<values, formalParameters, known>>
        BY <2>5 DEF Clear, Running
      <3> QED BY <3>1, <3>2 DEF IInv, AbortsOnlyOnLateParameter
    <2>6. ASSUME NEW name, Get(name) PROVE IInv'
      <3>1. UNCHANGED <<values, formalParameters, ev, known>>
        BY <2>6 DEF Get
      <3>2. ASSUME outcome' = "ABORTED"
            PROVE  ev.status = "FILLED" /\ Len(known) < Len(formalParameters[ev.type])
        <4>1. ev.status = "FILLED"
          BY <2>6 DEF Get
        <4> DEFINE i == CHOOSE j \in Named(ev.type, name) : TRUE
        <4>2. Named(ev.type, name) # {} /\ ev.slots[i].state # "FPFILLED"
          BY <2>6, <3>2 DEF Get
        <4>3. i \in Named(ev.type, name)
          BY <4>2
        <4> HIDE DEF i
        <4>4. ev.type \in EventTypes /\ formalParameters[ev.type] \in Seq(Formals) /\ known \in Seq(Formals)
          BY <4>1 DEF IInv
        <4>5. i \in 1..Len(formalParameters[ev.type])
          BY <4>3, <4>4 DEF Named
        <4>6. i \notin 1..Len(known)
          BY <4>1, <4>2 DEF IInv
        <4> QED BY <4>1, <4>4, <4>5, <4>6
      <3> QED BY <3>1, <3>2 DEF IInv, AbortsOnlyOnLateParameter
    <2>7. ASSUME UNCHANGED vars PROVE IInv'
      BY <2>7 DEF vars, IInv, AbortsOnlyOnLateParameter
    <2> QED BY <2>1, <2>2, <2>3, <2>4, <2>5, <2>6, <2>7 DEF Next
  <1> QED BY <1>1, <1>2, PTL DEF Spec

\* Whatever types the event had before, a valid event has all the parameters
\* that its type had when the event took it (setType, load, generate).
THEOREM ParametersOfValidEvents == Spec => []KnownParametersAvailable
  <1>1. IInv => KnownParametersAvailable
    <2> SUFFICES ASSUME IInv, ev.status = "FILLED"
                 PROVE  /\ Len(known) <= Len(ev.slots)
                        /\ \A i \in 1..Len(known) :
                             /\ formalParameters[ev.type][i] = known[i]
                             /\ ev.slots[i].state = "FPFILLED" /\ ev.slots[i].fp = known[i]
      BY DEF KnownParametersAvailable
    <2>1. PICK S : ev.slots \in Seq(S)
      BY DEF IInv
    <2>2. Len(ev.slots) \in Nat /\ DOMAIN ev.slots = 1..Len(ev.slots) /\ Len(known) \in Nat
      BY <2>1 DEF IInv
    <2>3. Len(known) > 0 => Len(known) \in DOMAIN ev.slots
      <3>1. \A i \in 1..Len(known) : i \in DOMAIN ev.slots
        BY DEF IInv
      <3> QED BY <2>2, <3>1
    <2> QED BY <2>2, <2>3 DEF IInv
  <1> QED BY <1>1, Inductive, PTL

\* The life cycle assertions hold, whatever the calls, as long as no parameter
\* is added to a type that the event has taken (setFormalParameterValues, get).
THEOREM AssertionsHold == Spec => []AbortsOnlyOnLateParameter
  <1>1. IInv => AbortsOnlyOnLateParameter
    BY DEF IInv
  <1> QED BY <1>1, Inductive, PTL
=============================================================================
