---------------------------- MODULE Configuration ----------------------------
(***************************************************************************)
(* A Configuration (global.cpp): the transitions, queues and event types   *)
(* registered so far, the codes and ids they were given, the draw of an    *)
(* event type, and the loading of a library of transitions.  Around it,    *)
(* what depends on these numbers: the codes of the events stored in a      *)
(* history, and the points of the state space.                             *)
(***************************************************************************)
EXTENDS Integers, Sequences, FiniteSets, SequencesExt

CONSTANTS Transitions, Library,  \* transition names; those of the library, in order
          EventTypes, Queues,    \* the objects the program tries to register
          Name,                  \* [EventTypes \cup Queues -> their names]
          Transition,            \* [EventTypes -> the name of their transition]
          Rate,                  \* [EventTypes -> Nat]
          LibraryPath,           \* the directories of MARTO_LIBRARY_PATH, none or one
          MaxPoints,             \* bound: points built
          MaxCalls               \* bound: calls of libltdl before it is initialized

ASSUME ConfigurationAssumption ==
  /\ Rate \in [EventTypes -> Nat] /\ Transition \in [EventTypes -> Transitions]
  /\ Range(Library) \subseteq Transitions /\ EventTypes \cap Queues = {}
  /\ MaxPoints \in Nat /\ MaxCalls \in Nat
  /\ LibraryPath \in {<< >>, <<"MARTO_LIBRARY_PATH">>}

VARIABLES transitionsMap,                    \* the set of names registered
          eventTypesMap, queueConfigsMap,    \* [names registered -> object]
          eventTypesVector, queueConfigsVector,
          number,      \* [objects registered -> their code or id]
          ratesSum,
          points,      \* the points built, each the sequence of its queues
          stored,      \* the events in the history: [code, the type it was stored with]
          initialized, \* the static variable of loadTransitionLibrary
          ltdl,        \* the calls of libltdl that have succeeded
          outcome      \* of the last call
vars == <<transitionsMap, eventTypesMap, queueConfigsMap, eventTypesVector,
          queueConfigsVector, number, ratesSum, points, stored, initialized, ltdl, outcome>>
library == <<initialized, ltdl>>
registries == <<eventTypesMap, queueConfigsMap, eventTypesVector,
                queueConfigsVector, number, ratesSum>>

Put(f, x, v) == [y \in DOMAIN f \cup {x} |-> IF y = x THEN v ELSE f[y]]

Init ==
  /\ transitionsMap = {} /\ eventTypesMap = << >> /\ queueConfigsMap = << >>
  /\ eventTypesVector = << >> /\ queueConfigsVector = << >>
  /\ number = << >> /\ ratesSum = 0
  /\ points = {} /\ stored = {}
  /\ initialized = FALSE /\ ltdl = << >>
  /\ outcome = "none"

----------------------------------------------------------------------------
\* The constructor of a transition registers it.
NewTransition(name) ==
  /\ IF name \in transitionsMap
     THEN outcome' = "ExistingName" /\ UNCHANGED transitionsMap
     ELSE outcome' = "registered" /\ transitionsMap' = transitionsMap \cup {name}
  /\ UNCHANGED <<registries, points, stored, library>>

\* The first call initializes libltdl: it looks for libraries in the directory of
\* the user, then in that of the package, and loads them as it is advised to.
InitCalls == <<"lt_dlinit">> \o LibraryPath \o <<"PKGLIBDIR", "advise_init", "advise_ext", "advise_local">>

InitializeFails_Forgotten ==
  \E n \in 0..(Len(InitCalls) - 1) :
    /\ ~initialized /\ Len(ltdl) + n + Len(InitCalls) <= MaxCalls
    /\ ltdl' = ltdl \o SubSeq(InitCalls, 1, n) /\ initialized' = TRUE
\* A call may fail.  The next load then begins again with the first one.
InitializeFails ==
  \E n \in 0..(Len(InitCalls) - 1) :
    /\ ~initialized /\ Len(ltdl) + n + Len(InitCalls) <= MaxCalls
    /\ ltdl' = ltdl \o SubSeq(InitCalls, 1, n) /\ UNCHANGED initialized
Initialize ==
  /\ initialized' = TRUE
  /\ ltdl' = IF initialized THEN ltdl ELSE ltdl \o InitCalls

\* initTransitionLibrary: one transition after the other, until a name exists;
\* what was registered before stays, what comes after is not there.
InitTransitionLibrary ==
  LET taken == {i \in DOMAIN Library : Library[i] \in transitionsMap}
      upTo == {i \in DOMAIN Library : \A j \in taken : i < j}
  IN  /\ transitionsMap' = transitionsMap \cup {Library[i] : i \in upTo}
      /\ outcome' = IF taken = {} THEN "registered" ELSE "ExistingName"

\* The library is not found, or has no initTransitionLibrary.
LoadFails == outcome' = "DLOpenError" /\ UNCHANGED transitionsMap

LoadTransitionLibrary ==
  /\ \/ InitializeFails /\ LoadFails
     \/ Initialize /\ LoadFails
     \/ Initialize /\ InitTransitionLibrary
  /\ UNCHANGED <<registries, points, stored>>

RegisterQueue_Overwrites(q) ==
  /\ queueConfigsMap' = Put(queueConfigsMap, Name[q], q)
  /\ queueConfigsVector' = Append(queueConfigsVector, q)
  /\ number' = Put(number, q, Len(queueConfigsVector))
  /\ outcome' = "registered"
RegisterQueue_IdAfterPush(q) ==
  /\ Name[q] \notin DOMAIN queueConfigsMap
  /\ queueConfigsMap' = Put(queueConfigsMap, Name[q], q)
  /\ queueConfigsVector' = Append(queueConfigsVector, q)
  /\ number' = Put(number, q, Len(queueConfigsVector) + 1)
  /\ outcome' = "registered"
\* _register: insert, or find the same object, or refuse.
RegisterQueue(q) ==
  IF Name[q] \in DOMAIN queueConfigsMap
  THEN /\ outcome' = IF queueConfigsMap[Name[q]] = q THEN "same" ELSE "ExistingName"
       /\ UNCHANGED <<queueConfigsMap, queueConfigsVector, number>>
  ELSE /\ queueConfigsMap' = Put(queueConfigsMap, Name[q], q)
       /\ queueConfigsVector' = Append(queueConfigsVector, q)
       /\ number' = Put(number, q, Len(queueConfigsVector))
       /\ outcome' = "registered"

NewQueue(q) ==
  /\ RegisterQueue(q)
  /\ UNCHANGED <<transitionsMap, eventTypesMap, eventTypesVector, ratesSum, points, stored, library>>

Insert_Front(et) == <<et>> \o eventTypesVector
Insert(et) == Append(eventTypesVector, et)

RegisterEventType_SumAnyway(et) ==
  /\ ratesSum' = ratesSum + Rate[et]
  /\ IF Name[et] \in DOMAIN eventTypesMap
     THEN /\ outcome' = IF eventTypesMap[Name[et]] = et THEN "same" ELSE "ExistingName"
          /\ UNCHANGED <<eventTypesMap, eventTypesVector, number>>
     ELSE /\ eventTypesMap' = Put(eventTypesMap, Name[et], et)
          /\ eventTypesVector' = Insert(et)
          /\ number' = Put(number, et, Len(eventTypesVector))
          /\ outcome' = "registered"
RegisterEventType(et) ==
  IF Name[et] \in DOMAIN eventTypesMap
  THEN /\ outcome' = IF eventTypesMap[Name[et]] = et THEN "same" ELSE "ExistingName"
       /\ UNCHANGED <<eventTypesMap, eventTypesVector, number, ratesSum>>
  ELSE /\ eventTypesMap' = Put(eventTypesMap, Name[et], et)
       /\ eventTypesVector' = Insert(et)
       /\ number' = Put(number, et, Len(eventTypesVector))
       /\ ratesSum' = ratesSum + Rate[et]
       /\ outcome' = "registered"

\* The constructor looks its transition up before it registers the type.
NewEventType(et) ==
  /\ IF Transition[et] \in transitionsMap
     THEN RegisterEventType(et)
     ELSE /\ outcome' = "UnknownName"
          /\ UNCHANGED <<eventTypesMap, eventTypesVector, number, ratesSum>>
  /\ UNCHANGED <<transitionsMap, queueConfigsMap, queueConfigsVector, points, stored, library>>

----------------------------------------------------------------------------
\* The sum of the rates of the first n types, as getRandomEventType adds them.
PartialRatesSum(n) == FoldLeft(LAMBDA sum, et : sum + Rate[et], 0, SubSeq(eventTypesVector, 1, n))

\* getRandomEventType for the draw r: the types of which the loop returns the
\* first one; none when it runs through to the assertion.
Reached(r) == {i \in DOMAIN eventTypesVector : PartialRatesSum(i) >= r}
Chosen(r) == {eventTypesVector[i] : i \in {j \in Reached(r) : \A k \in Reached(r) : j <= k}}

NewPoint ==
  /\ Cardinality(points) < MaxPoints
  /\ points' = points \cup {queueConfigsVector}
  /\ outcome' = "registered"
  /\ UNCHANGED <<transitionsMap, registries, stored, library>>

\* storeEventContent writes the code of the event's type.
StoreEvent(et) ==
  /\ et \in Range(eventTypesVector)
  /\ stored' = stored \cup {[code |-> number[et], type |-> et]}
  /\ outcome' = "registered"
  /\ UNCHANGED <<transitionsMap, registries, points, library>>

Next ==
  \/ \E name \in Transitions : NewTransition(name)
  \/ LoadTransitionLibrary \/ NewPoint
  \/ \E q \in Queues : NewQueue(q)
  \/ \E et \in EventTypes : NewEventType(et) \/ StoreEvent(et)

Spec == Init /\ [][Next]_vars
=============================================================================
