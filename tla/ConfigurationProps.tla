-------------------------- MODULE ConfigurationProps --------------------------
(***************************************************************************)
(* What the rest of MarTo relies on in a configuration.                    *)
(***************************************************************************)
EXTENDS Configuration

\* Names and objects correspond; ids and codes are places in the vectors.
TypeOK ==
  /\ transitionsMap \subseteq Transitions
  /\ \A name \in DOMAIN eventTypesMap : Name[eventTypesMap[name]] = name
  /\ \A name \in DOMAIN queueConfigsMap : Name[queueConfigsMap[name]] = name
  /\ Range(eventTypesVector) = Range(eventTypesMap)
  /\ Range(queueConfigsVector) = Range(queueConfigsMap)
  /\ IsInjective(eventTypesVector) /\ IsInjective(queueConfigsVector)
  /\ DOMAIN number = Range(eventTypesVector) \cup Range(queueConfigsVector)
  /\ outcome \in {"none", "registered", "same", "ExistingName", "UnknownName", "DLOpenError"}

\* getEventType: the code in a stored event still gives the type it was stored
\* with, whatever was registered since or could not be.
CodesDecode ==
  \A e \in stored : e.code < Len(eventTypesVector) /\ eventTypesVector[e.code + 1] = e.type

\* Point::at: the id of a queue finds the state of that very queue, in every
\* point built after the queue was registered.
IdsFindQueues ==
  \A p \in points : \A i \in DOMAIN p :
    p[i] \in DOMAIN number /\ number[p[i]] = i - 1 /\ queueConfigsMap[Name[p[i]]] = p[i]

\* Libraries are opened only once libltdl is set up, however often that failed
\* before, and the user's directory always comes before that of the package.
LibrariesFound ==
  /\ initialized => Range(InitCalls) \subseteq Range(ltdl)
  /\ \A i \in DOMAIN ltdl : ltdl[i] = "PKGLIBDIR" =>
       \A d \in Range(LibraryPath) : \E j \in 1..i : ltdl[j] = d

\* "rate of eventType are taken into account" (global.h:62): of the draws r
\* with 0 < r <= ratesSum each type gets as many as its rate, one for each, and
\* 0 gets one as well, so that the loop never falls through.
DrawsFollowRates ==
  /\ \A r \in 0..ratesSum : eventTypesVector # << >> => Cardinality(Chosen(r)) = 1
  /\ \A et \in Range(eventTypesVector) : Cardinality({r \in 1..ratesSum : et \in Chosen(r)}) = Rate[et]
=============================================================================
