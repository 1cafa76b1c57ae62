----------------------------- MODULE EventObject -----------------------------
(***************************************************************************)
(* The one Event object of a simulation sequence and its parameters        *)
(* (event.cpp, event-impl.h, parameters-impl.h).  The object is given one  *)
(* type after the other, when an event is generated or loaded; its vector  *)
(* of ParameterValues is meant to be reused from one to the next.          *)
(***************************************************************************)
EXTENDS Integers, Sequences, FiniteSets

CONSTANTS EventTypes,
          Formals,      \* the FormalParameterValues of the program
          Name,         \* [Formals -> the name each is registered under]
          Length,       \* [Formals -> their length]
          LoadFails,    \* the formals whose doLoad reports an error
          Sizeof,       \* the size of a value
          DefaultSize,  \* the bufferSize of a new ParameterValues
          None,         \* nullptr
          MaxAllocated  \* bound: ParameterValues made for the event

ASSUME FormalsAssumption ==
  /\ Length \in [Formals -> Nat \ {0}] /\ Name \in [Formals -> STRING]
  /\ LoadFails \subseteq Formals
  /\ None \notin Formals \cup EventTypes
ASSUME SizeAssumption ==
  Sizeof \in Nat \ {0, 1} /\ DefaultSize \in Nat /\ MaxAllocated \in Nat

VARIABLES values,            \* [constant lists made -> their ParameterValues]
          formalParameters,  \* [EventTypes -> sequence of formals]
          ev,                \* the Event: [status, type, slots]
          allocated,         \* ParameterValues made by setType so far
          outcome,           \* of the last call
          known              \* Auxiliary: the formals of ev's type when it took it
vars == <<values, formalParameters, ev, allocated, outcome, known>>

----------------------------------------------------------------------------
(* ParameterValues. *)

New(size) == [state |-> "UNUSED", fp |-> None, nbValues |-> 0, bufferSize |-> size]

Powers == {2^k : k \in 0..30}
\* Its shift count exceeds the width of an int: undefined, and masked on x86.
next_power2(n) == CHOOSE p \in Powers : p >= n /\ \A r \in Powers : r >= n => p <= r

setCapacity(pv, n) ==
  IF n * Sizeof < pv.bufferSize THEN [pv EXCEPT !.bufferSize = next_power2(n * Sizeof)] ELSE pv

\* setFormalParameterValues asserts that pv is UNUSED.
initPV(pv, fp) == setCapacity([pv EXCEPT !.state = "FPLINKED", !.fp = fp], Length[fp])
push(pv) == setCapacity([pv EXCEPT !.nbValues = @ + 1], pv.nbValues + 1)
filled(pv) == [pv EXCEPT !.state = "FPFILLED"]

\* FormalConstantList: a buffer of the right size, then one push per value.
ConstantList(fp) ==
  LET pushed[n \in 0..Length[fp]] ==
        IF n = 0 THEN initPV(New(Length[fp] * Sizeof), fp) ELSE push(pushed[n - 1])
  IN  filled(pushed[Length[fp]])

----------------------------------------------------------------------------
(* Events. *)

Running == outcome # "ABORTED"   \* a failed assertion stops the program

Init ==
  /\ values = [fp \in {} |-> New(0)]
  /\ formalParameters = [t \in EventTypes |-> << >>]
  /\ ev = [status |-> "INVALID", type |-> None, slots |-> << >>]
  /\ allocated = 0
  /\ outcome = "none"
  /\ known = << >>

Make(fp) ==
  /\ Running /\ fp \notin DOMAIN values
  /\ values' = [f \in DOMAIN values \cup {fp} |-> IF f = fp THEN ConstantList(fp) ELSE values[f]]
  /\ UNCHANGED <<formalParameters, ev, allocated, outcome, known>>

Named(t, name) == {i \in DOMAIN formalParameters[t] : Name[formalParameters[t][i]] = name}

RegisterParameter(t, fp) ==
  /\ Running /\ fp \in DOMAIN values
  /\ IF Named(t, Name[fp]) = {}
     THEN formalParameters' = [formalParameters EXCEPT ![t] = Append(@, fp)] /\ UNCHANGED outcome
     ELSE outcome' = "ExistingName" /\ UNCHANGED formalParameters
  /\ UNCHANGED <<values, ev, allocated, known>>

\* clear() resets the first parameters.size() parameters: none, since the
\* vector is only ever reserved.
Clear ==
  /\ Running
  /\ ev' = [ev EXCEPT !.status = "INVALID"]
  /\ UNCHANGED <<values, formalParameters, allocated, outcome, known>>

setType_KeepsOld(t) ==
  LET n == Len(formalParameters[t])
      cap == Len(ev.slots)
  IN  [i \in 1..(IF n > cap THEN n ELSE cap) |-> IF i <= cap THEN ev.slots[i] ELSE New(DefaultSize)]
\* The slots of the event once it has taken type t: parameters.size() is 0,
\* so that all those of t are new, and a larger vector loses the old ones.
setType(t) ==
  LET n == Len(formalParameters[t])
      cap == Len(ev.slots)
  IN  [i \in 1..(IF n > cap THEN n ELSE cap) |-> IF i <= n THEN New(DefaultSize) ELSE ev.slots[i]]

FillUpTo(slots, t, n) ==
  [i \in DOMAIN slots |->
     IF i <= n THEN filled(initPV(slots[i], formalParameters[t][i])) ELSE slots[i]]

\* The event takes type t; its first n parameters are generated or loaded.
Take(t, n, status) ==
  /\ Running
  /\ allocated + Len(formalParameters[t]) <= MaxAllocated
  /\ allocated' = allocated + Len(formalParameters[t])
  /\ known' = formalParameters[t]
  /\ LET slots == setType(t)
     IN  IF \A i \in 1..n : slots[i].state = "UNUSED"
         THEN /\ ev' = [status |-> status, type |-> t, slots |-> FillUpTo(slots, t, n)]
              /\ outcome' = IF status = "FILLED" THEN "done" ELSE "error"
         ELSE /\ ev' = [status |-> "TYPED", type |-> t, slots |-> slots]
              /\ outcome' = "ABORTED"
  /\ UNCHANGED <<values, formalParameters>>

Generate(t) == Take(t, Len(formalParameters[t]), "FILLED")

Failing(t) == {i \in DOMAIN formalParameters[t] : formalParameters[t][i] \in LoadFails}

FirstFailing(t) == {i \in Failing(t) : \A j \in Failing(t) : i <= j}

Load_IgnoresErrors(t) ==
  \/ Failing(t) = {} /\ Generate(t)
  \/ \E i \in FirstFailing(t) : Take(t, i, "FILLED")
\* loadEventContent: the first parameter that fails ends the load, filled.
Load(t) ==
  \/ Failing(t) = {} /\ Generate(t)
  \/ \E i \in FirstFailing(t) : Take(t, i, "TYPED")

\* getParameter(name)->get(...) by a transition, on a valid event.
Get(name) ==
  /\ Running /\ ev.status = "FILLED"
  /\ outcome' =
       IF Named(ev.type, name) = {} THEN "nullptr"
       ELSE LET i == CHOOSE j \in Named(ev.type, name) : TRUE
            IN  IF i \notin DOMAIN ev.slots THEN "GARBAGE"
                ELSE IF ev.slots[i].state # "FPFILLED" THEN "ABORTED"
                ELSE IF ev.slots[i].fp = formalParameters[ev.type][i] THEN "its value"
                ELSE "another value"
  /\ UNCHANGED <<values, formalParameters, ev, allocated, known>>

Next ==
  \/ \E fp \in Formals : Make(fp)
  \/ \E t \in EventTypes, fp \in Formals : RegisterParameter(t, fp)
  \/ \E t \in EventTypes : Generate(t) \/ Load(t)
  \/ Clear
  \/ \E name \in {Name[fp] : fp \in Formals} : Get(name)

Spec == Init /\ [][Next]_vars
=============================================================================
