---------------------- MODULE DeterministicStreamsProofs ----------------------
(***************************************************************************)
(* Proofs about DeterministicStreams, for any Random objects, streams and  *)
(* bounds.  The invariants need to know that the mark of an object is what *)
(* its auxiliary variable says (MarkIsMark), that every moment has one     *)
(* first stream, wherever it is kept (SameStart), and that the streams     *)
(* made since are the next ones from there (SpawnedInOrder).               *)
(***************************************************************************)
EXTENDS DeterministicStreamsProps, TLAPS

Gens == [next_stream_id : Nat, marked_next_stream_id : Nat]
Strs == [stream_id : Nat, next_pos : Nat, marked_pos : Nat]

MarkIsMark == \A o \in Randoms : mark[o] # << >> => Fields(gen[o], crs[o]) = mark[o]

MomentsPast ==
  /\ \A o \in Randoms : moment[o] <= moments
  /\ \A s \in DOMAIN saved : saved[s].moment <= moments

\* What an object is like while it goes on from a moment.
InOrder(g, st, made) ==
  /\ st.stream_id = 0 /\ g.marked_next_stream_id >= 1
  /\ g.next_stream_id = g.marked_next_stream_id + Len(made)
  /\ \A i \in 1..Len(made) : made[i] = g.marked_next_stream_id + i - 1
SpawnedInOrder ==
  /\ \A o \in Randoms : moment[o] # 0 => InOrder(gen[o], crs[o], spawned[o])
  /\ \A s \in DOMAIN saved : saved[s].moment # 0 => saved[s].fields[2] = 0 /\ saved[s].fields[1] >= 1

SameStart ==
  /\ \A p, q \in Randoms : moment[p] # 0 /\ moment[p] = moment[q] =>
       gen[p].marked_next_stream_id = gen[q].marked_next_stream_id
  /\ \A p \in Randoms, s \in DOMAIN saved : moment[p] # 0 /\ moment[p] = saved[s].moment =>
       gen[p].marked_next_stream_id = saved[s].fields[1]
  /\ \A s, t \in DOMAIN saved : saved[s].moment # 0 /\ saved[s].moment = saved[t].moment =>
       saved[s].fields[1] = saved[t].fields[1]

IInv == TypeOK /\ MarkIsMark /\ StoredStateIsMarked /\ MomentsPast /\ SpawnedInOrder /\ SameStart

----------------------------------------------------------------------------
\* The object o goes on from moment m in the state <<g, st>>, whose mark is mk,
\* if known: what its construction, its marks and its loads come down to.
GoesOn(o, g, st, m, mk) ==
  /\ gen' = [gen EXCEPT ![o] = g]
  /\ crs' = [crs EXCEPT ![o] = st]
  /\ Continue(o, m, mk)
  /\ created' \subseteq Randoms
  /\ UNCHANGED <<others, saved>>
  /\ moments' \in {moments, moments + 1} /\ m <= moments'
  /\ mk # << >> => Fields(g, st) = mk
  /\ m # 0 => InOrder(g, st, << >>)
  /\ m # 0 => \/ m > moments
              \/ \E s \in DOMAIN saved :
                   saved[s].moment = m /\ saved[s].fields[1] = g.marked_next_stream_id

LEMMA SavedIsSaved ==
  ASSUME IInv, NEW s \in DOMAIN saved
  PROVE  saved[s] \in [fields : Nat \X Nat \X Nat, moment : Nat, mark : States]
  <1> DEFINE E == [fields : Nat \X Nat \X Nat, moment : Nat, mark : States]
  <1>1. saved \in Seq(E)
    BY DEF IInv, TypeOK
  <1> HIDE DEF E
  <1>2. saved[s] \in E
    BY <1>1
  <1> QED BY <1>2 DEF E

LEMMA Going ==
  ASSUME IInv, NEW o \in Randoms, NEW g \in Gens, NEW st \in Strs, NEW m \in Nat,
         NEW mk \in States, GoesOn(o, g, st, m, mk)
  PROVE  IInv'
  <1>1. /\ gen \in [Randoms -> Gens] /\ crs \in [Randoms -> Strs] /\ moment \in [Randoms -> Nat]
        /\ mark \in [Randoms -> States] /\ spawned \in [Randoms -> Seq(Nat)]
        /\ drawn \in [Randoms -> Seq(Nat \X Nat)] /\ moments \in Nat
    BY DEF IInv, TypeOK, Gens, Strs
  <1>2. /\ gen'[o] = g /\ crs'[o] = st /\ moment'[o] = m /\ mark'[o] = mk /\ spawned'[o] = << >>
        /\ saved' = saved /\ moments' >= moments /\ moments' \in Nat /\ m <= moments'
        /\ \A p \in Randoms \ {o} :
             /\ gen'[p] = gen[p] /\ crs'[p] = crs[p] /\ moment'[p] = moment[p]
             /\ mark'[p] = mark[p] /\ spawned'[p] = spawned[p]
    BY <1>1 DEF GoesOn, Continue
  <1>3. MarkIsMark'
    BY <1>2 DEF IInv, MarkIsMark, GoesOn, Fields
  <1>4. StoredStateIsMarked'
    BY <1>2 DEF IInv, StoredStateIsMarked
  <1>5. \A s \in DOMAIN saved : saved[s].moment \in Nat /\ saved[s].moment <= moments
    BY SavedIsSaved DEF IInv, MomentsPast
  <1>6. MomentsPast'
    <2>1. \A p \in Randoms \ {o} : moment[p] <= moments /\ moment[p] \in Nat
      BY <1>1 DEF IInv, MomentsPast
    <2>3. \A p \in Randoms \ {o} : moment'[p] <= moments'
      BY <1>1, <1>2, <2>1
    <2>2. \A s \in DOMAIN saved' : saved'[s].moment <= moments'
      BY <1>1, <1>2, <1>5
    <2> QED BY <1>2, <2>2, <2>3 DEF MomentsPast
  <1>7. SpawnedInOrder'
    BY <1>2 DEF IInv, SpawnedInOrder, GoesOn, InOrder
  <1>8. SameStart'
    <2>1. \A p \in Randoms \ {o} : moment[p] <= moments /\ moment[p] \in Nat
      BY <1>1 DEF IInv, MomentsPast
    <2>2. \A s \in DOMAIN saved : m # 0 /\ saved[s].moment = m =>
            saved[s].fields[1] = g.marked_next_stream_id
      <3> SUFFICES ASSUME NEW s \in DOMAIN saved, m # 0, saved[s].moment = m
                   PROVE  saved[s].fields[1] = g.marked_next_stream_id
        OBVIOUS
      <3>1. ~(m > moments)
        BY <1>1, <1>5
      <3>2. PICK t \in DOMAIN saved :
              saved[t].moment = m /\ saved[t].fields[1] = g.marked_next_stream_id
        BY <3>1 DEF GoesOn
      <3> QED BY <3>2 DEF IInv, SameStart
    <2>3. \A p \in Randoms \ {o} : m # 0 /\ moment[p] = m =>
            gen[p].marked_next_stream_id = g.marked_next_stream_id
      BY <1>1, <2>1 DEF GoesOn, IInv, SameStart
    <2> QED BY <1>2, <2>2, <2>3 DEF IInv, SameStart
  <1>9. TypeOK'
    <2>1. gen' \in [Randoms -> Gens] /\ crs' \in [Randoms -> Strs]
      BY <1>1 DEF GoesOn
    <2>2. moment' \in [Randoms -> Nat] /\ mark' \in [Randoms -> States]
      BY <1>1 DEF GoesOn, Continue
    <2>3. spawned' \in [Randoms -> Seq(Nat)] /\ drawn' \in [Randoms -> Seq(Nat \X Nat)]
      <3>1. << >> \in Seq(Nat) /\ << >> \in Seq(Nat \X Nat)
        OBVIOUS
      <3> QED BY <1>1, <3>1 DEF GoesOn, Continue
    <2> QED BY <1>2, <2>1, <2>2, <2>3 DEF IInv, TypeOK, GoesOn, Gens, Strs
  <1> QED BY <1>3, <1>4, <1>6, <1>7, <1>8, <1>9 DEF IInv

\* A load gives a state of the right type, and the stored one when it succeeds.
LEMMA ReadGenerator ==
  ASSUME NEW g \in Gens, NEW f, f[1] \in Nat, NEW k, NEW garbage \in Nat
  PROVE  /\ LoadGenerator(g, f, k, garbage) \in Gens
         /\ Loaded(f, k) => LoadGenerator(g, f, k, garbage) = Generator(f[1])
  BY DEF LoadGenerator, Generator, Loaded, Gens

LEMMA ReadStream ==
  ASSUME NEW st \in Strs, NEW f, f[2] \in Nat, f[3] \in Nat, NEW k, NEW garbage \in Nat
  PROVE  /\ LoadStream(st, f, k, garbage) \in Strs
         /\ Loaded(f, k) =>
              /\ LoadStream(st, f, k, garbage).stream_id = f[2]
              /\ LoadStream(st, f, k, garbage).marked_pos = LoadStream(st, f, k, garbage).next_pos
  <1>1. LoadStream(st, f, k, garbage) \in Strs
    BY DEF LoadStream, MarkedStream, Strs
  <1>2. ASSUME Loaded(f, k)
        PROVE  /\ LoadStream(st, f, k, garbage).stream_id = f[2]
               /\ LoadStream(st, f, k, garbage).marked_pos = LoadStream(st, f, k, garbage).next_pos
    <2>1. LoadStream(st, f, k, garbage) = MarkedStream([st EXCEPT !.stream_id = f[2], !.marked_pos = f[3]])
      BY <1>2 DEF LoadStream, Loaded
    <2>2. [st EXCEPT !.stream_id = f[2], !.marked_pos = f[3]] \in Strs
      BY DEF Strs
    <2> QED BY <2>1, <2>2 DEF MarkedStream, Strs
  <1> QED BY <1>1, <1>2

\* An object that reads one of the history goes on from its moment, or from none.
LEMMA Restoring ==
  ASSUME IInv, NEW o \in Randoms, NEW s \in DOMAIN saved, NEW k \in 0..3, NEW g \in Gens, NEW st \in Strs,
         gen' = [gen EXCEPT ![o] = g], crs' = [crs EXCEPT ![o] = st],
         IF Loaded(saved[s].fields, k) THEN Continue(o, saved[s].moment, Current(g, st))
                                       ELSE Continue(o, 0, << >>),
         Loaded(saved[s].fields, k) => /\ g = Generator(saved[s].fields[1])
                                       /\ st.stream_id = saved[s].fields[2]
                                       /\ st.marked_pos = st.next_pos,
         created' \subseteq Randoms, UNCHANGED <<others, saved, moments>>
  PROVE  IInv'
  <1>1. saved[s].fields[1] \in Nat /\ saved[s].moment \in Nat /\ saved[s].moment <= moments /\ moments \in Nat
    BY SavedIsSaved DEF IInv, TypeOK, MomentsPast
  <1>2. Current(g, st) \in States /\ << >> \in States
    BY DEF Current, States, Gens, Strs
  <1>3. CASE Loaded(saved[s].fields, k)
    <2>1. Fields(g, st) = Current(g, st)
      BY <1>3 DEF Fields, Current, Generator
    <2>2. saved[s].moment # 0 => InOrder(g, st, << >>) /\ saved[s].fields[1] = g.marked_next_stream_id
      BY <1>1, <1>3 DEF IInv, SpawnedInOrder, InOrder, Generator
    <2>3. GoesOn(o, g, st, saved[s].moment, Current(g, st))
      BY <1>1, <1>3, <2>1, <2>2 DEF GoesOn
    <2> QED BY <1>1, <1>2, <2>3, Going
  <1>4. CASE ~Loaded(saved[s].fields, k)
    <2>1. GoesOn(o, g, st, 0, << >>)
      BY <1>1, <1>4 DEF GoesOn
    <2> QED BY <1>2, <2>1, Going
  <1> QED BY <1>3, <1>4

THEOREM Inductive == Spec => []IInv
  <1>1. Init => IInv
    <2> SUFFICES ASSUME Init PROVE IInv
      OBVIOUS
    <2>1. Generator(0) \in Gens /\ Stream(0) \in Strs
      BY DEF Generator, Stream, Gens, Strs
    <2> QED BY <2>1, StreamsAssumption DEF Init, IInv, TypeOK, MarkIsMark, StoredStateIsMarked, MomentsPast,
               SpawnedInOrder, SameStart, States, Gens, Strs
  <1>2. IInv /\ [Next]_vars => IInv'
    <2> SUFFICES ASSUME IInv, [Next]_vars PROVE IInv'
      OBVIOUS
    <2>0. /\ \A o \in Randoms : gen[o] \in Gens /\ crs[o] \in Strs /\ moment[o] \in Nat
          /\ moments \in Nat
          /\ \A s \in DOMAIN saved : saved[s].fields \in Nat \X Nat \X Nat
      BY SavedIsSaved DEF IInv, TypeOK, Gens, Strs
    <2>1. ASSUME NEW o \in Randoms, NewRandom(o) PROVE IInv'
      <3>1. /\ Generator(1) \in Gens /\ Stream(0) \in Strs
            /\ Current(Generator(1), Stream(0)) \in States
            /\ Fields(Generator(1), Stream(0)) = Current(Generator(1), Stream(0))
            /\ InOrder(Generator(1), Stream(0), << >>)
        BY DEF Generator, Stream, Current, Fields, States, Gens, Strs, InOrder
      <3>2. GoesOn(o, Generator(1), Stream(0), moments + 1, Current(Generator(1), Stream(0)))
        BY <2>0, <2>1, <3>1 DEF NewRandom, GoesOn, IInv, TypeOK
      <3> QED BY <2>0, <3>1, <3>2, Going
    <2>2. ASSUME NEW o \in Randoms, NEW s \in DOMAIN saved, NEW k \in 0..3, Load(o, s, k) PROVE IInv'
      <3> DEFINE f == saved[s].fields
      <3>1. PICK garbage \in Garbage :
              LET g == LoadGenerator(gen[o], f, k, garbage)
                  st == IF k = 0 THEN crs[o] ELSE LoadStream(crs[o], f, k, garbage)
              IN  /\ gen' = [gen EXCEPT ![o] = g]
                  /\ crs' = [crs EXCEPT ![o] = st]
                  /\ IF Loaded(f, k) THEN Continue(o, saved[s].moment, Current(g, st))
                     ELSE Continue(o, 0, << >>)
        BY <2>2 DEF Load
      <3> DEFINE g == LoadGenerator(gen[o], f, k, garbage)
                 st == IF k = 0 THEN crs[o] ELSE LoadStream(crs[o], f, k, garbage)
      <3>2. garbage \in Nat /\ f[1] \in Nat /\ f[2] \in Nat /\ f[3] \in Nat
        BY <2>0, StreamsAssumption
      <3>3. g \in Gens /\ (Loaded(f, k) => g = Generator(f[1]))
        BY <2>0, <3>2, ReadGenerator
      <3>4. st \in Strs /\ (Loaded(f, k) => st.stream_id = f[2] /\ st.marked_pos = st.next_pos)
        <4>1. CASE k = 0
          BY <2>0, <4>1 DEF Loaded
        <4>2. CASE k # 0
          BY <2>0, <3>2, <4>2, ReadStream
        <4> QED BY <4>1, <4>2
      <3>5. created' \subseteq Randoms /\ UNCHANGED <<others, saved, moments>>
        BY <2>2 DEF Load, IInv, TypeOK
      <3> HIDE DEF g, st
      <3>6. /\ gen' = [gen EXCEPT ![o] = g] /\ crs' = [crs EXCEPT ![o] = st]
            /\ IF Loaded(f, k) THEN Continue(o, saved[s].moment, Current(g, st)) ELSE Continue(o, 0, << >>)
        BY <3>1 DEF g, st
      <3> QED BY <3>3, <3>4, <3>5, <3>6, Restoring
    <2>8. ASSUME NEW o \in Randoms, NEW s \in DOMAIN saved, NEW k \in 0..3, NewRandomFrom(o, s, k) PROVE IInv'
      <3> DEFINE f == saved[s].fields
      <3>1. PICK g0 \in Garbage, garbage \in Garbage :
              LET g == LoadGenerator(Generator(g0), f, k, garbage)
                  st == MarkedStream(LoadStream(Stream(0), f, k, garbage))
              IN  /\ gen' = [gen EXCEPT ![o] = g]
                  /\ crs' = [crs EXCEPT ![o] = st]
                  /\ IF Loaded(f, k) THEN Continue(o, saved[s].moment, Current(g, st))
                     ELSE Continue(o, 0, << >>)
        BY <2>8 DEF NewRandomFrom
      <3> DEFINE g == LoadGenerator(Generator(g0), f, k, garbage)
                 read == LoadStream(Stream(0), f, k, garbage)
                 st == MarkedStream(read)
      <3>2. g0 \in Nat /\ garbage \in Nat /\ f[1] \in Nat /\ f[2] \in Nat /\ f[3] \in Nat
        BY <2>0, StreamsAssumption
      <3>3. Generator(g0) \in Gens /\ Stream(0) \in Strs
        BY <3>2 DEF Generator, Stream, Gens, Strs
      <3>4. g \in Gens /\ read \in Strs /\ (Loaded(f, k) => g = Generator(f[1]) /\ read.stream_id = f[2])
        BY <3>2, <3>3, ReadGenerator, ReadStream
      <3>5. st \in Strs /\ st.stream_id = read.stream_id /\ st.marked_pos = st.next_pos
        <4> HIDE DEF read
        <4> QED BY <3>4 DEF MarkedStream, Strs
      <3>6. created' \subseteq Randoms /\ UNCHANGED <<others, saved, moments>>
        BY <2>8 DEF NewRandomFrom, IInv, TypeOK
      <3>7. /\ gen' = [gen EXCEPT ![o] = g] /\ crs' = [crs EXCEPT ![o] = st]
            /\ IF Loaded(f, k) THEN Continue(o, saved[s].moment, Current(g, st)) ELSE Continue(o, 0, << >>)
        BY <3>1
      <3> HIDE DEF g, read, st
      <3> QED BY <3>4, <3>5, <3>6, <3>7, Restoring
    <2>3. ASSUME NEW o \in Randoms, MarkCurrentState(o) PROVE IInv'
      <3> DEFINE g == MarkedGenerator(gen[o])
                 st == MarkedStream(crs[o])
                 m == IF moment[o] = 0 THEN 0 ELSE moments + 1
                 mk == Current(gen[o], crs[o])
      <3>1. g \in Gens /\ st \in Strs /\ mk \in States /\ m \in Nat /\ m <= moments + 1
        BY <2>0 DEF MarkedGenerator, MarkedStream, Current, States, Gens, Strs
      <3>2. Fields(g, st) = mk
        BY <2>0 DEF MarkedGenerator, MarkedStream, Current, Fields, Gens, Strs
      <3>3. m # 0 => InOrder(g, st, << >>) /\ m > moments
        <4>1. moment[o] # 0 => InOrder(gen[o], crs[o], spawned[o]) /\ Len(spawned[o]) \in Nat
          BY DEF IInv, SpawnedInOrder, TypeOK
        <4> QED BY <2>0, <4>1 DEF InOrder, MarkedGenerator, MarkedStream, Gens, Strs
      <3>4. /\ gen' = [gen EXCEPT ![o] = g] /\ crs' = [crs EXCEPT ![o] = st]
            /\ moments' = moments + 1 /\ Continue(o, m, mk) /\ created' \subseteq Randoms
            /\ UNCHANGED <<others, saved>>
        BY <2>3 DEF MarkCurrentState, IInv, TypeOK
      <3> HIDE DEF g, st, m, mk
      <3>5. GoesOn(o, g, st, m, mk)
        BY <2>0, <3>1, <3>2, <3>3, <3>4 DEF GoesOn
      <3> QED BY <3>1, <3>5, Going
    <2>4. ASSUME NEW o \in Randoms, StoreMarkedState(o) PROVE IInv'
      <3> DEFINE e == [fields |-> Fields(gen[o], crs[o]), moment |-> moment[o], mark |-> mark[o]]
                 E == [fields : Nat \X Nat \X Nat, moment : Nat, mark : States]
      <3>1. e \in E
        BY <2>0 DEF Fields, IInv, TypeOK, Gens, Strs
      <3>2. saved \in Seq(E) /\ saved' = Append(saved, e)
        BY <2>4 DEF StoreMarkedState, IInv, TypeOK
      <3>3. /\ DOMAIN saved' = DOMAIN saved \cup {Len(saved) + 1}
            /\ saved'[Len(saved) + 1] = e
            /\ \A i \in DOMAIN saved : i # Len(saved) + 1 /\ saved'[i] = saved[i]
        <4> HIDE DEF e, E
        <4>1. Len(saved) \in Nat /\ DOMAIN saved = 1..Len(saved)
          BY <3>2
        <4>2. Len(saved') = Len(saved) + 1 /\ DOMAIN saved' = 1..Len(saved')
          BY <3>1, <3>2
        <4> QED BY <3>1, <3>2, <4>1, <4>2
      <3>4. saved' \in Seq(E) /\ UNCHANGED <<created, gen, crs, others, moments, moment, mark, spawned, drawn>>
        BY <2>4, <3>1, <3>2 DEF StoreMarkedState, aux
      <3>5. /\ e.mark # << >> => e.fields = e.mark
            /\ e.moment <= moments
            /\ e.moment # 0 => e.fields[2] = 0 /\ e.fields[1] >= 1
            /\ e.moment = moment[o] /\ e.fields[1] = gen[o].marked_next_stream_id
        BY DEF IInv, MarkIsMark, MomentsPast, SpawnedInOrder, InOrder, Fields
      <3> HIDE DEF e
      <3>6. TypeOK'
        BY <3>4 DEF IInv, TypeOK
      <3>7. MarkIsMark' /\ StoredStateIsMarked'
        BY <3>3, <3>4, <3>5 DEF IInv, MarkIsMark, StoredStateIsMarked, Fields
      <3>8. MomentsPast' /\ SpawnedInOrder'
        BY <3>3, <3>4, <3>5 DEF IInv, MomentsPast, SpawnedInOrder, InOrder
      <3>9. SameStart'
        <4>1. \A p \in Randoms, t \in DOMAIN saved' :
                moment[p] # 0 /\ moment[p] = saved'[t].moment =>
                  gen[p].marked_next_stream_id = saved'[t].fields[1]
          BY <3>3, <3>5 DEF IInv, SameStart
        <4>2. \A t, u \in DOMAIN saved' :
                saved'[t].moment # 0 /\ saved'[t].moment = saved'[u].moment =>
                  saved'[t].fields[1] = saved'[u].fields[1]
          BY <3>3, <3>5 DEF IInv, SameStart
        <4> QED BY <3>4, <4>1, <4>2 DEF IInv, SameStart
      <3> QED BY <3>6, <3>7, <3>8, <3>9 DEF IInv
    <2>5. ASSUME NEW o \in Randoms, NewRandomStream(o) PROVE IInv'
      <3> DEFINE id == gen[o].next_stream_id
      <3>1. /\ gen' = [gen EXCEPT ![o].next_stream_id = id + 1]
            /\ spawned' = [spawned EXCEPT ![o] = Append(spawned[o], id)]
            /\ UNCHANGED <<created, crs, saved, moments, moment, mark, drawn>>
        BY <2>5 DEF NewRandomStream
      <3>2. id \in Nat /\ spawned[o] \in Seq(Nat)
        BY <2>0 DEF IInv, TypeOK, Gens
      <3>3. TypeOK'
        <4>1. others' \in [Randoms -> SUBSET (0..NStreams - 1)]
          <5>1. Exists(id) => id \in 0..NStreams - 1
            BY <3>2, StreamsAssumption DEF Exists
          <5> QED BY <2>5, <5>1 DEF NewRandomStream, IInv, TypeOK
        <4>2. gen' \in [Randoms -> Gens]
          <5>1. [gen[o] EXCEPT !.next_stream_id = id + 1] \in Gens
            BY <2>0, <3>2 DEF Gens
          <5>2. gen \in [Randoms -> Gens]
            BY DEF IInv, TypeOK, Gens
          <5> QED BY <3>1, <5>1, <5>2
        <4>3. spawned' \in [Randoms -> Seq(Nat)]
          BY <3>1, <3>2 DEF IInv, TypeOK
        <4> QED BY <3>1, <4>1, <4>2, <4>3 DEF IInv, TypeOK, Gens
      <3>4. /\ \A p \in Randoms : gen'[p].marked_next_stream_id = gen[p].marked_next_stream_id
            /\ \A p \in Randoms \ {o} : gen'[p] = gen[p] /\ spawned'[p] = spawned[p]
            /\ gen'[o].next_stream_id = id + 1 /\ spawned'[o] = Append(spawned[o], id)
        BY <2>0, <3>1 DEF IInv, TypeOK, Gens
      <3>5. MarkIsMark' /\ StoredStateIsMarked' /\ MomentsPast' /\ SameStart'
        BY <3>1, <3>4 DEF IInv, MarkIsMark, StoredStateIsMarked, MomentsPast, SameStart, Fields
      <3>6. ASSUME moment[o] # 0 PROVE InOrder(gen'[o], crs'[o], spawned'[o])
        <4>1. InOrder(gen[o], crs[o], spawned[o])
          BY <3>6 DEF IInv, SpawnedInOrder
        <4>2. gen[o].marked_next_stream_id \in Nat /\ Len(spawned[o]) \in Nat
          BY <2>0, <3>2 DEF Gens
        <4>3. id = gen[o].marked_next_stream_id + Len(spawned[o])
          BY <4>1 DEF InOrder
        <4>4. Len(spawned'[o]) = Len(spawned[o]) + 1
          BY <3>2, <3>4
        <4>5. ASSUME NEW i \in 1..Len(spawned'[o])
              PROVE  spawned'[o][i] = gen'[o].marked_next_stream_id + i - 1
          <5>1. CASE i = Len(spawned[o]) + 1
            BY <3>2, <3>4, <4>2, <4>3, <5>1
          <5>2. CASE i \in 1..Len(spawned[o])
            BY <3>2, <3>4, <4>1, <4>2, <5>2 DEF InOrder
          <5> QED BY <4>2, <4>4, <5>1, <5>2
        <4> QED BY <3>1, <3>4, <4>1, <4>2, <4>3, <4>4, <4>5 DEF InOrder
      <3>7. SpawnedInOrder'
        BY <3>1, <3>4, <3>6 DEF IInv, SpawnedInOrder
      <3> QED BY <3>3, <3>5, <3>7 DEF IInv
    <2>6. ASSUME NEW o \in Randoms, Draw(o) PROVE IInv'
      <3>1. /\ crs' \in {crs, [crs EXCEPT ![o].next_pos = crs[o].next_pos + 1]}
            /\ drawn' = [drawn EXCEPT ![o] = Append(drawn[o], <<crs[o].stream_id, crs[o].next_pos>>)]
            /\ UNCHANGED <<created, gen, others, saved, moments, moment, mark, spawned>>
        BY <2>6 DEF Draw
      <3>2. TypeOK'
        <4>1. crs' \in [Randoms -> Strs]
          <5>1. [crs[o] EXCEPT !.next_pos = crs[o].next_pos + 1] \in Strs
            BY <2>0 DEF Strs
          <5>2. crs \in [Randoms -> Strs]
            BY DEF IInv, TypeOK, Strs
          <5> QED BY <3>1, <5>1, <5>2
        <4>2. drawn' \in [Randoms -> Seq(Nat \X Nat)]
          BY <2>0, <3>1 DEF IInv, TypeOK, Strs
        <4> QED BY <3>1, <4>1, <4>2 DEF IInv, TypeOK, Strs
      <3>3. \A p \in Randoms : crs'[p].stream_id = crs[p].stream_id /\ crs'[p].marked_pos = crs[p].marked_pos
        <4>1. crs \in [Randoms -> Strs]
          BY DEF IInv, TypeOK, Strs
        <4>2. \A p \in Randoms : crs'[p] \in {crs[p], [crs[p] EXCEPT !.next_pos = crs[p].next_pos + 1]}
          BY <3>1, <4>1
        <4> QED BY <4>1, <4>2 DEF Strs
      <3> QED BY <3>1, <3>2, <3>3 DEF IInv, MarkIsMark, StoredStateIsMarked, MomentsPast,
                 SpawnedInOrder, InOrder, SameStart, Fields
    <2>7. CASE UNCHANGED vars
      BY <2>7 DEF vars, code, aux, IInv, TypeOK, MarkIsMark, StoredStateIsMarked, MomentsPast,
         SpawnedInOrder, InOrder, SameStart, Fields
    <2> QED BY <2>1, <2>2, <2>3, <2>4, <2>5, <2>6, <2>7, <2>8 DEF Next
  <1> QED BY <1>1, <1>2, PTL DEF Spec

\* The variables keep their types, and the streams made exist in the fabric
\* (newRandomStream, stream).
THEOREM TypeCorrect == Spec => []TypeOK
  <1>1. IInv => TypeOK
    BY DEF IInv
  <1> QED BY <1>1, Inductive, PTL

\* Every object of the history holds the state that its writer had at its last
\* mark or successful load (storeMarkedState).
THEOREM StoredIsMarked == Spec => []StoredStateIsMarked
  <1>1. IInv => StoredStateIsMarked
    BY DEF IInv
  <1> QED BY <1>1, Inductive, PTL

\* All objects that go on from one marked moment make the same streams, in the
\* same order (load, newRandomStream).
THEOREM StreamsAlwaysReplay == Spec => []StreamsReplay
  <1>1. IInv => StreamsReplay
    <2> SUFFICES ASSUME IInv, NEW p \in created, NEW q \in created,
                        moment[p] # 0, moment[p] = moment[q]
                 PROVE  Replay(spawned[p], spawned[q])
      BY DEF StreamsReplay
    <2>1. p \in Randoms /\ q \in Randoms /\ Len(spawned[p]) \in Nat /\ Len(spawned[q]) \in Nat
      BY DEF IInv, TypeOK
    <2>2. InOrder(gen[p], crs[p], spawned[p]) /\ InOrder(gen[q], crs[q], spawned[q])
      BY <2>1 DEF IInv, SpawnedInOrder
    <2>3. gen[p].marked_next_stream_id = gen[q].marked_next_stream_id
      BY <2>1 DEF IInv, SameStart
    <2> QED BY <2>1, <2>2, <2>3 DEF Replay, IsPrefix, InOrder
  <1> QED BY <1>1, Inductive, PTL

\* The streams an object makes since a marked moment differ from one another
\* and from its current stream (newRandomStream).
THEOREM StreamsAlwaysDiffer == Spec => []StreamsDiffer
  <1>1. IInv => StreamsDiffer
    <2> SUFFICES ASSUME IInv, NEW o \in created, moment[o] # 0
                 PROVE  /\ \A i, j \in DOMAIN spawned[o] : spawned[o][i] = spawned[o][j] => i = j
                        /\ \A i \in DOMAIN spawned[o] : spawned[o][i] # crs[o].stream_id
      BY DEF StreamsDiffer
    <2>1. /\ o \in Randoms /\ spawned[o] \in Seq(Nat) /\ gen[o].marked_next_stream_id \in Nat
      BY DEF IInv, TypeOK
    <2>2. InOrder(gen[o], crs[o], spawned[o])
      BY <2>1 DEF IInv, SpawnedInOrder
    <2>3. DOMAIN spawned[o] = 1..Len(spawned[o]) /\ Len(spawned[o]) \in Nat
      BY <2>1
    <2>4. \A i, j \in DOMAIN spawned[o] : spawned[o][i] = spawned[o][j] => i = j
      <3>1. \A i \in 1..Len(spawned[o]) : i \in Int /\ spawned[o][i] = gen[o].marked_next_stream_id + i - 1
        BY <2>2, <2>3 DEF InOrder
      <3>2. SUFFICES ASSUME NEW i \in 1..Len(spawned[o]), NEW j \in 1..Len(spawned[o]),
                            spawned[o][i] = spawned[o][j]
                     PROVE  i = j
        BY <2>3
      <3>3. gen[o].marked_next_stream_id + i - 1 = gen[o].marked_next_stream_id + j - 1
        BY <3>1, <3>2
      <3> QED BY <2>1, <3>3
    <2>5. \A i \in DOMAIN spawned[o] : spawned[o][i] # crs[o].stream_id
      BY <2>1, <2>2, <2>3 DEF InOrder
    <2> QED BY <2>4, <2>5
  <1> QED BY <1>1, Inductive, PTL
=============================================================================
