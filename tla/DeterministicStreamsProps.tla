----------------------- MODULE DeterministicStreamsProps -----------------------
(***************************************************************************)
(* What a Random object promises whoever stores its state and replays it.  *)
(***************************************************************************)
EXTENDS DeterministicStreams

IsPrefix(s, t) == Len(s) <= Len(t) /\ \A i \in 1..Len(s) : s[i] = t[i]
Replay(s, t) == IsPrefix(s, t) \/ IsPrefix(t, s)

States == (Nat \X Nat \X Nat) \cup {<< >>}

\* The streams made exist in the fabric.
TypeOK ==
  /\ created \subseteq Randoms
  /\ gen \in [Randoms -> [next_stream_id : Nat, marked_next_stream_id : Nat]]
  /\ crs \in [Randoms -> [stream_id : Nat, next_pos : Nat, marked_pos : Nat]]
  /\ others \in [Randoms -> SUBSET (0..NStreams - 1)]
  /\ saved \in Seq([fields : Nat \X Nat \X Nat, moment : Nat, mark : States])
  /\ moments \in Nat /\ moment \in [Randoms -> Nat]
  /\ mark \in [Randoms -> States]
  /\ spawned \in [Randoms -> Seq(Nat)]
  /\ drawn \in [Randoms -> Seq(Nat \X Nat)]

\* What storeMarkedState wrote is the state of the object at its last mark (or
\* successful load), whatever it drew, made or loaded in between and later,
\* unless a load has failed since (random.h:33-41).
StoredStateIsMarked ==
  \A s \in DOMAIN saved : saved[s].mark # << >> => saved[s].fields = saved[s].mark

\* As long as no load failed: objects that go on from the same marked moment, the one that was marked and
\* all those restored from it, make the same streams in the same order.
StreamsReplay ==
  \A p, q \in created :
    moment[p] # 0 /\ moment[p] = moment[q] => Replay(spawned[p], spawned[q])

\* "different (independant) random streams" (random.h:77): the streams made
\* since that moment differ from one another and from the current stream.
StreamsDiffer ==
  \A o \in created : moment[o] # 0 =>
    /\ \A i, j \in DOMAIN spawned[o] : spawned[o][i] = spawned[o][j] => i = j
    /\ \A i \in DOMAIN spawned[o] : spawned[o][i] # crs[o].stream_id

\* load is to "replace the current state by the one from the history"
\* (random.h:26): the values drawn replay, too.
DrawsReplay ==
  \A p, q \in created :
    moment[p] # 0 /\ moment[p] = moment[q] => Replay(drawn[p], drawn[q])
=============================================================================
