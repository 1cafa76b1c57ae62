------------------------ MODULE MCDeterministicStreams ------------------------
(* Two Random objects on a fabric of two streams. *)
EXTENDS DeterministicStreamsProps, TLC

CONSTANTS r1, r2
MCSymmetry == Permutations({r1, r2})
=============================================================================
