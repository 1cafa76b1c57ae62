--------------------------- MODULE MCLecuyerStreams ---------------------------
(* Two generators of the fabric and the streams made from them. *)
EXTENDS LecuyerStreamsProps, TLC

CONSTANTS g1, g2, s1, s2, s3
MCSymmetry == Permutations({g1, g2}) \cup Permutations({s1, s2, s3})
=============================================================================
