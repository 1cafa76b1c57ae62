------------------------------ MODULE MCHistory ------------------------------
(* A small history: two iterators; an event a that fits everywhere, an event *)
(* b that only fits the larger buffer, and events the code refuses.          *)
EXTENDS HistoryProps

CONSTANTS i1, i2, c1, c2, c3, a, b, invalid, unstorable, unloadable

MCBody == [e \in Events |-> IF e = b THEN 4 ELSE 1]
=============================================================================
