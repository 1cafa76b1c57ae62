---------------------------- MODULE MCEventObject ----------------------------
(* Two event types and three constant lists, two of them under one name; the *)
(* loads of one fail.                                                        *)
EXTENDS EventObjectProps

CONSTANTS to1, to2, from1, t1, t2

MCName == [fp \in Formals |-> IF fp = from1 THEN "from" ELSE "to"]
MCLength == [fp \in Formals |-> IF fp = to2 THEN 2 ELSE 1]
=============================================================================
