---------------------------- MODULE MCHistoryStream ----------------------------
(* The types of 16 bits: values on both sides of every change of length, and *)
(* every value of few bits, alone; and objects of up to three fields.        *)
EXTENDS HistoryStreamProps

Near(n) == (n - 2)..(n + 2)
Values == (-200..200 \cup UNION {Near(2^k) \cup Near(-(2^k)) : k \in 6..16})
            \cap (-(2^15))..(2^16 - 1)
Alone == {o \in {<<[type |-> t, value |-> v]>> : t \in Integers2, v \in Values} :
            InType(o[1].value, o[1].type)}

Fields == {[type |-> "byte", value |-> 200], [type |-> "double", value |-> 1],
           [type |-> "signed", value |-> -100], [type |-> "unsigned", value |-> 5]}
Composed == {<< >>} \cup (Fields \X Fields) \cup (Fields \X Fields \X Fields)

MCInputs ==
  [object : Alone, start : {1}, lim : {4, 5, 6}]
    \cup [object : Composed, start : {0, 3, 6}, lim : {1, 9, 16, 40}]
=============================================================================
