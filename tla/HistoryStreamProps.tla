-------------------------- MODULE HistoryStreamProps --------------------------
(* Objects come back, whole, and integers take as few bytes as they can. *)
EXTENDS HistoryStream

Typed ==
  /\ phase \in {"new", "write", "writeInteger", "thrown", "written", "incomplete",
                "read", "readInteger", "outOfBound", "done"}
  /\ buf \in 0..MaxAddress /\ bufsize \in Nat /\ objectsize \in Nat /\ eof \in BOOLEAN
  /\ sval \in 0..255 /\ uval \in 0..(pow2[Width] - 1)
  /\ bits \in 0..(Width + 6) /\ neg \in BOOLEAN

Object == input.object

\* The local variables keep to their types; and as long as an integer is there,
\* its bytes are shifted by less than its type is wide: a longer shift
\* (historyStream-impl.h:43) has no value.
TypeOK == Typed /\ (phase = "readInteger" /\ Len(got) < Len(Object) => bits < Width)

Reading == phase \in {"read", "readInteger", "outOfBound", "done"}

\* "limiting the following reads to the object data" (historyStream.h:126): the
\* place and what is left of it agree on one limit, that of the buffer while the
\* object is written and exactly that of the object while it is read.
Limit == IF Reading THEN input.start + objectsize ELSE input.start + input.lim
StaysInObject ==
  /\ buf + bufsize = Limit
  /\ Reading => Limit = IF Object = << >> THEN Header + Size("size") ELSE ends[Len(Object)]

\* Reading fields as they were written gives their values and reads exactly
\* their bytes, however many are read and wherever the object lies; one whose
\* write was interrupted is never read (historyStream.h:113-116).
ReadsBack ==
  /\ Reading => Written
  /\ \A k \in DOMAIN got :
       k <= Len(Object) =>
         /\ ~got[k].eof
         /\ got[k].value = Object[k].value
         /\ k = Len(got) /\ phase = "read" => buf = ends[k]

\* A field that was not written is always reported, by eof() and not by an
\* exception: no reader takes what its variable had before for a stored value.
EofMeansMissing ==
  /\ phase # "outOfBound"
  /\ \A k \in DOMAIN got : got[k].eof <=> k > Len(Object)

\* "bits of the value are saved 7 by 7 in bytes" (historyStream.h:71): the
\* fewest bytes that hold an integer and its sign, if there is one; and the
\* exception is thrown only when these do not fit.
Holds(n, field) ==
  LET capacity == pow2[IF field.type = "signed" THEN 7 * n - 1 ELSE 7 * n]
  IN  n > 0 /\ field.value < capacity /\ field.value >= -capacity
Start(k) == IF k = 1 THEN Header + Size("size") ELSE ends[k - 1]
Compact ==
  \A k \in DOMAIN Object :
    Object[k].type \in Integers2 =>
      /\ k <= Len(ends) => /\ Holds(ends[k] - Start(k), Object[k])
                           /\ ~Holds(ends[k] - Start(k) - 1, Object[k])
      /\ phase = "thrown" /\ k = Len(ends) + 1 /\ mem[Header][1] = "size" =>
           ~Holds(input.start + input.lim - Start(k), Object[k])

\* Everything ends: an object is written or does not fit, and is read.  Only an
\* integer that is not there may be read for ever.
Ended == phase \in {"thrown", "incomplete", "done"}
EveryObjectTravels ==
  <>(Ended \/ (Len(wanted) > Len(Object) /\ wanted[Len(wanted)] \in Integers2))

\* A read that is past the end of its object returns, "for while loops"
\* (historyStream.h:58).
EveryReadEnds == <>Ended
=============================================================================
