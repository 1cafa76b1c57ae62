----------------------------- MODULE HistoryStream -----------------------------
(***************************************************************************)
(* One object of the history, written through a HistoryOStream and read    *)
(* through a HistoryIStream (historyStream.h, historyStream-impl.h).  It   *)
(* is a size of two bytes, then fields: bytes as they are, doubles aligned *)
(* in memory, and integers as CompactInt: seven bits to a byte, the        *)
(* highest bit of a byte telling that another one follows and, for a       *)
(* signed type, a sign bit in the first byte.  Loops take one step per     *)
(* turn.  The reader may ask for fewer fields than were written, or for    *)
(* one more: types of events grow after events were stored.                *)
(***************************************************************************)
EXTENDS Integers, Sequences

CONSTANTS Width,    \* the bits of the integer types
          Inputs,   \* what is written: [object, start, lim], a sequence of
                    \* [type, value], the first address and the free bytes
          MaxAddress

\* 2^n, by the equations that proofs need.
pow2[n \in Nat] == IF n = 0 THEN 1 ELSE 2 * pow2[n - 1]

Types == {"byte", "double", "signed", "unsigned"}
Integers2 == {"signed", "unsigned"}
InType(v, type) ==
  CASE type = "signed"   -> v \in -pow2[Width - 1]..(pow2[Width - 1] - 1)
    [] type = "unsigned" -> v \in 0..(pow2[Width] - 1)
    [] type = "byte"     -> v \in 0..255
    [] OTHER             -> TRUE
\* A number stands for the value of a double.
Items == {item \in [type : Types, value : Int] : InType(item.value, item.type)}
ASSUME StreamAssumption ==
  /\ Width \in Nat \ {0} /\ MaxAddress \in Nat
  /\ \A i \in Inputs : /\ i.object \in Seq(Items)
                       /\ i.start \in Nat /\ i.lim \in Nat /\ i.start + i.lim < MaxAddress

VARIABLES input,          \* what is to be written, and where
          wanted,         \* the types to be read
          phase,          \* what the program does
          mem,            \* the buffer: <<type, value, number of the byte>>
          buf, bufsize, objectsize,   \* of HistoryStreamBase
          eof,            \* eofbit
          uval, sval, bits, neg,      \* local variables of writeToHOS and readFromHIS
          ends,           \* Auxiliary: where the fields written end
          got             \* Auxiliary: the fields read, [value, eof]
local == <<uval, sval, bits, neg>>
vars == <<input, wanted, phase, mem, buf, bufsize, objectsize, eof, local, ends, got>>

Low(n, k) == n % pow2[k]
Shift(n, k) == n \div pow2[k]
Not(n) == -n - 1
HighBit(b, k) == Low(Shift(b, k), 1)

Size(type) == CASE type = "size" -> 2 [] type = "double" -> 8 [] OTHER -> 1
\* std::align: the alignment of a type is its size.
Aligned(a, type) == a + ((-a) % Size(type))
Fits(type) == Aligned(buf, type) - buf + Size(type) <= bufsize
AfterIt(type) == Aligned(buf, type) + Size(type)

----------------------------------------------------------------------------
(* Writing. *)

Init ==
  /\ input \in Inputs
  /\ wanted = << >>
  /\ phase = "new"
  /\ mem = [a \in 0..MaxAddress |-> <<"old", 0, 0>>]
  /\ buf = input.start /\ bufsize = input.lim /\ objectsize = 0 /\ eof = FALSE
  /\ uval = 0 /\ sval = 0 /\ bits = 0 /\ neg = FALSE
  /\ ends = << >> /\ got = << >>

Put(type, value, first) ==
  mem' = [a \in DOMAIN mem |->
            IF a - first \in 0..(Size(type) - 1) THEN <<type, value, a - first>> ELSE mem[a]]

Write_SizeOnly(type, value) ==
  IF Fits(type)
  THEN /\ Put(type, value, Aligned(buf, type))
       /\ buf' = AfterIt(type)
       /\ bufsize' = bufsize - (buf' - buf)
       /\ objectsize' = objectsize + Size(type)
  ELSE UNCHANGED <<mem, buf, bufsize, objectsize>>
\* write(): HistoryOutOfBound is thrown when the value does not fit.
Write(type, value) ==
  IF Fits(type)
  THEN /\ Put(type, value, Aligned(buf, type))
       /\ buf' = AfterIt(type)
       /\ bufsize' = bufsize - (buf' - buf)
       /\ objectsize' = objectsize + (buf' - buf)
  ELSE UNCHANGED <<mem, buf, bufsize, objectsize>>

Header == Aligned(input.start, "size")
Field == input.object[Len(ends) + 1]
Written == Len(ends) = Len(input.object)

OpenToWrite ==
  /\ phase = "new"
  /\ Write("size", 0)
  /\ phase' = IF Fits("size") THEN "write" ELSE "thrown"
  /\ UNCHANGED <<input, wanted, eof, local, ends, got>>

WriteField ==
  /\ phase = "write" /\ ~Written /\ Field.type \notin Integers2
  /\ Write(Field.type, Field.value)
  /\ IF Fits(Field.type) THEN ends' = Append(ends, buf') /\ UNCHANGED phase
     ELSE phase' = "thrown" /\ UNCHANGED ends
  /\ UNCHANGED <<input, wanted, eof, local, got>>

First_SignAlways(v, signed) ==
  LET u == IF v < 0 THEN Not(v) ELSE v
  IN  [sval |-> (IF v < 0 THEN 64 ELSE 0) + Low(u, 6), uval |-> Shift(u, 6)]
\* The first byte and what is left, for a value of either kind of type.
First(v, signed) ==
  LET u == IF v < 0 THEN Not(v) ELSE v
  IN  IF signed
      THEN [sval |-> (IF v < 0 THEN 64 ELSE 0) + Low(u, 6), uval |-> Shift(u, 6)]
      ELSE [sval |-> Low(v, 7), uval |-> Shift(v, 7)]

BeginInteger ==
  /\ phase = "write" /\ ~Written /\ Field.type \in Integers2
  /\ LET first == First(Field.value, Field.type = "signed")
     IN  sval' = first.sval /\ uval' = first.uval
  /\ phase' = "writeInteger"
  /\ UNCHANGED <<input, wanted, mem, buf, bufsize, objectsize, eof, bits, neg, ends, got>>

Byte_OwnBits(s, u) == IF s # 0 THEN s + 128 ELSE s
Byte(s, u) == IF u # 0 THEN s + 128 ELSE s

\* The loop of writeToHOS: do ... while (sval || uval).
MoreToWrite_UntilZero(s, u) == s # 0
MoreToWrite(s, u) == s # 0 \/ u # 0

WriteByte ==
  /\ phase = "writeInteger"
  /\ Write("byte", Byte(sval, uval))
  /\ IF Fits("byte")
     THEN /\ sval' = Low(uval, 7) /\ uval' = Shift(uval, 7)
          /\ IF MoreToWrite(sval', uval') THEN UNCHANGED <<phase, ends>>
             ELSE phase' = "write" /\ ends' = Append(ends, buf')
     ELSE phase' = "thrown" /\ UNCHANGED <<sval, uval, ends>>
  /\ UNCHANGED <<input, wanted, eof, bits, neg, got>>

\* finalize(): the object may be read from now on.
Finalize ==
  /\ phase = "write" /\ Written
  /\ Put("size", objectsize, Header)
  /\ phase' = "written"
  /\ UNCHANGED <<input, wanted, buf, bufsize, objectsize, eof, local, ends, got>>

----------------------------------------------------------------------------
(* Reading. *)

\* As many of the types written, or all of them and one more.
Prefixes(object) == {[k \in 1..n |-> object[k].type] : n \in 0..Len(object)}
Readable(object) ==
  Prefixes(object)
    \cup {Append([k \in DOMAIN object |-> object[k].type], type) : type \in Types}

\* An object that was not finalized has the size 0, which is refused.
OpenToRead ==
  /\ phase = "written" \/ (phase = "thrown" /\ mem[Header][1] = "size")
  /\ wanted' \in Readable(input.object)
  /\ phase' = IF mem[Header][2] = 0 THEN "incomplete" ELSE "read"
  /\ buf' = Header + Size("size")
  /\ objectsize' = mem[Header][2]
  /\ bufsize' = (IF mem[Header][2] = 0 THEN input.lim ELSE mem[Header][2]) - (buf' - input.start)
  /\ eof' = FALSE
  /\ UNCHANGED <<input, mem, local, ends, got>>

Wanted == wanted[Len(got) + 1]
AllRead == Len(got) = Len(wanted)

\* read(): at the end of the object the variable keeps what it had.
Missing == bufsize = 0
Stored(type) == mem[Aligned(buf, type)][2]
Consume_Silent(type) ==
  IF Missing THEN UNCHANGED <<eof, buf, bufsize>>
  ELSE buf' = AfterIt(type) /\ bufsize' = bufsize - (buf' - buf) /\ UNCHANGED eof
Consume(type) ==
  IF Missing THEN eof' = TRUE /\ UNCHANGED <<buf, bufsize>>
  ELSE buf' = AfterIt(type) /\ bufsize' = bufsize - (buf' - buf) /\ UNCHANGED eof

ReadField ==
  /\ phase = "read" /\ ~AllRead /\ Wanted \notin Integers2
  /\ Consume(Wanted)
  /\ IF Missing \/ Fits(Wanted)
     THEN /\ got' = Append(got, [value |-> IF Missing THEN "unset" ELSE Stored(Wanted), eof |-> eof'])
          /\ UNCHANGED phase
     ELSE phase' = "outOfBound" /\ UNCHANGED got
  /\ UNCHANGED <<input, wanted, mem, objectsize, local, ends>>

\* The local variable sval has no value before it is read.
ReadInteger ==
  /\ phase = "read" /\ ~AllRead /\ Wanted \in Integers2
  /\ sval' \in (IF Missing THEN {0, 255} ELSE {0})
  /\ uval' = 0 /\ bits' = 0 /\ neg' = FALSE
  /\ phase' = "readInteger"
  /\ UNCHANGED <<input, wanted, mem, buf, bufsize, objectsize, eof, ends, got>>

Result_Minus(u, n) == IF n THEN -u ELSE u
\* The value that readFromHIS leaves in the variable.
Result(u, n) == IF n THEN Not(u) ELSE u

\* A byte into sval, the rest of it into uval.  A shift drops what does not fit
\* the type; a loop that has passed the type only goes on.
ReadByte ==
  LET signed == Wanted = "signed"
      payload == IF bits = 0 /\ signed THEN 6 ELSE 7
      b == IF Missing THEN sval ELSE Stored("byte")
  IN  /\ phase = "readInteger"
      /\ Consume("byte")
      /\ sval' = b
      /\ uval' = IF bits >= Width THEN uval
                 ELSE Low(uval + Low(b, payload) * pow2[bits], Width)
      /\ neg' = IF bits = 0 THEN signed /\ HighBit(b, 6) = 1 ELSE neg
      /\ bits' = IF bits >= Width THEN bits ELSE bits + payload
      /\ IF HighBit(b, 7) = 1 THEN UNCHANGED <<phase, got>>
         ELSE /\ phase' = "read"
              /\ got' = Append(got, [value |-> Result(uval', neg'), eof |-> eof'])
      /\ UNCHANGED <<input, wanted, mem, objectsize, ends>>

Close ==
  /\ phase = "read" /\ AllRead
  /\ phase' = "done"
  /\ UNCHANGED <<input, wanted, mem, buf, bufsize, objectsize, eof, local, ends, got>>

Next == \/ OpenToWrite \/ WriteField \/ BeginInteger \/ WriteByte \/ Finalize
        \/ OpenToRead \/ ReadField \/ ReadInteger \/ ReadByte \/ Close

Spec == Init /\ [][Next]_vars /\ WF_vars(Next)
=============================================================================
