------------------------------ MODULE CaesarReader ------------------------------
(***************************************************************************)
(* Reading a CBF file (CBFParser) through the random access file (Raf).    *)
(*                                                                         *)
(* A record starts with flags, one per field, the lowest for the first;    *)
(* only fields whose flag is set are in the file.  A text or a dump is     *)
(* elsewhere: its field is the distance from the record's base.  Some      *)
(* records have a second word of flags for the fields that do not fit.     *)
(* Raf tests the end of a read with one byte to spare: a read that ends    *)
(* one past the data slices out of range, a panic, where a longer one is   *)
(* an error.  Floats are read like integers of their width.                *)
(*                                                                         *)
(* Distances and sizes are i32 taken as usize: one below zero stands for   *)
(* itself and 2^64.  A sum that reaches 2^64 panics in a build with        *)
(* overflow checks and wraps in one without, which in this form is plain   *)
(* addition.                                                               *)
(***************************************************************************)
EXTENDS Integers, Sequences, FiniteSets

CONSTANT
  Records    \* what is read: a layout, the fields given, the file, where the
             \* flags ended, the base of the record's distances, and whether
             \* the build checks for overflow

\* A layout: the fields of the first and of the second word of flags, and how
\* many bits the second word has.
Layout(main, ext, bits) == [main |-> main, ext |-> ext, bits |-> bits]
Rep(n, kind) == [i \in 1..n |-> kind]
Ints(n) == Rep(n, "i32")
Pools(n) == Ints(2 * n)

DtcLayout == Layout(<<"string">> \o Ints(2), <<>>, 0)
ScaleLayout == Layout(Ints(4) \o Rep(2, "f32") \o Ints(6), <<>>, 0)
CffLayout == Layout(Ints(9) \o Rep(3, "string"), <<>>, 0)
CtfLayout == Layout(<<"i32", "string", "i16">> \o Ints(3) \o <<"string">>, <<>>, 0)
LanguageLayout == Layout(<<"string", "i16">> \o Ints(3), <<>>, 0)
InterfaceLayout ==
  Layout(<<"string">> \o Ints(2) \o <<"string">> \o Ints(3) \o <<"i16">>, <<>>, 0)
SubTypeLayout ==
  Layout(<<"string">> \o Ints(2) \o Rep(2, "i16") \o Ints(3) \o Rep(3, "i8"), <<>>, 0)
ComParameterLayout == Layout(Rep(4, "i16") \o <<"i32", "i16", "i32", "dump">>, <<>>, 0)
VariantPatternLayout ==
  Layout(<<"i32", "dump">> \o Ints(3) \o <<"string">> \o Rep(4, "i16") \o Rep(5, "i8")
           \o <<"dump5">> \o Rep(4, "i8") \o <<"string">> \o Ints(4), <<>>, 0)
PreparationLayout ==
  Layout(<<"string", "i32">> \o Rep(2, "i8") \o Ints(5) \o Rep(2, "i16") \o <<"i32", "dump">>,
         <<>>, 0)
PresentationLayout ==
  Layout(<<"string">> \o Ints(11) \o Rep(3, "i16") \o Ints(11) \o Rep(5, "i8") \o Ints(1),
         Ints(2) \o <<"i16">> \o Ints(3), 16)
VariantLayout ==
  Layout(<<"string">> \o Ints(2) \o Rep(2, "string") \o Ints(1) \o Pools(9)
           \o <<"string", "i8">>, <<>>, 0)
ServiceLayout ==
  Layout(<<"string">> \o Ints(2) \o Rep(4, "i16") \o Pools(3) \o <<"string">> \o Pools(2)
           \o <<"i16", "i32">> \o Pools(1) \o <<"i16">> \o Rep(3, "string") \o Pools(2)
           \o <<"i16", "i32">>, Pools(3), 32)
BlockFields == Ints(4)
EcuLayout ==
  Layout(<<"string">> \o Ints(2) \o <<"string">> \o Ints(4) \o Rep(3, "string")
           \o Rep(3, "i16") \o <<"i32", "i16", "i32">>
           \o BlockFields \o BlockFields \o BlockFields \o Ints(3),
         Ints(1) \o BlockFields \o BlockFields \o BlockFields \o BlockFields \o Ints(1), 16)

Kinds == {"i8", "i16", "i32", "f32", "string", "dump", "dump5"}
Fields(layout) == layout.main \o layout.ext
Width(kind) == CASE kind = "i8" -> 1 [] kind = "i16" -> 2 [] OTHER -> 4
Elsewhere(kind) == kind \in {"string", "dump", "dump5"}

\* The value of a field that is not read.
Default == [at |-> -1, value |-> 0]

\* Every layout has fields in its first word, and a dump behind its size.
ASSUME RecordsAssumption ==
  \A r \in Records :
    LET fields == Fields(r.layout) IN
      /\ r.layout.main \in Seq(Kinds) /\ r.layout.ext \in Seq(Kinds)
      /\ r.layout.main # <<>> /\ r.layout.bits \in Nat
      /\ \A i \in DOMAIN fields : fields[i] = "dump" => i > 1 /\ fields[i - 1] = "i32"
      /\ r.file \in Seq(0..255) /\ r.start \in Nat /\ r.base \in Nat

VARIABLES
  record,    \* what is being read
  pos,       \* Raf's position
  bitflags,  \* the bits left of the word in use
  values,    \* per field read so far: its bytes' place and value, or Default
  reading    \* "fields", "done", "error" or "panicked"

readerVars == <<record, pos, bitflags, values, reading>>
-----------------------------------------------------------------------------
Bits(from, bits) == [i \in 1..bits |-> from + i \in record.given]

ReaderInit ==
  /\ record \in Records
  /\ pos = record.start
  /\ bitflags = Bits(0, Len(record.layout.main)) /\ values = <<>> /\ reading = "fields"

Size == Len(record.file)
Byte(p) == record.file[p + 1]                    \* data[p]

\* Fault: the last byte is taken for missing, too.
Access_Strict(p, n) == CASE p + n >= Size -> "error" [] OTHER -> "ok"

\* A sum that reaches 2^64.
Overflows(a, b) == (a < 0 \/ b < 0) /\ (a + b >= 0 \/ (a < 0 /\ b < 0))

\* Raf::read_bytes and its kin; p + n - 1 underflows for nothing at 0.
Unsummable(p, n) == record.checked /\ (Overflows(p, n) \/ p + n = 0)
Access(p, n) ==
  CASE Unsummable(p, n)                                              -> "panic"
    [] ~Unsummable(p, n) /\ p + n \notin 1..Size + 1                 -> "error"
    [] ~Unsummable(p, n) /\ p + n \in 1..Size /\ p >= 0 /\ n >= 0    -> "ok"
    [] OTHER                                                         -> "panic"

\* Little endian; only the four-byte ones, with their sign, are distances or sizes.
Signed(b) == IF b < 128 THEN b ELSE b - 256
Number(p, n) ==
  CASE n = 1 -> Byte(p)
    [] n = 2 -> Byte(p) + 256 * Byte(p + 1)
    [] n = 4 -> Byte(p) + 256 * Byte(p + 1) + 65536 * Byte(p + 2) + 16777216 * Signed(Byte(p + 3))

\* read_cstr_bytes: byte by byte to a zero.
Terminated(p) == \E z \in 0..Size - 1 : z >= p /\ Byte(z) = 0
CString(p) ==
  CASE p \notin 0..Size                  -> "error"
    [] p \in 0..Size /\ Terminated(p)    -> "ok"
    [] p \in 0..Size /\ ~Terminated(p)   -> "panic"

\* The field under way, and the bit that says whether it is there.
Field == Fields(record.layout)[Len(values) + 1]
IsSet == bitflags # <<>> /\ Head(bitflags)

\* Fault: the second word's bits are not taken up.
Advance_OneWord == bitflags' = IF bitflags = <<>> THEN <<>> ELSE Tail(bitflags)

\* A word's bits are used up one by one; then the second word's.
Advance ==
  bitflags' = IF Len(values) + 1 = Len(record.layout.main)
              THEN Bits(Len(record.layout.main), record.layout.bits)
              ELSE IF bitflags = <<>> THEN <<>> ELSE Tail(bitflags)

InFields == reading = "fields" /\ Len(values) < Len(Fields(record.layout))
Got(v) == values' = Append(values, v)
Stop(how) == reading' = how /\ UNCHANGED <<pos, bitflags, values>>

Skip ==
  /\ InFields /\ ~IsSet
  /\ Advance /\ Got(Default)
  /\ UNCHANGED <<record, pos, reading>>

\* Fault: a field that cannot be read is stepped over.
ReadPrimitive_StepsOver ==
  /\ InFields /\ IsSet /\ ~Elsewhere(Field)
  /\ Advance /\ pos' = pos + Width(Field)
  /\ Got(IF Access(pos, Width(Field)) = "ok" THEN [at |-> pos, value |-> Number(pos, Width(Field))]
         ELSE Default)
  /\ UNCHANGED <<record, reading>>

\* read_primitive: an error leaves the default, and the position.
ReadPrimitive ==
  /\ InFields /\ IsSet /\ ~Elsewhere(Field)
  /\ CASE Access(pos, Width(Field)) = "panic" -> Stop("panicked")
       [] Access(pos, Width(Field)) = "error" ->
            Advance /\ Got(Default) /\ UNCHANGED <<pos, reading>>
       [] OTHER ->
            /\ Advance /\ Got([at |-> pos, value |-> Number(pos, Width(Field))])
            /\ pos' = pos + Width(Field) /\ UNCHANGED reading
  /\ UNCHANGED record

\* The size of a dump is the field before it; one has a size of its own.
DumpSize == IF Field = "dump5" THEN 5 ELSE values[Len(values)].value

\* read_bitflag_string, read_bitflag_dump: what cannot be read there is empty;
\* the reader then goes on behind the distance.
ReadElsewhere ==
  /\ InFields /\ IsSet /\ Elsewhere(Field)
  /\ IF Access(pos, 4) # "ok" THEN Stop(IF Access(pos, 4) = "error" THEN "error" ELSE "panicked")
     ELSE LET distance == Number(pos, 4)
              target == record.base + distance
              found == CASE record.checked /\ Overflows(distance, record.base) -> "panic"
                         [] ~(record.checked /\ Overflows(distance, record.base)) ->
                              IF Field = "string" THEN CString(target) ELSE Access(target, DumpSize)
          IN IF found = "panic" THEN Stop("panicked")
             ELSE /\ Advance /\ Got([at |-> pos, value |-> IF found = "ok" THEN target ELSE "empty"])
                  /\ pos' = pos + 4 /\ UNCHANGED reading
  /\ UNCHANGED record

Finish ==
  /\ reading = "fields" /\ Len(values) = Len(Fields(record.layout))
  /\ reading' = "done"
  /\ UNCHANGED <<record, pos, bitflags, values>>

ReaderNext == Skip \/ ReadPrimitive \/ ReadElsewhere \/ Finish
ReaderSpec == ReaderInit /\ [][ReaderNext]_readerVars
-----------------------------------------------------------------------------
\* The file format, said without a reader: field i is given if it has a bit and
\* the bit is set; it lies behind the given fields before it.
Given(i) ==
  /\ i \in record.given
  /\ i <= Len(record.layout.main) + record.layout.bits
GivenBefore(i, width) == {j \in 1..i - 1 : Given(j) /\ Width(Fields(record.layout)[j]) = width}
PlaceOf(i) ==
  record.start + Cardinality(GivenBefore(i, 1)) + 2 * Cardinality(GivenBefore(i, 2))
               + 4 * Cardinality(GivenBefore(i, 4))
EndOf(i) == PlaceOf(i) + Width(Fields(record.layout)[i])
Contained == \A i \in 1..Len(Fields(record.layout)) : Given(i) => EndOf(i) <= Size

ReaderTypeOK ==
  /\ pos \in Nat /\ (pos <= Size \/ pos = record.start)
  /\ reading \in {"fields", "done", "error", "panicked"}
  /\ Len(values) <= Len(Fields(record.layout)) /\ \A i \in DOMAIN bitflags : bitflags[i] \in BOOLEAN

(* Every field of a record that is in the file is read from its own place, *)
(* the flags in order, over both words, whatever texts and dumps the       *)
(* reader jumped to in between; and what is not given has its default.     *)
FieldsInPlace ==
  Contained =>
    \A i \in DOMAIN values :
      IF Given(i) THEN values[i].at = PlaceOf(i) ELSE values[i] = Default

\* A text without an end, a dump that ends one byte past the data or is nothing
\* at its start, or a distance or a size below zero.
Unreadable ==
  LET target == record.base + Number(pos, 4) IN
    /\ Elsewhere(Field)
    /\ \/ Number(pos, 4) < 0
       \/ Field = "string" /\ target <= Size /\ ~Terminated(target)
       \/ Field # "string" /\ (DumpSize < 0 \/ target + DumpSize \in {0, Size + 1})

(* A record that is in the file is read to its end: only what its texts    *)
(* and dumps point to can panic.                                           *)
ContainedIsRead ==
  Contained => reading # "error" /\ (reading = "panicked" => Unreadable)

(* A record is read as it is laid out, to its end.                         *)
RecordsRead == ReaderTypeOK /\ FieldsInPlace /\ ContainedIsRead
=============================================================================
