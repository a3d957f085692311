------------------------------- MODULE CbfFormats -------------------------------
(***************************************************************************)
(* From a preparation of a CBF file to a parameter of the schema, and to   *)
(* what the JSON session shows of it: Preparation::get_size_in_bits,       *)
(* Presentation::create, and ParamDecode.                                  *)
(*                                                                         *)
(* Only a native preparation has a presentation, and only one with a       *)
(* presentation becomes a parameter.  An error leaves the whole file       *)
(* unread.  A size is an i32; where one overflows, a build with overflow   *)
(* checks panics and any other wraps.                                      *)
(***************************************************************************)
EXTENDS ParamDecode

CONSTANTS
  Preps,          \* preparations: mode (e, h, l), system (parameter, -1 for none),
                  \* pool (index of a presentation), width, bit, bytes (of the
                  \* request), and ref: what the referenced service is
  InternalPresentations, GlobalPresentations   \* the ECU's two pools

Presentations == Range(InternalPresentations) \cup Range(GlobalPresentations)

\* What is read as an i32 may be below zero.
ASSUME FormatsAssumption ==
  /\ \A p \in Presentations : p.length \in Int /\ p.length1a \in Int /\ p.scales \in Nat
  /\ \A p \in Preps : p.l \in Nat /\ p.width \in Int /\ p.bit \in Nat /\ p.bytes \in Nat /\ p.pool \in Nat
  /\ InternalPresentations \in Seq(Presentations) /\ GlobalPresentations \in Seq(Presentations)

VARIABLES
  prep,
  size,      \* size_in_bits
  native,    \* the preparation's presentation, if it has one
  convert    \* "new", "sized", "done", "dropped", "error" or "panicked"

formatVars == <<prep, size, native, convert, decodeVars>>

IntSizes == <<0, 1, 4, 8, 16, 32, 64>>              \* INT_SIZE_MAP

NoParam == [start |-> 0, length |-> 0, order |-> "big", format |-> "none", table |-> <<>>]

FormatsInit ==
  /\ prep \in Preps /\ size = 0 /\ native = <<>> /\ convert = "new"
  /\ answer \in Answers /\ param = NoParam /\ text = "none" /\ number = NotAsked

Unsized == convert = "new" /\ UNCHANGED <<prep, decodeVars>>
Sized(n) == size' = n /\ convert' = "sized" /\ UNCHANGED native
Fails(how) == convert' = how /\ UNCHANGED <<size, native>>

RetrievesPrep == prep.h \in {"320", "330", "340", "3x0"}   \* mode & 0xF00 = 0x300

\* Sizes from the table, which ends at 6.
IntSize == IF prep.l > 6 THEN Fails("error") ELSE Sized(IntSizes[prep.l + 1])

MeasureRetrieve ==
  /\ Unsized /\ RetrievesPrep
  /\ IF prep.l > 6 THEN Fails("error")
     ELSE CASE prep.h = "320" -> IntSize
            [] prep.h = "330" -> Sized(prep.width)
            [] OTHER          -> Sized(0)

LengthOf(p) == IF p.length1a > 0 THEN p.length1a ELSE p.length

\* Eight times an i32, and whether that is one.
InBits(n) == 8 * (((n + 268435456) % 536870912) - 268435456)
BitsOverflow(n) == n \notin -268435456..268435455

\* global_internal_presentations or global_presentations.
Pool == IF prep.e = "8000" THEN InternalPresentations ELSE GlobalPresentations

\* The presentation is looked up without a check.  A length is in bytes or bits.
MeasureNative ==
  /\ Unsized /\ ~RetrievesPrep /\ prep.system = -1
  /\ IF prep.e \notin {"8000", "2000"} THEN Fails("error")
     ELSE IF prep.pool >= Len(Pool) THEN Fails("panicked")
     ELSE LET p == Pool[prep.pool + 1]
              n == LengthOf(p) IN
            \/ /\ native' = <<p>> /\ convert' = "sized"
               /\ size' = IF p.type1c = 0 THEN InBits(n) ELSE n
            \/ p.type1c = 0 /\ BitsOverflow(n) /\ Fails("panicked")

\* The rest of the request, whose length is taken as a byte.
BytesLeft == (prep.bytes % 256) - (prep.bit \div 8)

\* System parameters 0x10 (the rest of the request) and 0x21 (a reference).
MeasureSystem ==
  /\ Unsized /\ ~RetrievesPrep /\ prep.system # -1
  /\ CASE prep.h = "410" /\ prep.system = 16 ->
            Sized(BytesLeft * 8) \/ (BytesLeft < 0 /\ Fails("panicked"))
       [] prep.h = "410" /\ prep.system = 33 ->
            Sized(CASE prep.ref = "none"   -> 0
                    [] prep.ref = "global" -> prep.bytes
                    [] OTHER               -> prep.bytes * 8)
       [] prep.h = "420" -> IntSize
       [] prep.h = "430" -> Sized(prep.width)
       [] OTHER          -> Fails("error")

IsEnum(p) == (p.enum1e = 0 /\ p.type1c = 1) \/ p.scales > 1

\* get_data_type.
DataType(p) ==
  IF p.unk14 THEN "text"
  ELSE IF p.scaled THEN "scale"
  ELSE IF p.dumped THEN "dump"
  ELSE CASE p.unk1b = 6        -> "text"
         [] p.unk1b \in {5, 8} -> "number"
         [] OTHER              -> "unknown"

\* Fault: a scale of several parts gets the format for it.
PlainFormat_Parts(p) == IF DataType(p) = "scale" /\ p.scales > 0 THEN "ScaleLinear" ELSE "Identical"

PlainFormat(p) ==
  CASE DataType(p) = "number" -> "Identical"
    [] DataType(p) = "scale"  -> IF p.scales = 0 THEN "Identical" ELSE "Linear"
    [] DataType(p) = "dump"   -> "HexDump"
    [] DataType(p) = "text"   -> "Utf8"
    [] OTHER                  -> "none"

\* Fault: every enumeration is named like a flag.
Format_AnyEnum(p, bits) ==
  CASE bits = 1 \/ IsEnum(p) -> IF p.scales = 1 THEN "panic" ELSE "Bool"
    [] OTHER                 -> PlainFormat(p)

IsFlag(p, bits) == bits = 1 \/ (IsEnum(p) /\ p.scales = 2)

\* Presentation::create.  A flag takes its names from the first two scales.
Format(p, bits) ==
  CASE IsFlag(p, bits) /\ p.scales = 0                -> "Bool"
    [] IsFlag(p, bits) /\ p.scales > 0 /\ ~IsEnum(p)  -> "Identical"
    [] IsFlag(p, bits) /\ IsEnum(p) /\ p.scales = 1   -> "panic"
    [] IsFlag(p, bits) /\ IsEnum(p) /\ p.scales > 1   -> "Bool"
    [] ~IsFlag(p, bits) /\ IsEnum(p) /\ p.scales > 0  ->
         IF bits \in 0..16 /\ p.scales = 2^bits /\ p.bNames THEN "Binary" ELSE "Table"
    [] OTHER                                          -> PlainFormat(p)

\* A table is compared with two to the power of its size.
PowerOverflows(p, bits) == bits < 0 /\ ~IsFlag(p, bits) /\ IsEnum(p) /\ p.scales > 0

\* Fault: a parameter is made without a format.
Create_Formatless ==
  /\ convert = "sized" /\ native # <<>> /\ convert' = "done"
  /\ param' = [start |-> prep.bit, length |-> size, order |-> "big",
               format |-> Format(Head(native), size), table |-> Head(native).table]
  /\ UNCHANGED <<prep, size, native, answer, text, number>>

\* decode_ecu: what has no presentation or no format is dropped.
Create ==
  /\ convert = "sized"
  /\ LET f == IF native = <<>> THEN "none" ELSE Format(Head(native), size) IN
       \/ f = "none" /\ convert' = "dropped" /\ UNCHANGED param
       \/ f = "panic" /\ convert' = "panicked" /\ UNCHANGED param
       \/ /\ native # <<>> /\ PowerOverflows(Head(native), size)
          /\ convert' = "panicked" /\ UNCHANGED param
       \/ /\ f \notin {"none", "panic"} /\ convert' = "done"
          /\ param' = [start |-> prep.bit, length |-> size, order |-> "big",
                       format |-> f, table |-> Head(native).table]
  /\ UNCHANGED <<prep, size, native, answer, text, number>>

Decode == convert = "done" /\ DecodeNext /\ UNCHANGED <<prep, size, native, convert>>

FormatsNext == MeasureRetrieve \/ MeasureNative \/ MeasureSystem \/ Create \/ Decode

FormatsSpec == FormatsInit /\ [][FormatsNext]_formatVars
-----------------------------------------------------------------------------
FormatsTypeOK ==
  /\ convert \in {"none", "new", "sized", "done", "dropped", "error", "panicked"} /\ size \in Int
  /\ convert = "done" => param.format \in Formats

(* What the converter makes of a file can be shown: of an answer that      *)
(* holds the parameter the session shows a text or a value, never a panic, *)
(* an undefined kind or a range error, save numbers of 17 to 24 bits or    *)
(* more than 32.                                                           *)
ConvertedIsShown ==
  convert = "done" /\ text # "none" /\ InAnswer(param.start, param.length) =>
    \/ text \in {"ok", "undefined"}
    \/ text = "out of range" /\ (size \in 17..24 \/ size > 32)

(* Measuring a preparation and giving it a format panics only on an index  *)
(* behind the pool of its presentation, a request shorter than its         *)
(* parameter's place, one bit with one name, or a size that is no i32 or,  *)
(* with names, below zero.                                                 *)
ConvertPanicsOnly ==
  convert = "panicked" =>
    \/ prep.system = -1 /\ prep.pool >= Len(Pool)
    \/ prep.system = -1 /\ BitsOverflow(LengthOf(Pool[prep.pool + 1]))
    \/ prep.system = 16 /\ BytesLeft < 0
    \/ native # <<>> /\ size = 1 /\ Head(native).scales = 1
    \/ native # <<>> /\ size < 0 /\ Head(native).scales > 0

(* A file is converted to what the program can show, and what it shows of  *)
(* any parameter is the parameter's value.                                 *)
FormatsUsable == FormatsTypeOK /\ ConvertedIsShown /\ ConvertPanicsOnly /\ AnswersShown
=============================================================================
