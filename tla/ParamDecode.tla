------------------------------ MODULE ParamDecode ------------------------------
(***************************************************************************)
(* What the JSON session shows of an ECU's answer: a parameter of a        *)
(* service is decoded to text, and to a number if it can be plotted.       *)
(*                                                                         *)
(* Bit 0 is the lowest of the first byte.  Numbers wider than a byte are   *)
(* gathered in chunks of eight bits, and only two or four chunks make a    *)
(* number, which becomes an f32 before it is compared, printed or plotted. *)
(* A number that cannot be read is an error (the panic is caught); a text  *)
(* that lies outside the answer is a panic of the page.                    *)
(*                                                                         *)
(* A length below zero is a usize, itself + 2^64.  Where a sum overflows   *)
(* with it, a build with overflow checks panics and any other wraps.       *)
(***************************************************************************)
EXTENDS Integers, Sequences, SequencesExt

CONSTANTS
  Params,   \* start, length, order ("big" or "little"), format and table
  Answers   \* sequences of bytes

Unimplemented == {"ScaleLinear", "RatFunc", "ScaleRatFunc", "TableInterpretation", "CompuCode"}
Bytewise == {"HexDump", "Binary", "Utf8", "Utf16"}
Formats == {"HexDump", "Utf8", "Utf16", "Bool", "Binary", "Table", "Identical", "Linear"}
             \cup Unimplemented

ASSUME DecodeAssumption ==
  /\ \A p \in Params : p.start \in Nat /\ p.length \in Int /\ p.order \in {"big", "little"}
  /\ Answers \subseteq Seq(0..255)

VARIABLES
  param, answer,
  text,    \* decode_value_to_string: "ok", "undefined", an error, "panic" or "none"
  number   \* decode_value_to_number: a number or an outcome below 0

decodeVars == <<param, answer, text, number>>

\* Outcomes below every number.
NotRead == -1            \* BitRangeError
NotSupported == -2
NotImplemented == -3
NotAsked == -4
-----------------------------------------------------------------------------
AnswerBits == 8 * Len(answer)
Bit(k) == (answer[(k \div 8) + 1] \div 2^(k % 8)) % 2
BitOf(from, bits, i) == IF i < bits THEN Bit(from + i) ELSE 0
Value(from, bits) ==                                 \* up to eight, lowest first
  BitOf(from, bits, 0) + 2 * BitOf(from, bits, 1)
    + 4 * BitOf(from, bits, 2) + 8 * BitOf(from, bits, 3)
    + 16 * BitOf(from, bits, 4) + 32 * BitOf(from, bits, 5)
    + 64 * BitOf(from, bits, 6) + 128 * BitOf(from, bits, 7)

\* bit_field's get_bits, which panics outside the answer.
InAnswer(from, bits) == bits > 0 /\ from + bits <= AnswerBits

Least(a, b) == IF a < b THEN a ELSE b
Chunks == (param.length + 7) \div 8
Chunk(i) ==
  LET from == param.start + 8 * (i - 1) IN
    Value(from, Least(8, param.start + param.length - from))

FromBytes(bytes) ==                                  \* big endian: u8, u16, u32
  CASE Len(bytes) = 1 -> bytes[1]
    [] Len(bytes) = 2 -> bytes[1] * 256 + bytes[2]
    [] Len(bytes) = 4 -> ((bytes[1] * 256 + bytes[2]) * 256 + bytes[3]) * 256 + bytes[4]

\* Fault: the least significant byte is always first.
GetNumber_Little ==
  IF param.length \notin 0..32 \/ ~InAnswer(param.start, param.length) \/ Chunks = 3 THEN NotRead
  ELSE FromBytes(Reverse([i \in 1..Chunks |-> Chunk(i)]))

\* get_number: three chunks fit neither a u16 nor a u32.
GetNumber ==
  IF param.length \notin 0..32 \/ ~InAnswer(param.start, param.length) \/ Chunks = 3 THEN NotRead
  ELSE LET chunks == [i \in 1..Chunks |-> Chunk(i)] IN
         FromBytes(IF param.order = "big" THEN chunks ELSE Reverse(chunks))

\* An f32 holds 24 bits: whole numbers are one apart below 2^24, then 2, 4, ...
F32Exact == 16777216
Spacing(n) ==
  CHOOSE u \in {1, 2, 4, 8, 16, 32, 64, 128, 256} :
    n \div u < F32Exact /\ (u = 1 \/ F32Exact \div 2 <= n \div u)

\* Fault: what does not fit is cut off.
AsF32_Cut(n) == n - (n % Spacing(n))

\* as f32: the nearest there is; halfway, the one whose last bit is zero.
AsF32(n) ==
  LET u == Spacing(n)
      low == n - (n % u) IN
    IF 2 * (n % u) < u \/ (2 * (n % u) = u /\ (n \div u) % 2 = 0) THEN low ELSE low + u

StartByte == param.start \div 8
EndBit == param.start + param.length
EndByte == IF EndBit < 0 THEN Len(answer) + 1 ELSE EndBit \div 8   \* below zero: behind any answer

\* start + length is more than a usize.
EndOverflows == param.length < 0 /\ EndBit >= 0

HexSlice == IF StartByte <= Least(EndByte, Len(answer)) THEN "ok" ELSE "panic"

\* Fault: bits within one byte are a list, too.
BinaryText_List == IF StartByte < Least(EndByte, Len(answer)) THEN "ok" ELSE "panic"

\* The closing comma is taken off the list, which must not be empty.
BinaryText == IF StartByte < Len(answer) /\ StartByte <= EndByte THEN "ok" ELSE "panic"

Utf8Text == IF StartByte <= EndByte /\ EndByte <= Len(answer) THEN "ok" ELSE "panic"

\* start - end is below zero for every text that is not empty.
Utf16Text == IF StartByte >= EndByte THEN "ok" ELSE "panic"

\* Table entries [start, end], f32s too: start >= raw and end <= raw.
Named(raw) == \E e \in Range(param.table) : e[1] >= raw /\ e[2] <= raw

NumberText ==
  IF GetNumber = NotRead THEN "out of range"
  ELSE IF param.format = "Table" /\ ~Named(AsF32(GetNumber)) THEN "undefined"
  ELSE "ok"

DecodeToString ==
  CASE param.format = "HexDump"        -> HexSlice
    [] param.format = "Binary"         -> BinaryText
    [] param.format = "Utf8"           -> Utf8Text
    [] param.format = "Utf16"          -> Utf16Text
    [] param.format \in Unimplemented  -> "not implemented"
    [] OTHER                           -> NumberText

\* Linear's factor and offset are left out.
DecodeToNumber ==
  CASE param.format \in Unimplemented -> NotImplemented
    [] param.format \in Bytewise \cup {"Table"} -> NotSupported
    [] OTHER -> IF GetNumber = NotRead THEN NotRead
                ELSE IF param.format = "Bool" THEN Least(1, GetNumber)
                ELSE AsF32(GetNumber)

\* Fault: whatever is decoded through its number is plotted.
CanPlot_Table == param.format \in {"Bool", "Identical", "Linear", "Table"}

CanPlot == param.format \in {"Bool", "Identical", "Linear"}

DecodeInit ==
  /\ param \in Params /\ answer \in Answers
  /\ text = "none" /\ number = NotAsked

\* json_session: every output parameter is shown.
Show ==
  /\ text = "none"
  /\ \/ text' = DecodeToString
     \/ param.format \in Bytewise /\ EndOverflows /\ text' = "panic"
  /\ UNCHANGED <<param, answer, number>>

\* The schema's interface for charts, which no window uses yet.
Plot ==
  /\ number = NotAsked /\ CanPlot
  /\ number' = DecodeToNumber
  /\ UNCHANGED <<param, answer, text>>

DecodeNext == Show \/ Plot
DecodeSpec == DecodeInit /\ [][DecodeNext]_decodeVars
-----------------------------------------------------------------------------
\* As near as 24 bits allow; below 2^24 the number itself.
NearTo(exact) ==
  number - exact <= exact \div F32Exact /\ exact - number <= exact \div F32Exact

(* A number of whole bytes is the bytes' number in the parameter's order,  *)
(* up to 2^24 exactly, above it to 24 bits, which is what an f32 holds; a  *)
(* narrower one of up to a byte is its bits; a flag is zero or one.  Only  *)
(* 17 to 24 bits are not read although they are in the answer.             *)
NumbersReadRight ==
  number # NotAsked /\ InAnswer(param.start, param.length) /\ param.length <= 32 =>
    LET first == StartByte + 1
        bytes == SubSeq(answer, first, first + (param.length \div 8) - 1)
        ordered == IF param.order = "big" THEN bytes ELSE Reverse(bytes)
    IN /\ (number = NotRead) = (param.length \in 17..24)
       /\ param.format = "Bool" /\ number # NotRead =>
            number = (IF \E k \in param.start..param.start + param.length - 1 : Bit(k) = 1 THEN 1 ELSE 0)
       /\ param.format # "Bool" /\ number # NotRead =>
            /\ param.start % 8 = 0 /\ param.length % 8 = 0 => NearTo(FromBytes(ordered))
            /\ param.length <= 8 => number = Value(param.start, param.length)

(* What can_plot offers for a chart is never refused as a kind: it is a    *)
(* number, unless its bits are not in the answer or not of a read width.   *)
PlottedIsNumber == number # NotAsked => number = NotRead \/ number \in Nat

(* An answer that holds the whole parameter never panics the page, unless  *)
(* the parameter is empty or a UTF-16 text; a shorter one only for kinds   *)
(* that are not decoded through their number.                              *)
TextPanicsOnlyShort ==
  text = "panic" =>
    \/ param.format = "Utf16"
    \/ param.format \in Bytewise /\ ~InAnswer(param.start, param.length)

(* An answer's parameters are shown and plotted as what they are.          *)
AnswersShown == NumbersReadRight /\ PlottedIsNumber /\ TextPanicsOnlyShort
=============================================================================
