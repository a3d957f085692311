------------------------------- MODULE EcuAnswers -------------------------------
(***************************************************************************)
(* What the KWP2000 and the UDS server read from an ECU's positive answer: *)
(* the trouble codes, the variant and the identification (read_errors,     *)
(* get_variant_id, read_dcx_mmc_id, read_dcs_id); and what is asked of the *)
(* ECU about a code afterwards (get_dtc_env_data).                         *)
(*                                                                         *)
(* The loops consume the answer as they go.  KWP2000 believes the count    *)
(* the answer begins with; UDS goes by the answer's length.  A byte that   *)
(* is not there is a panic of the UI thread.                               *)
(***************************************************************************)
EXTENDS Naturals, Sequences

CONSTANT Replies   \* what is read ("codes", "variant", "dates"), by which
                   \* protocol, and the answer's bytes, its service first

ASSUME AnswersAssumption ==
  \A r \in Replies : r.protocol \in {"KWP2000", "UDS"} /\ r.bytes \in Seq(0..255)

VARIABLES
  reply,
  left,      \* the bytes not drained yet
  count,     \* KWP2000's loop: codes still to come
  found,     \* the codes read; or the one number identified
  decoding   \* "new", "codes", "done", "error" or "panicked"

answerVars == <<reply, left, count, found, decoding>>
-----------------------------------------------------------------------------
AnswersInit ==
  /\ reply \in Replies /\ left = reply.bytes /\ count = 0
  /\ found = <<>> /\ decoding = "new"

Ends(how) == decoding' = how /\ UNCHANGED <<left, count, found>>
Reads(protocol, topic) ==
  decoding = "new" /\ reply.protocol = protocol /\ reply.topic = topic /\ UNCHANGED reply
Drained(n) == SubSeq(left, n + 1, Len(left))

StateBit(status, n) == (status \div 2^n) % 2 = 1
Mil(status) == StateBit(status, 7)

\* Two bits of the status.
KwpState(status) == <<"None", "Stored", "Pending", "Permanent">>[((status \div 32) % 4) + 1]

\* Fault: a code that is stored is not looked at for more.
UdsState_StoredFirst(status) ==
  CASE StateBit(status, 0) -> "Stored"
    [] StateBit(status, 2) /\ ~StateBit(status, 0) -> "Pending"
    [] StateBit(status, 3) /\ ~StateBit(status, 2) /\ ~StateBit(status, 0) -> "Permanent"
    [] OTHER -> "None"

\* One of several bits, the first that is set.
UdsState(status) ==
  CASE StateBit(status, 2)                          -> "Pending"
    [] StateBit(status, 3) /\ ~StateBit(status, 2)  -> "Permanent"
    [] StateBit(status, 0) /\ ~StateBit(status, 2) /\ ~StateBit(status, 3) -> "Stored"
    [] OTHER                                        -> "None"

Dtc(id, state, status) == [id |-> id, state |-> state, mil |-> Mil(status)]
-----------------------------------------------------------------------------
\* KWP2000ECU::read_errors.
KwpHeader ==
  /\ Reads("KWP2000", "codes")
  /\ IF Len(left) < 2 THEN Ends("panicked")
     ELSE left' = Drained(2) /\ count' = left[2] /\ decoding' = "codes" /\ UNCHANGED found

\* Fault: the status is left for the next code.
KwpCode_KeepsStatus ==
  /\ decoding = "codes" /\ count > 0 /\ UNCHANGED reply
  /\ IF Len(left) < 3 THEN Ends("panicked")
     ELSE /\ found' = Append(found, Dtc(left[1] * 256 + left[2], KwpState(left[3]), left[3]))
          /\ left' = Drained(2) /\ count' = count - 1 /\ UNCHANGED decoding

KwpCode ==
  /\ decoding = "codes" /\ count > 0 /\ UNCHANGED reply
  /\ IF Len(left) < 3 THEN Ends("panicked")
     ELSE /\ found' = Append(found, Dtc(left[1] * 256 + left[2], KwpState(left[3]), left[3]))
          /\ left' = Drained(3) /\ count' = count - 1 /\ UNCHANGED decoding

KwpDone == decoding = "codes" /\ reply.protocol = "KWP2000" /\ count = 0 /\ UNCHANGED reply /\ Ends("done")

\* UDSECU::read_errors.
UdsHeader ==
  /\ Reads("UDS", "codes")
  /\ CASE Len(left) < 3                               -> Ends("panicked")
       [] Len(left) >= 3 /\ (Len(left) - 3) % 4 # 0   -> Ends("error")
       [] OTHER -> left' = Drained(3) /\ decoding' = "codes" /\ UNCHANGED <<count, found>>

UdsCode ==
  /\ decoding = "codes" /\ reply.protocol = "UDS" /\ left # <<>> /\ UNCHANGED reply
  /\ found' = Append(found, Dtc(left[1] * 65536 + left[2] * 256 + left[3], UdsState(left[4]), left[4]))
  /\ left' = Drained(4) /\ UNCHANGED <<count, decoding>>

UdsDone == decoding = "codes" /\ reply.protocol = "UDS" /\ left = <<>> /\ UNCHANGED reply /\ Ends("done")
-----------------------------------------------------------------------------
\* read_dcx_mmc_id and read_dcs_id take answers of one length only.
IdentLength(topic) == IF topic = "variant" THEN 22 ELSE 18
IdentPlace(topic) == IF topic = "variant" THEN 5 ELSE 13      \* diag_information

\* Fault: the last byte may be missing.
Fits_OneLess(topic) == Len(left) \in {IdentLength(topic) - 1, IdentLength(topic)}

Fits(topic) == Len(left) = IdentLength(topic)

\* Fault: the number begins a byte early.
KwpIdentify_Early ==
  /\ \E topic \in {"variant", "dates"} :
       /\ Reads("KWP2000", topic)
       /\ IF ~Fits(topic) THEN Ends("error")
          ELSE /\ found' = <<left[IdentPlace(topic) - 1] * 256 + left[IdentPlace(topic)]>>
               /\ decoding' = "done" /\ UNCHANGED <<left, count>>

KwpIdentify ==
  /\ \E topic \in {"variant", "dates"} :
       /\ Reads("KWP2000", topic)
       /\ IF ~Fits(topic) THEN Ends("error")
          ELSE IF \E i \in 1..IdentLength(topic) : i \notin DOMAIN left THEN Ends("panicked")
          ELSE /\ found' = <<left[IdentPlace(topic)] * 256 + left[IdentPlace(topic) + 1]>>
               /\ decoding' = "done" /\ UNCHANGED <<left, count>>

\* read_variant_id: four bytes from the third on, the first of which is the low
\* byte of the identifier asked for, 0xF100.
UdsVariant ==
  /\ Reads("UDS", "variant")
  /\ IF Len(left) < 6 THEN Ends("panicked")
     ELSE /\ found' = <<((left[3] * 256 + left[4]) * 256 + left[5]) * 256 + left[6]>>
          /\ decoding' = "done" /\ UNCHANGED <<left, count>>

AnswersNext ==
  KwpHeader \/ KwpCode \/ KwpDone \/ UdsHeader \/ UdsCode \/ UdsDone \/ KwpIdentify \/ UdsVariant

AnswersSpec == AnswersInit /\ [][AnswersNext]_answerVars
-----------------------------------------------------------------------------
\* Fault: the upper byte is left out for both protocols' codes.
EnvRequest_Low(protocol, id) == <<(id \div 256) % 256, id % 256>>

\* read_status_dtc, read_dtc_information.
EnvRequest(protocol, id) ==
  IF protocol = "KWP2000" THEN <<(id \div 256) % 256, id % 256>>
                          ELSE <<id \div 65536, (id \div 256) % 256, id % 256>>

\* The answer as the protocols lay it out: after a head, entries of one width,
\* each a code and its status.
HeadLength == IF reply.protocol = "KWP2000" THEN 2 ELSE 3
EntryWidth == IF reply.protocol = "KWP2000" THEN 3 ELSE 4
CodeAt(i) == SubSeq(reply.bytes, HeadLength + EntryWidth * (i - 1) + 1, HeadLength + EntryWidth * i - 1)
StatusAt(i) == reply.bytes[HeadLength + EntryWidth * i]
NumEntries == IF reply.protocol = "KWP2000" THEN reply.bytes[2] ELSE (Len(reply.bytes) - 3) \div 4

AnswersTypeOK ==
  /\ decoding \in {"new", "codes", "done", "error", "panicked"} /\ count \in Nat
  /\ Len(left) <= Len(reply.bytes)
  /\ reply.topic # "codes" => Len(found) <= 1

(* Codes are read in the order and number of the answer, and what the ECU  *)
(* is asked about a code afterwards are that code's own bytes: no code     *)
(* gets another one's freeze frame.                                        *)
CodesAsAnswered ==
  reply.topic = "codes" =>
    /\ \A i \in DOMAIN found : EnvRequest(reply.protocol, found[i].id) = CodeAt(i)
    /\ decoding = "done" => Len(found) = NumEntries

(* A code shown as stored, pending or permanent has that bit set, and one  *)
(* shown as none of them has none set that the protocol looks at; the      *)
(* engine light is its status' highest bit.                                *)
StatesAsAnswered ==
  reply.topic = "codes" =>
    \A i \in DOMAIN found :
      LET status == StatusAt(i)  uds == reply.protocol = "UDS"  s == found[i].state IN
      /\ found[i].mil = (status >= 128)
      /\ (s = "None") = (IF uds THEN ~StateBit(status, 0) /\ ~StateBit(status, 2) /\ ~StateBit(status, 3)
                         ELSE ~StateBit(status, 5) /\ ~StateBit(status, 6))
      /\ uds /\ s = "Stored" => ~StateBit(status, 2) /\ ~StateBit(status, 3)
      /\ ~uds => (s = "Permanent") = (StateBit(status, 5) /\ StateBit(status, 6))

(* Only an answer shorter than its head, or than the count it gives, can   *)
(* panic the page; identification never does on KWP2000.                   *)
AnswersPanicOnlyShort ==
  decoding = "panicked" =>
    \/ reply.topic = "codes" /\ Len(reply.bytes) < HeadLength
    \/ reply.topic = "codes" /\ reply.protocol = "KWP2000" /\ Len(reply.bytes) < 2 + 3 * reply.bytes[2]
    \/ reply.topic = "variant" /\ reply.protocol = "UDS" /\ Len(reply.bytes) < 6

(* What identifies the ECU is its answer's, and only of an answer that has *)
(* it: on KWP2000 the diagnostic information, of an answer of the one      *)
(* length.  On UDS only the three lower bytes are the record's own: the    *)
(* highest is the lower byte of the identifier that was asked for, and the *)
(* record's fourth is not read.                                            *)
IdentifiedAsAnswered ==
  reply.topic # "codes" /\ decoding = "done" =>
    LET id == found[1]  place == IdentPlace(reply.topic) IN
    /\ Len(found) = 1
    /\ reply.protocol = "KWP2000" =>
         /\ Len(reply.bytes) = IdentLength(reply.topic)
         /\ id < 65536 /\ EnvRequest("KWP2000", id) = SubSeq(reply.bytes, place, place + 1)
    /\ reply.protocol = "UDS" =>
         /\ Len(reply.bytes) >= 6
         /\ (id \div 65536) \div 256 = reply.bytes[3]
         /\ <<(id \div 65536) % 256, (id \div 256) % 256, id % 256>> = SubSeq(reply.bytes, 4, 6)

(* What a session's page lists, and what its variant is chosen by, is what *)
(* the ECU answered.                                                       *)
CodesAreTheEcus ==
  /\ AnswersTypeOK /\ AnswersPanicOnlyShort
  /\ CodesAsAnswered /\ StatesAsAnswered /\ IdentifiedAsAnswered
=============================================================================
