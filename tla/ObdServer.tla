------------------------------- MODULE ObdServer -------------------------------
(***************************************************************************)
(* The OBD-II server and its page (ObdServer, Service01, Service09,        *)
(* OBDHome).                                                               *)
(*                                                                         *)
(* Starting a session asks the ECU at once what it supports: the groups of *)
(* service 01's PIDs one after another, each told of by the one before,    *)
(* and service 09's, of which the vehicle's information is then asked.     *)
(* An answer is matched by its service byte only, not by the PID it tells. *)
(* The channels between page and thread are those of DiagServer: here an   *)
(* exchange is send, wait, and wait again for an ECU that needs time.      *)
(***************************************************************************)
EXTENDS Naturals, Sequences, FiniteSets

CONSTANTS
  LastGroup,    \* the last group of PIDs asked for (6: from 0xC0 on)
  Vehicles,     \* ECUs: the identifier they answer with, the last group of PIDs
                \* they have, the information they give, the lists of codes
  Misreadings,  \* what the bytes of another answer may say is supported
  MaxSessions,  \* bound: sessions started
  MaxUnderway   \* bound: requests the ECU has not answered yet

ASSUME ObdAssumption ==
  /\ LastGroup \in Nat /\ MaxSessions \in Nat /\ MaxUnderway \in Nat \ {0}
  /\ \A v \in Vehicles : v.last \in Nat

VARIABLES
  vehicle,          \* external
  test_id, session, \* of the three identifiers; how many sessions there were
  curr_service,     \* what the page shows: 0 its buttons, 9 the information
  asked, place,     \* the request made, and how far: "ask", "wait", "wait_on",
                    \* "none" without a session, "idle" in one, "panicked"
  s01, s09,         \* the groups answered, in order (none: no service 01); the
                    \* information supported, none without service 09
  info,             \* per information: the request and session it is from
  codes,            \* the last listing: per code list, the list it is from
  underway, obd_rx, \* the ECU's requests, the adapter's answers
  lag               \* history: a request was made while another was under way

obdVars == <<vehicle, test_id, session, curr_service, asked, place, s01, s09, info,
             codes, underway, obd_rx, lag>>
obdPageVars == <<session, curr_service, s01, s09, info, codes, test_id>>
-----------------------------------------------------------------------------
Wanted == <<"vin", "calibration_id", "cvns", "ecu_name">>  \* get_everything, in order
Lists == <<"03", "07", "0A">>                              \* stored, pending, permanent
InfoKinds == {Wanted[i] : i \in DOMAIN Wanted}

\* what: a group of PIDs, "supported", an information, or "codes".
Request(service, what) == [service |-> service, what |-> what]
Group(g) == Request("01", <<g>>)
Supported == Request("09", <<"supported">>)
Info(kind) == Request("09", <<kind>>)
Codes(list) == Request(list, <<"codes">>)
NoRequest == Request("none", <<>>)

Nowhere == [of |-> NoRequest, session |-> 0]               \* "Not Supported"

ObdInit ==
  /\ vehicle \in Vehicles
  /\ test_id = 1 /\ session = 0 /\ curr_service = 0
  /\ asked = NoRequest /\ place = "none"
  /\ s01 = <<>> /\ s09 = <<>> /\ info = [k \in InfoKinds |-> Nowhere] /\ codes = <<>>
  /\ underway = <<>> /\ obd_rx = <<>> /\ lag = FALSE

Ask(request) == asked' = request /\ place' = "ask"
Rest == asked' = NoRequest /\ place' = "idle"
-----------------------------------------------------------------------------
\* OBDHome::update.  The identifiers the adapter refuses are skipped.

\* Fault: the page shown before is shown again.
ObdInitIsoTP_KeepsPage ==
  /\ place = "none" /\ session < MaxSessions
  /\ test_id' \in 1..3 /\ session' = session + 1 /\ Ask(Group(0))
  /\ s01' = <<>> /\ s09' = <<>> /\ codes' = <<>>
  /\ UNCHANGED <<vehicle, curr_service, info, underway, obd_rx, lag>>

ObdInitIsoTP ==
  /\ place = "none" /\ session < MaxSessions
  /\ test_id' \in 1..3 /\ session' = session + 1 /\ Ask(Group(0))
  /\ s01' = <<>> /\ s09' = <<>> /\ curr_service' = 0 /\ codes' = <<>>
  /\ UNCHANGED <<vehicle, info, underway, obd_rx, lag>>

ObdDisconnect ==
  /\ place = "idle" /\ place' = "none" /\ asked' = NoRequest
  /\ UNCHANGED <<vehicle, obdPageVars, underway, obd_rx, lag>>

\* Only supported services have a button; 1 and 3 are two of them.
ChooseService ==
  /\ place = "idle"
  /\ \/ curr_service' \in {0} \cup (IF s09 # <<>> THEN {9} ELSE {})
        /\ UNCHANGED <<asked, place, codes>>
     \/ Ask(Codes("03")) /\ codes' = <<>> /\ UNCHANGED curr_service
  /\ UNCHANGED <<vehicle, test_id, session, s01, s09, info, underway, obd_rx, lag>>
-----------------------------------------------------------------------------
\* What comes after a request: the next information supported, or the page.
Position(kind) == CHOOSE i \in DOMAIN Wanted : Wanted[i] = kind
AskFrom(i, supported) ==
  LET left == {j \in i..Len(Wanted) : Wanted[j] \in supported} IN
  IF left = {} THEN Rest ELSE Ask(Info(Wanted[CHOOSE j \in left : \A k \in left : j <= k]))

AskCodesAfter(list) ==
  IF list = "0A" THEN Rest ELSE Ask(Codes(IF list = "03" THEN "07" ELSE "0A"))

\* Fault: what has been answered so far is kept.
FailPids_Kept == Ask(Supported) /\ UNCHANGED s01

\* Service01::init gives up, whatever has been answered so far.
FailPids == Ask(Supported) /\ s01' = <<>>

\* The request has no answer, or not a good one.
NoGoodAnswer ==
  /\ CASE asked.service = "01" -> FailPids /\ UNCHANGED <<s09, info, codes>>
       [] asked = Supported    -> Rest /\ UNCHANGED <<s01, s09, info, codes>>
       [] asked.service = "09" /\ asked # Supported ->
            /\ info' = [info EXCEPT ![asked.what[1]] = [of |-> NoRequest, session |-> session]]
            /\ AskFrom(Position(asked.what[1]) + 1, s09[1]) /\ UNCHANGED <<s01, s09, codes>>
       [] OTHER -> AskCodesAfter(asked.service) /\ UNCHANGED <<s01, s09, info, codes>>
  /\ UNCHANGED <<session, curr_service, test_id>>

\* The last bit of group g.
More(g) == g < vehicle.last

\* Fault: a group more is asked for.
TakePids_OneMore(g) ==
  /\ s01' = Append(s01, g)
  /\ IF Len(s01) <= LastGroup /\ More(g) THEN Ask(Group(Len(s01) + 1)) ELSE Ask(Supported)
  /\ UNCHANGED <<s09, info, codes>>

\* Another group is asked for as long as the one before tells of it.
TakePids(g) ==
  /\ s01' = Append(s01, g)
  /\ IF Len(s01) < LastGroup /\ More(g) THEN Ask(Group(Len(s01) + 1)) ELSE Ask(Supported)
  /\ UNCHANGED <<s09, info, codes>>

\* get_everything begins with nothing.
TakeSupported(answer) ==
  /\ \E supported \in IF answer.of = Supported THEN {vehicle.info} ELSE Misreadings :
       s09' = <<supported>> /\ AskFrom(1, supported)
  /\ info' = [k \in InfoKinds |-> [of |-> NoRequest, session |-> session]]
  /\ UNCHANGED <<s01, codes>>

TakeInfo(answer) ==
  /\ info' = [info EXCEPT ![asked.what[1]] = [of |-> answer.of, session |-> session]]
  /\ AskFrom(Position(asked.what[1]) + 1, s09[1])
  /\ UNCHANGED <<s01, s09, codes>>

TakeCodes(answer) ==
  /\ codes' = Append(codes, [list |-> asked.service, from |-> answer.of.service])
  /\ AskCodesAfter(asked.service)
  /\ UNCHANGED <<s01, s09, info>>

ObdPanics == place' = "panicked" /\ UNCHANGED <<asked, obdPageVars>>

\* The numbers of another answer's CVNs do not fit its length: an error, or the
\* overflow of count * 4.
Misfit(answer) == asked = Info("cvns") /\ answer.of # asked

Succeeds(answer) ==
  /\ CASE asked.service = "01" -> TakePids(answer.of.what[1])
       [] asked = Supported    -> TakeSupported(answer)
       [] asked.service = "09" /\ asked # Supported -> TakeInfo(answer)
       [] OTHER                -> TakeCodes(answer)
  /\ UNCHANGED <<session, curr_service, test_id>>
-----------------------------------------------------------------------------
\* Fault: what is left in the buffer is not cleared.
ObdSend_Uncleared ==
  /\ place = "ask" /\ Len(underway) < MaxUnderway
  /\ underway' = Append(underway, asked) /\ lag' = (lag \/ underway # <<>>)
  /\ place' = "wait" /\ UNCHANGED <<vehicle, asked, obdPageVars, obd_rx>>

\* send_recv_data: cleared, then sent, or not.
ObdSend ==
  /\ place = "ask"
  /\ \/ Len(underway) < MaxUnderway /\ underway' = Append(underway, asked) /\ obd_rx' = <<>>
          /\ place' = "wait" /\ lag' = (lag \/ underway # <<>>) /\ UNCHANGED <<asked, obdPageVars>>
     \/ NoGoodAnswer /\ UNCHANGED <<underway, obd_rx, lag>>
  /\ UNCHANGED vehicle

Waiting == place \in {"wait", "wait_on"}

\* Fault: any answer that is not a refusal is taken.
Matches_Any(answer) == answer.kind = "positive"

Matches(answer) == answer.kind = "positive" /\ answer.of.service = asked.service

\* run_command_resp.  An answer shorter than what is read of it panics the
\* thread, and with it the caller, or the caller itself.
ReceiveAnswer ==
  /\ Waiting /\ obd_rx # <<>> /\ obd_rx' = Tail(obd_rx)
  /\ LET answer == Head(obd_rx) IN
     CASE answer.kind = "pending" /\ place = "wait" ->
            place' = "wait_on" /\ UNCHANGED <<asked, obdPageVars>>
       [] answer.kind = "pending" /\ place # "wait" -> NoGoodAnswer
       [] answer.kind = "short"                     -> ObdPanics \/ NoGoodAnswer
       [] Matches(answer) /\ Misfit(answer)         -> NoGoodAnswer \/ ObdPanics
       [] Matches(answer) /\ ~Misfit(answer)        -> Succeeds(answer)
       [] OTHER                                     -> NoGoodAnswer
  /\ UNCHANGED <<vehicle, underway, lag>>

\* Fault: only the first wait ends.
Timeout_First ==
  /\ place = "wait" /\ NoGoodAnswer
  /\ UNCHANGED <<vehicle, underway, obd_rx, lag>>

Timeout ==
  /\ Waiting /\ obd_rx = <<>> /\ NoGoodAnswer
  /\ UNCHANGED <<vehicle, underway, obd_rx, lag>>

\* The ECU answers in order, with some delay, on its own identifier, or not.
\* (Bound: it asks for time only while nothing waits.)
Has(request) ==
  CASE request.service = "01" -> request.what[1] <= vehicle.last
    [] request = Supported    -> vehicle.info # {}
    [] request.service = "09" /\ request # Supported -> request.what[1] \in vehicle.info
    [] OTHER                  -> request.service \in vehicle.lists

EcuAnswers ==
  /\ underway # <<>> /\ place # "panicked"
  /\ \E kind \in {"negative", "pending", "short"}
                   \cup IF Has(Head(underway)) THEN {"positive"} ELSE {} :
       /\ kind = "pending" => Len(obd_rx) = 0
       /\ obd_rx' = IF vehicle.id # test_id THEN obd_rx
                   ELSE Append(obd_rx, [kind |-> kind, of |-> Head(underway)])
       /\ underway' = IF kind = "pending" THEN underway ELSE Tail(underway)
  /\ UNCHANGED <<vehicle, obdPageVars, asked, place, lag>>

EcuSilent ==
  /\ underway # <<>> /\ underway' = Tail(underway)
  /\ UNCHANGED <<vehicle, obdPageVars, asked, place, obd_rx, lag>>

ObdNext ==
  ObdInitIsoTP \/ ObdDisconnect \/ ChooseService \/ ObdSend \/ ReceiveAnswer \/ Timeout
    \/ EcuAnswers \/ EcuSilent

(* The thread sends, and reads until an answer is there or the time is up; *)
(* the user and the ECU are free.                                          *)
ObdFairness == WF_obdVars(ObdSend \/ ReceiveAnswer \/ Timeout)
ObdSpec == ObdInit /\ [][ObdNext]_obdVars /\ ObdFairness
-----------------------------------------------------------------------------
ObdTypeOK ==
  /\ test_id \in 1..3 /\ session \in 0..MaxSessions /\ curr_service \in {0, 9}
  /\ place \in {"none", "idle", "ask", "wait", "wait_on", "panicked"}
  /\ (asked = NoRequest) = (place \in {"none", "idle"})
  /\ Len(s01) <= LastGroup + 1 /\ Len(s09) <= 1 /\ DOMAIN info = InfoKinds
  /\ Len(underway) <= MaxUnderway /\ lag \in BOOLEAN

(* What the page knows is what the ECU said of that very thing, although   *)
(* answers are matched by service only: every group of PIDs and every      *)
(* information is in its place, unless a request was made while an earlier *)
(* one was still with the ECU.                                             *)
AnswersInPlace ==
  ~lag =>
    /\ \A i \in DOMAIN s01 : s01[i] = i - 1
    /\ \A k \in InfoKinds : info[k].of \in {NoRequest, Info(k)}

(* Service 01 is either known up to the last group the ECU has (of those   *)
(* asked for), or not at all, as soon as the page is shown.                *)
PidsCompleteOrNone ==
  ~lag /\ place = "idle" /\ s01 # <<>> =>
    Len(s01) = 1 + IF vehicle.last < LastGroup THEN vehicle.last ELSE LastGroup

(* Stored codes are never shown as pending or permanent ones, even if      *)
(* answers come late: their services tell them apart.                      *)
CodesOfTheirKind == \A i \in DOMAIN codes : codes[i].list = codes[i].from

(* The information shown is of this session's vehicle, though the page     *)
(* keeps that of the session before.                                       *)
ShownInfoIsCurrent ==
  place = "idle" /\ curr_service = 9 => \A k \in InfoKinds : info[k].session = session

(* What the page tells is of this ECU, this session and the thing asked.   *)
PageTellsOfThisEcu ==
  /\ ObdTypeOK
  /\ AnswersInPlace /\ PidsCompleteOrNone /\ CodesOfTheirKind /\ ShownInfoIsCurrent

(* Pressing a button has an end: the page is idle again, or panicked.      *)
ObdCallsEnd == place \in {"ask", "wait", "wait_on"} ~> place \in {"idle", "panicked"}
=============================================================================
