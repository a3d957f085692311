---------------------------- MODULE DecodingProofs ----------------------------
(***************************************************************************)
(* Proofs about what the program makes of bytes and answers: the OBD-II    *)
(* page of its answers, the KWP2000 and UDS servers of an ECU's trouble    *)
(* codes, the reader of CBF files of a file's records, the converter of    *)
(* its tables and preparations, and the session's page of a parameter.     *)
(*                                                                         *)
(* The OBD-II page, for every vehicle, every number of sessions and of     *)
(* requests under way, and whatever comes late: the argument is about      *)
(* whose answers the adapter holds.  A request that is made while none is  *)
(* with the ECU clears the buffer, so until it ends every answer there,    *)
(* and every one to come, is an answer to it: then matching by service is  *)
(* as good as matching by PID.  What each step may take for granted        *)
(* besides is which request comes next.                                    *)
(***************************************************************************)
EXTENDS ObdServer, EcuAnswers, CaesarReader, CbfLinks, CbfFormats, SequenceTheorems, FiniteSetTheorems, TLAPS

Groups == {Group(g) : g \in Nat}
Infos == {Info(k) : k \in InfoKinds}
CodeLists == {"03", "07", "0A"}
Requests == Groups \cup {Supported} \cup Infos \cup {Codes(l) : l \in CodeLists}

AnswerType == [kind : {"positive", "negative", "pending", "short"}, of : Requests]
CodeType == {[list |-> l, from |-> l] : l \in CodeLists}
InfoType == [of : Requests \cup {NoRequest}, session : Nat]

StateTypes ==
  /\ vehicle \in Vehicles /\ asked \in Requests \cup {NoRequest}
  /\ s01 \in Seq(Nat) /\ codes \in Seq(CodeType) /\ info \in [InfoKinds -> InfoType]
  /\ underway \in Seq(Requests) /\ obd_rx \in Seq(AnswerType)

(* What the ECU answers positively it has; and unless a request overtook   *)
(* another, all that is there or to come while one waits is its own.       *)
AnswersHad == \A i \in DOMAIN obd_rx : obd_rx[i].kind = "positive" => Has(obd_rx[i].of)
OwnAnswers ==
  ~lag /\ Waiting =>
    /\ \A i \in DOMAIN obd_rx : obd_rx[i].of = asked
    /\ \A i \in DOMAIN underway : underway[i] = asked

(* The groups of PIDs are asked for one after another, each only when the  *)
(* one before told of it.                                                  *)
GroupsInOrder ==
  asked.service = "01" =>
    /\ asked = Group(Len(s01)) /\ Len(s01) <= LastGroup
    /\ ~lag => Len(s01) <= vehicle.last
GroupsComplete ==
  ~lag /\ s01 # <<>> /\ asked.service # "01" =>
    Len(s01) = 1 + IF vehicle.last < LastGroup THEN vehicle.last ELSE LastGroup

(* Service 09 is there as long as what it told is of this session.         *)
InfoOfSession ==
  /\ s09 # <<>> => \A k \in InfoKinds : info[k].session = session
  /\ curr_service = 9 => s09 # <<>>

PageInv ==
  /\ vehicle \in Vehicles /\ lag \in BOOLEAN
  /\ test_id \in 1..3 /\ session \in 0..MaxSessions /\ curr_service \in {0, 9}
  /\ place \in {"none", "idle", "ask", "wait", "wait_on", "panicked"}
  /\ asked \in Requests \cup {NoRequest} /\ (asked = NoRequest) = (place \in {"none", "idle"})
  /\ s01 \in Seq(Nat) /\ Len(s01) <= LastGroup + 1 /\ Len(s09) <= 1
  /\ codes \in Seq(CodeType) /\ info \in [InfoKinds -> InfoType]
  /\ GroupsInOrder /\ GroupsComplete /\ AnswersInPlace /\ InfoOfSession

QueueInv ==
  /\ underway \in Seq(Requests) /\ obd_rx \in Seq(AnswerType)
  /\ Len(underway) <= MaxUnderway /\ AnswersHad

OInv == PageInv /\ QueueInv /\ OwnAnswers
-----------------------------------------------------------------------------
(* Requests, and which comes next.                                         *)
LEMMA WantedIs ==
  /\ InfoKinds = {"vin", "calibration_id", "cvns", "ecu_name"}
  /\ DOMAIN Wanted = 1..4 /\ Len(Wanted) = 4 /\ \A i \in 1..4 : Wanted[i] \in InfoKinds
<1>1. /\ DOMAIN Wanted = 1..4 /\ Len(Wanted) = 4
      /\ Wanted[1] = "vin" /\ Wanted[2] = "calibration_id" /\ Wanted[3] = "cvns"
      /\ Wanted[4] = "ecu_name"
  BY DEF Wanted
<1>2. \A i \in 1..4 : i = 1 \/ i = 2 \/ i = 3 \/ i = 4
  OBVIOUS
<1>3. 1 \in 1..4 /\ 2 \in 1..4 /\ 3 \in 1..4 /\ 4 \in 1..4
  OBVIOUS
<1>4. ASSUME NEW k \in InfoKinds
      PROVE  k \in {"vin", "calibration_id", "cvns", "ecu_name"}
  <2>1. PICK i \in 1..4 : k = Wanted[i]
    BY <1>1, <1>4 DEF InfoKinds
  <2> QED
    BY <1>1, <1>2, <2>1
<1>5. \A i \in 1..4 : Wanted[i] \in InfoKinds
  BY <1>1 DEF InfoKinds
<1>6. {"vin", "calibration_id", "cvns", "ecu_name"} \subseteq InfoKinds
  BY <1>1, <1>3, <1>5
<1> QED
  BY <1>1, <1>4, <1>5, <1>6

LEMMA RequestParts ==
  /\ \A g : Group(g).service = "01" /\ Group(g).what[1] = g
  /\ Supported.service = "09" /\ Supported.what[1] = "supported" /\ NoRequest.service = "none"
  /\ \A k : Info(k).service = "09" /\ Info(k).what[1] = k
  /\ \A l : Codes(l).service = l
BY DEF Group, Supported, Info, Codes, NoRequest, Request

LEMMA RequestKinds ==
  ASSUME NEW r \in Requests
  PROVE  /\ r.service \in {"01", "09"} \cup CodeLists /\ r # NoRequest
         /\ r.service = "01" => r.what[1] \in Nat /\ r = Group(r.what[1])
         /\ r.service = "09" /\ r # Supported => r.what[1] \in InfoKinds /\ r = Info(r.what[1])
         /\ r.service \in CodeLists => r = Codes(r.service)
<1>1. CASE r \in Groups
  BY <1>1, RequestParts DEF Groups, CodeLists
<1>2. CASE r = Supported
  BY <1>2, RequestParts DEF CodeLists
<1>3. CASE r \in Infos
  BY <1>3, RequestParts DEF Infos, CodeLists
<1>4. CASE r \in {Codes(l) : l \in CodeLists}
  BY <1>4, RequestParts DEF CodeLists
<1> QED
  BY <1>1, <1>2, <1>3, <1>4 DEF Requests

LEMMA RequestsAre ==
  /\ \A g \in Nat : Group(g) \in Requests
  /\ Supported \in Requests
  /\ \A k \in InfoKinds : Info(k) \in Requests /\ Info(k) # Supported
  /\ \A l \in CodeLists : Codes(l) \in Requests
<1>1. "supported" \notin InfoKinds
  BY WantedIs
<1> QED
  BY <1>1, RequestParts DEF Requests, Groups, Infos

\* The first of some positions.
LEMMA FirstOf ==
  ASSUME NEW remaining \in SUBSET (1..4), remaining # {}
  PROVE  (CHOOSE j \in remaining : \A k \in remaining : j <= k) \in remaining
<1>1. \E j \in remaining : \A k \in remaining : j <= k
  <2>1. CASE 1 \in remaining
    BY <2>1
  <2>2. CASE 1 \notin remaining /\ 2 \in remaining
    BY <2>2
  <2>3. CASE 1 \notin remaining /\ 2 \notin remaining /\ 3 \in remaining
    BY <2>3
  <2>4. CASE 1 \notin remaining /\ 2 \notin remaining /\ 3 \notin remaining
    <3>1. PICK j \in remaining : TRUE
      OBVIOUS
    <3>2. j = 4 /\ \A k \in remaining : k = 4
      BY <2>4
    <3> QED
      BY <3>2
  <2> QED
    BY <2>1, <2>2, <2>3, <2>4
<1> QED
  BY <1>1

LEMMA NextInfo ==
  ASSUME NEW i \in 1..5, NEW supported, AskFrom(i, supported)
  PROVE  Rest \/ \E k \in InfoKinds : Ask(Info(k))
<1> DEFINE remaining == {j \in i..Len(Wanted) : Wanted[j] \in supported}
           first == CHOOSE j \in remaining : \A k \in remaining : j <= k
<1>1. remaining \in SUBSET (1..4)
  <2>1. Len(Wanted) = 4
    BY WantedIs
  <2> QED
    BY <2>1
<1>2. CASE remaining = {}
  BY <1>2 DEF AskFrom
<1>3. CASE remaining # {}
  <2>1. first \in 1..4
    BY <1>1, <1>3, FirstOf
  <2>2. Ask(Info(Wanted[first]))
    BY <1>3 DEF AskFrom
  <2> HIDE DEF first
  <2> QED
    BY <2>1, <2>2, WantedIs
<1> QED
  BY <1>2, <1>3

LEMMA PositionIs ==
  ASSUME NEW k \in InfoKinds
  PROVE  Position(k) + 1 \in 1..5
<1>1. PICK i \in 1..4 : Wanted[i] = k
  BY WantedIs DEF InfoKinds
<1>2. Position(k) \in 1..4
  BY <1>1, WantedIs DEF Position
<1> QED
  BY <1>2
-----------------------------------------------------------------------------
(* What a request's end does to the page.                                  *)
LEMMA PageParts ==
  ASSUME PageInv
  PROVE  /\ vehicle \in Vehicles /\ vehicle.last \in Nat /\ LastGroup \in Nat
         /\ session \in Nat /\ session \in 0..MaxSessions
         /\ asked \in Requests \cup {NoRequest} /\ s01 \in Seq(Nat) /\ Len(s01) \in Nat
         /\ Len(s01) <= LastGroup + 1 /\ Len(s09) <= 1
         /\ codes \in Seq(CodeType) /\ info \in [InfoKinds -> InfoType]
         /\ place \in {"ask", "wait", "wait_on"} => asked \in Requests
<1>1. /\ vehicle \in Vehicles /\ session \in 0..MaxSessions
      /\ asked \in Requests \cup {NoRequest} /\ s01 \in Seq(Nat)
      /\ Len(s01) <= LastGroup + 1 /\ Len(s09) <= 1
      /\ codes \in Seq(CodeType) /\ info \in [InfoKinds -> InfoType]
  BY Zenon DEF PageInv
<1>2. (asked = NoRequest) = (place \in {"none", "idle"})
  BY Zenon DEF PageInv
<1>3. LastGroup \in Nat /\ MaxSessions \in Nat /\ vehicle.last \in Nat
  BY <1>1, ObdAssumption
<1>4. session \in Nat /\ Len(s01) \in Nat
  BY <1>1, <1>3
<1>5. place \in {"ask", "wait", "wait_on"} => asked \in Requests
  BY <1>1, <1>2
<1> QED
  BY <1>1, <1>3, <1>4, <1>5, Zenon

LEMMA PageKeeps ==
  ASSUME PageInv, UNCHANGED <<vehicle, session, curr_service, test_id, lag>>,
         asked' \in Requests \cup {NoRequest}, place' \in {"idle", "ask"},
         (asked' = NoRequest) = (place' = "idle"),
         s01' \in Seq(Nat), Len(s01') <= LastGroup + 1, Len(s09') <= 1,
         codes' \in Seq(CodeType), info' \in [InfoKinds -> InfoType],
         GroupsInOrder', GroupsComplete', AnswersInPlace', InfoOfSession'
  PROVE  PageInv'
<1>1. (asked' = NoRequest) = (place' \in {"none", "idle"})
  OBVIOUS
<1>2. place' \in {"none", "idle", "ask", "wait", "wait_on", "panicked"}
  OBVIOUS
<1>3. /\ vehicle' \in Vehicles /\ lag' \in BOOLEAN
      /\ test_id' \in 1..3 /\ session' \in 0..MaxSessions /\ curr_service' \in {0, 9}
  BY Zenon DEF PageInv
<1> QED
  BY <1>1, <1>2, <1>3, Zenon DEF PageInv

LEMMA AskedNext ==
  ASSUME NEW r \in Requests, Ask(r) \/ Rest
  PROVE  /\ asked' \in Requests \cup {NoRequest} /\ place' \in {"idle", "ask"}
         /\ (asked' = NoRequest) = (place' = "idle")
         /\ r.service # "01" => asked'.service # "01"
<1>1. r # NoRequest /\ NoRequest.service # "01"
  BY RequestKinds, RequestParts
<1> QED
  BY <1>1 DEF Ask, Rest

\* Only requests that are not of groups of PIDs follow one that is not.
LEMMA NotOfGroups ==
  ASSUME PageInv, UNCHANGED <<vehicle, session, curr_service, test_id, lag, s01>>,
         asked.service # "01", NEW r \in Requests, r.service # "01", Ask(r) \/ Rest,
         Len(s09') <= 1, codes' \in Seq(CodeType), info' \in [InfoKinds -> InfoType],
         AnswersInPlace', InfoOfSession'
  PROVE  PageInv'
<1>1. /\ asked' \in Requests \cup {NoRequest} /\ place' \in {"idle", "ask"}
      /\ (asked' = NoRequest) = (place' = "idle") /\ asked'.service # "01"
  BY AskedNext
<1>2. GroupsInOrder' /\ GroupsComplete'
  BY <1>1 DEF PageInv, GroupsInOrder, GroupsComplete
<1> QED
  BY <1>1, <1>2, PageKeeps, PageParts

LEMMA InfoSet ==
  ASSUME PageInv, NEW k \in InfoKinds, NEW of \in Requests \cup {NoRequest},
         info' = [info EXCEPT ![k] = [of |-> of, session |-> session]]
  PROVE  /\ info' \in [InfoKinds -> InfoType]
         /\ info'[k].of = of /\ info'[k].session = session
         /\ \A j \in InfoKinds \ {k} : info'[j] = info[j]
<1>1. [of |-> of, session |-> session] \in InfoType /\ info \in [InfoKinds -> InfoType]
  BY PageParts DEF InfoType
<1> QED
  BY <1>1

LEMMA NoGoodAnswerIs ==
  ASSUME asked \in Requests, NoGoodAnswer
  PROVE  /\ asked.service = "01" => FailPids /\ UNCHANGED <<s09, info, codes>>
         /\ asked = Supported => Rest /\ UNCHANGED <<s01, s09, info, codes>>
         /\ asked.service = "09" /\ asked # Supported =>
              /\ info' = [info EXCEPT ![asked.what[1]] = [of |-> NoRequest, session |-> session]]
              /\ AskFrom(Position(asked.what[1]) + 1, s09[1]) /\ UNCHANGED <<s01, s09, codes>>
         /\ asked.service \in CodeLists =>
              AskCodesAfter(asked.service) /\ UNCHANGED <<s01, s09, info, codes>>
         /\ UNCHANGED <<session, curr_service, test_id>>
<1>1. CASE asked.service = "01"
  BY <1>1, RequestParts DEF NoGoodAnswer, CodeLists
<1>2. CASE asked = Supported
  BY <1>2, RequestParts DEF NoGoodAnswer, CodeLists
<1>3. CASE asked.service = "09" /\ asked # Supported
  BY <1>3 DEF NoGoodAnswer, CodeLists
<1>4. CASE asked.service \in CodeLists
  BY <1>4, RequestParts DEF NoGoodAnswer, CodeLists
<1> QED
  BY <1>1, <1>2, <1>3, <1>4, RequestKinds

LEMMA GivesUp ==
  ASSUME PageInv, place \in {"ask", "wait", "wait_on"}, NoGoodAnswer, UNCHANGED <<vehicle, lag>>
  PROVE  PageInv' /\ place' \in {"idle", "ask"}
<1>1. asked \in Requests /\ UNCHANGED <<session, curr_service, test_id>>
  BY PageParts DEF NoGoodAnswer
<1>2. AnswersInPlace /\ InfoOfSession
  BY DEF PageInv
<1>3. CASE asked.service = "01"
  <2>1. Ask(Supported) /\ s01' = <<>> /\ UNCHANGED <<s09, info, codes>>
    BY <1>1, <1>3, NoGoodAnswerIs DEF FailPids
  <2>2. /\ asked' \in Requests \cup {NoRequest} /\ place' \in {"idle", "ask"}
        /\ (asked' = NoRequest) = (place' = "idle") /\ asked'.service # "01"
    BY <2>1, AskedNext, RequestsAre, RequestParts
  <2>3. s01' \in Seq(Nat) /\ Len(s01') = 0 /\ DOMAIN s01' = {}
    BY <2>1, EmptySeq
  <2>4. GroupsInOrder' /\ GroupsComplete'
    BY <2>1, <2>2 DEF GroupsInOrder, GroupsComplete
  <2>5. AnswersInPlace' /\ InfoOfSession'
    BY <1>1, <1>2, <2>1, <2>3 DEF AnswersInPlace, InfoOfSession
  <2>6. Len(s01') <= LastGroup + 1
    <3>1. LastGroup \in Nat
      BY ObdAssumption
    <3> QED
      BY <2>3, <3>1
  <2> QED
    BY <1>1, <2>1, <2>2, <2>3, <2>4, <2>5, <2>6, PageKeeps, PageParts
<1>4. CASE asked = Supported
  <2>1. Rest /\ UNCHANGED <<s01, s09, info, codes>>
    BY <1>1, <1>4, NoGoodAnswerIs
  <2>2. AnswersInPlace' /\ InfoOfSession'
    BY <1>1, <1>2, <2>1 DEF AnswersInPlace, InfoOfSession
  <2>3. asked.service # "01" /\ Supported \in Requests /\ Supported.service # "01"
    BY <1>4, RequestParts, RequestsAre
  <2> QED
    BY <1>1, <2>1, <2>2, <2>3, NotOfGroups, PageParts DEF Rest
<1>5. CASE asked.service = "09" /\ asked # Supported
  <2> DEFINE k == asked.what[1]
  <2>1. k \in InfoKinds
    BY <1>1, <1>5, RequestKinds
  <2>2. /\ info' = [info EXCEPT ![k] = [of |-> NoRequest, session |-> session]]
        /\ AskFrom(Position(k) + 1, s09[1]) /\ UNCHANGED <<s01, s09, codes>>
    BY <1>1, <1>5, NoGoodAnswerIs
  <2> HIDE DEF k
  <2>3. Rest \/ \E kind \in InfoKinds : Ask(Info(kind))
    BY <2>1, <2>2, PositionIs, NextInfo
  <2>4. PICK r \in Requests : r.service # "01" /\ (Ask(r) \/ Rest)
    BY <2>3, RequestsAre, RequestParts
  <2>5. /\ info' \in [InfoKinds -> InfoType]
        /\ info'[k].of = NoRequest /\ info'[k].session = session
        /\ \A j \in InfoKinds \ {k} : info'[j] = info[j]
    BY <2>1, <2>2, InfoSet
  <2>6. AnswersInPlace' /\ InfoOfSession'
    BY <1>1, <1>2, <2>2, <2>5 DEF AnswersInPlace, InfoOfSession
  <2>7. place' \in {"idle", "ask"}
    BY <2>4, AskedNext
  <2> QED
    BY <1>1, <1>5, <2>2, <2>4, <2>5, <2>6, <2>7, NotOfGroups, PageParts
<1>6. CASE asked.service \in CodeLists
  <2>1. AskCodesAfter(asked.service) /\ UNCHANGED <<s01, s09, info, codes>>
    BY <1>1, <1>6, NoGoodAnswerIs
  <2>2. PICK r \in Requests : r.service # "01" /\ (Ask(r) \/ Rest)
    BY <2>1, RequestsAre, RequestParts DEF AskCodesAfter, CodeLists
  <2>3. AnswersInPlace' /\ InfoOfSession'
    BY <1>1, <1>2, <2>1 DEF AnswersInPlace, InfoOfSession
  <2>4. place' \in {"idle", "ask"} /\ asked.service # "01"
    BY <1>6, <2>2, AskedNext DEF CodeLists
  <2> QED
    BY <1>1, <2>1, <2>2, <2>3, <2>4, NotOfGroups, PageParts
<1> QED
  BY <1>1, <1>3, <1>4, <1>5, <1>6, RequestKinds

LEMMA SucceedsIs ==
  ASSUME asked \in Requests, NEW told, Succeeds(told)
  PROVE  /\ asked.service = "01" => TakePids(told.of.what[1])
         /\ asked = Supported => TakeSupported(told)
         /\ asked.service = "09" /\ asked # Supported => TakeInfo(told)
         /\ asked.service \in CodeLists => TakeCodes(told)
         /\ UNCHANGED <<session, curr_service, test_id>>
<1>1. CASE asked.service = "01"
  BY <1>1, RequestParts DEF Succeeds, CodeLists
<1>2. CASE asked = Supported
  BY <1>2, RequestParts DEF Succeeds, CodeLists
<1>3. CASE asked.service = "09" /\ asked # Supported
  BY <1>3 DEF Succeeds, CodeLists
<1>4. CASE asked.service \in CodeLists
  BY <1>4, RequestParts DEF Succeeds, CodeLists
<1> QED
  BY <1>1, <1>2, <1>3, <1>4, RequestKinds

\* A group of PIDs is told of, by its own answer unless requests lag.
LEMMA PidsTaken ==
  ASSUME PageInv, asked \in Requests, asked.service = "01", NEW g \in Nat,
         ~lag => Group(g) = asked /\ Has(asked),
         TakePids(g), UNCHANGED <<vehicle, lag, session, curr_service, test_id>>
  PROVE  PageInv' /\ place' = "ask"
<1> DEFINE L == Len(s01)
<1>1. /\ vehicle.last \in Nat /\ LastGroup \in Nat /\ s01 \in Seq(Nat) /\ L \in Nat
      /\ GroupsInOrder /\ AnswersInPlace /\ InfoOfSession
  BY PageParts DEF PageInv
<1>2. asked = Group(L) /\ L <= LastGroup /\ (~lag => L <= vehicle.last)
  BY <1>1 DEF GroupsInOrder
<1>3. ~lag => g = L
  BY <1>2, RequestParts
<1>4. /\ s01' = Append(s01, g) /\ UNCHANGED <<s09, info, codes>>
      /\ IF L < LastGroup /\ More(g) THEN Ask(Group(L + 1)) ELSE Ask(Supported)
  BY DEF TakePids
<1>5. /\ s01' \in Seq(Nat) /\ Len(s01') = L + 1 /\ s01'[L + 1] = g
      /\ \A i \in 1..L : s01'[i] = s01[i]
      /\ DOMAIN s01' = 1..(L + 1)
  BY <1>1, <1>4
<1>6. AnswersInPlace'
  <2> SUFFICES ASSUME ~lag, NEW i \in 1..(L + 1)
               PROVE  s01'[i] = i - 1
    BY <1>1, <1>4, <1>5 DEF AnswersInPlace
  <2>1. CASE i \in 1..L
    <3>1. DOMAIN s01 = 1..L
      BY <1>1
    <3> QED
      BY <1>1, <1>5, <2>1, <3>1 DEF AnswersInPlace
  <2>2. CASE i = L + 1
    BY <1>1, <1>3, <1>5, <2>2
  <2> QED
    BY <1>1, <2>1, <2>2
<1>7. InfoOfSession'
  BY <1>1, <1>4 DEF InfoOfSession
<1>8. Len(s01') <= LastGroup + 1
  BY <1>1, <1>2, <1>5
<1> HIDE DEF L
<1>9. CASE L < LastGroup /\ More(g)
  <2>1. Ask(Group(L + 1)) /\ Group(L + 1) \in Requests
    BY <1>1, <1>4, <1>9, RequestsAre
  <2>2. /\ asked' = Group(Len(s01')) /\ asked'.service = "01" /\ asked' # NoRequest
        /\ place' = "ask"
    BY <1>5, <2>1, RequestParts DEF Ask
  <2>3. ~lag => L + 1 <= vehicle.last
    BY <1>1, <1>3, <1>9 DEF More
  <2>4. GroupsInOrder' /\ GroupsComplete'
    BY <1>1, <1>5, <1>9, <2>2, <2>3 DEF GroupsInOrder, GroupsComplete
  <2>5. asked' \in Requests
    BY <2>1 DEF Ask
  <2> QED
    BY <1>4, <1>5, <1>6, <1>7, <1>8, <2>2, <2>4, <2>5, PageKeeps, PageParts
<1>10. CASE ~(L < LastGroup /\ More(g))
  <2>1. Ask(Supported) /\ Supported \in Requests
    BY <1>4, <1>10, RequestsAre
  <2>2. /\ asked' \in Requests /\ asked'.service # "01" /\ asked' # NoRequest
        /\ place' = "ask"
    BY <2>1, RequestParts DEF Ask
  <2>3. ~lag => L = IF vehicle.last < LastGroup THEN vehicle.last ELSE LastGroup
    BY <1>1, <1>2, <1>3, <1>10 DEF More
  <2>4. GroupsInOrder' /\ GroupsComplete'
    BY <1>1, <1>5, <2>2, <2>3 DEF GroupsInOrder, GroupsComplete
  <2> QED
    BY <1>4, <1>5, <1>6, <1>7, <1>8, <2>2, <2>4, PageKeeps, PageParts
<1> QED
  BY <1>9, <1>10

LEMMA AnswerTaken ==
  ASSUME PageInv, asked \in Requests, NEW told \in AnswerType, Matches(told),
         Has(told.of), ~lag => told.of = asked,
         Succeeds(told), UNCHANGED <<vehicle, lag>>
  PROVE  PageInv' /\ place' \in {"idle", "ask"}
<1>1. UNCHANGED <<session, curr_service, test_id>>
  BY SucceedsIs
<1>2. told.of \in Requests /\ told.of.service = asked.service
  BY DEF AnswerType, Matches
<1>3. AnswersInPlace /\ InfoOfSession
  BY DEF PageInv
<1>4. CASE asked.service = "01"
  <2> DEFINE g == told.of.what[1]
  <2>1. g \in Nat /\ told.of = Group(g)
    BY <1>2, <1>4, RequestKinds
  <2>2. TakePids(g)
    BY <1>4, SucceedsIs
  <2> HIDE DEF g
  <2> QED
    BY <1>1, <1>4, <2>1, <2>2, PidsTaken
<1>5. CASE asked = Supported
  <2>1. PICK supported : s09' = <<supported>> /\ AskFrom(1, supported)
    BY <1>5, SucceedsIs DEF TakeSupported
  <2>2. /\ info' = [k \in InfoKinds |-> [of |-> NoRequest, session |-> session]]
        /\ UNCHANGED <<s01, codes>>
    BY <1>5, SucceedsIs DEF TakeSupported
  <2>3. PICK r \in Requests : r.service # "01" /\ (Ask(r) \/ Rest)
    <3>1. Rest \/ \E kind \in InfoKinds : Ask(Info(kind))
      BY <2>1, NextInfo
    <3> QED
      BY <3>1, RequestsAre, RequestParts
  <2>4. [of |-> NoRequest, session |-> session] \in InfoType
    BY PageParts DEF InfoType
  <2>5. info' \in [InfoKinds -> InfoType] /\ Len(s09') = 1
    BY <2>1, <2>2, <2>4
  <2>6. \A k \in InfoKinds : info'[k].of = NoRequest /\ info'[k].session = session
    BY <2>2
  <2>7. s09' # <<>>
    BY <2>1
  <2>8. AnswersInPlace' /\ InfoOfSession'
    BY <1>1, <1>3, <2>2, <2>6, <2>7 DEF AnswersInPlace, InfoOfSession
  <2>9. asked.service # "01" /\ place' \in {"idle", "ask"}
    BY <1>5, <2>3, RequestParts, AskedNext
  <2> QED
    BY <1>1, <2>2, <2>3, <2>5, <2>8, <2>9, NotOfGroups, PageParts
<1>6. CASE asked.service = "09" /\ asked # Supported
  <2> DEFINE k == asked.what[1]
  <2>1. k \in InfoKinds /\ asked = Info(k)
    BY <1>6, RequestKinds
  <2>2. /\ info' = [info EXCEPT ![k] = [of |-> told.of, session |-> session]]
        /\ AskFrom(Position(k) + 1, s09[1]) /\ UNCHANGED <<s01, s09, codes>>
    BY <1>6, SucceedsIs DEF TakeInfo
  <2> HIDE DEF k
  <2>3. Rest \/ \E kind \in InfoKinds : Ask(Info(kind))
    BY <2>1, <2>2, PositionIs, NextInfo
  <2>4. PICK r \in Requests : r.service # "01" /\ (Ask(r) \/ Rest)
    BY <2>3, RequestsAre, RequestParts
  <2>5. /\ info' \in [InfoKinds -> InfoType]
        /\ info'[k].of = told.of /\ info'[k].session = session
        /\ \A j \in InfoKinds \ {k} : info'[j] = info[j]
    BY <1>2, <2>1, <2>2, InfoSet
  <2>6. AnswersInPlace' /\ InfoOfSession'
    BY <1>1, <1>3, <2>1, <2>2, <2>5 DEF AnswersInPlace, InfoOfSession
  <2>7. place' \in {"idle", "ask"}
    BY <2>4, AskedNext
  <2> QED
    BY <1>1, <1>6, <2>2, <2>4, <2>5, <2>6, <2>7, NotOfGroups, PageParts
<1>7. CASE asked.service \in CodeLists
  <2>1. /\ codes' = Append(codes, [list |-> asked.service, from |-> told.of.service])
        /\ AskCodesAfter(asked.service) /\ UNCHANGED <<s01, s09, info>>
    BY <1>7, SucceedsIs DEF TakeCodes
  <2>2. PICK r \in Requests : r.service # "01" /\ (Ask(r) \/ Rest)
    BY <2>1, RequestsAre, RequestParts DEF AskCodesAfter, CodeLists
  <2>3. [list |-> asked.service, from |-> told.of.service] \in CodeType
    BY <1>2, <1>7 DEF CodeType
  <2>4. codes' \in Seq(CodeType)
    BY <2>1, <2>3, PageParts
  <2>5. AnswersInPlace' /\ InfoOfSession'
    BY <1>1, <1>3, <2>1 DEF AnswersInPlace, InfoOfSession
  <2>6. place' \in {"idle", "ask"} /\ asked.service # "01"
    BY <1>7, <2>2, AskedNext DEF CodeLists
  <2> QED
    BY <1>1, <2>1, <2>2, <2>4, <2>5, <2>6, NotOfGroups, PageParts
<1> QED
  BY <1>4, <1>5, <1>6, <1>7, RequestKinds
-----------------------------------------------------------------------------
(* The adapter's answers and the ECU's requests.                           *)
LEMMA TailIs ==
  ASSUME NEW S, NEW q \in Seq(S), q # <<>>
  PROVE  /\ Head(q) = q[1] /\ q[1] \in S /\ 1 \in DOMAIN q /\ Tail(q) \in Seq(S)
         /\ Len(Tail(q)) = Len(q) - 1 /\ Len(q) \in Nat
         /\ \A i \in DOMAIN Tail(q) : i + 1 \in DOMAIN q /\ Tail(q)[i] = q[i + 1]
OBVIOUS

LEMMA AppendIs ==
  ASSUME NEW S, NEW q \in Seq(S), NEW x \in S
  PROVE  /\ Append(q, x) \in Seq(S) /\ Len(Append(q, x)) = Len(q) + 1
         /\ \A i \in DOMAIN Append(q, x) :
              (i \in DOMAIN q /\ Append(q, x)[i] = q[i]) \/ Append(q, x)[i] = x
OBVIOUS

LEMMA RxShrinks ==
  ASSUME QueueInv, OwnAnswers, obd_rx # <<>>, obd_rx' = Tail(obd_rx), UNCHANGED <<vehicle, underway>>
  PROVE  /\ QueueInv'
         /\ Head(obd_rx) \in AnswerType /\ (Head(obd_rx).kind = "positive" => Has(Head(obd_rx).of))
         /\ ~lag /\ Waiting => Head(obd_rx).of = asked
         /\ lag' = lag /\ asked' = asked /\ Waiting => OwnAnswers'
<1>1. obd_rx \in Seq(AnswerType) /\ AnswersHad
  BY DEF QueueInv
<1>2. /\ Head(obd_rx) = obd_rx[1] /\ obd_rx[1] \in AnswerType /\ 1 \in DOMAIN obd_rx /\ Tail(obd_rx) \in Seq(AnswerType)
      /\ \A i \in DOMAIN Tail(obd_rx) : i + 1 \in DOMAIN obd_rx /\ Tail(obd_rx)[i] = obd_rx[i + 1]
  BY <1>1, TailIs
<1>3. AnswersHad'
  BY <1>1, <1>2 DEF AnswersHad, Has
<1>4. QueueInv'
  BY <1>2, <1>3 DEF QueueInv
<1>5. Head(obd_rx).kind = "positive" => Has(Head(obd_rx).of)
  BY <1>1, <1>2 DEF AnswersHad
<1>6. ~lag /\ Waiting => Head(obd_rx).of = asked
  BY <1>2 DEF OwnAnswers
<1>7. ASSUME lag' = lag, asked' = asked, Waiting PROVE OwnAnswers'
  BY <1>2, <1>7 DEF OwnAnswers
<1> QED
  BY <1>2, <1>4, <1>5, <1>6, <1>7

LEMMA PlaceMoves ==
  ASSUME PageInv, place \in {"ask", "wait", "wait_on"}, place' \in {"wait", "wait_on", "panicked"},
         UNCHANGED <<vehicle, asked, obdPageVars>>, lag' \in BOOLEAN, lag => lag'
  PROVE  PageInv'
<1>1. UNCHANGED <<vehicle, asked, session, curr_service, s01, s09, info, codes, test_id>>
  BY DEF obdPageVars
<1>2. GroupsInOrder' /\ GroupsComplete' /\ AnswersInPlace' /\ InfoOfSession'
  BY <1>1 DEF PageInv, GroupsInOrder, GroupsComplete, AnswersInPlace, InfoOfSession
<1>3. asked # NoRequest
  BY PageParts, RequestKinds
<1>4. (asked' = NoRequest) = (place' \in {"none", "idle"})
  BY <1>1, <1>3
<1>5. place' \in {"none", "idle", "ask", "wait", "wait_on", "panicked"}
  OBVIOUS
<1> QED
  BY <1>1, <1>2, <1>4, <1>5, Zenon DEF PageInv

LEMMA SendKeeps ==
  ASSUME OInv, ObdSend
  PROVE  OInv'
<1>0. PageInv /\ QueueInv /\ OwnAnswers /\ place = "ask" /\ UNCHANGED vehicle
  BY DEF OInv, ObdSend
<1>1. CASE NoGoodAnswer /\ UNCHANGED <<underway, obd_rx, lag>>
  <2>1. PageInv' /\ place' \in {"idle", "ask"}
    BY <1>0, <1>1, GivesUp
  <2>2. QueueInv'
    BY <1>0, <1>1 DEF QueueInv, AnswersHad, Has
  <2>3. OwnAnswers'
    BY <2>1 DEF OwnAnswers, Waiting
  <2> QED
    BY <2>1, <2>2, <2>3 DEF OInv
<1>2. CASE /\ Len(underway) < MaxUnderway /\ underway' = Append(underway, asked) /\ obd_rx' = <<>>
           /\ place' = "wait" /\ lag' = (lag \/ underway # <<>>) /\ UNCHANGED <<asked, obdPageVars>>
  <2>1. lag' \in BOOLEAN /\ (lag => lag') /\ (~lag' => underway = <<>>)
    BY <1>2, Zenon
  <2>2. PageInv'
    BY <1>0, <1>2, <2>1, PlaceMoves
  <2>3. asked \in Requests /\ underway \in Seq(Requests) /\ MaxUnderway \in Nat
    BY <1>0, PageParts, ObdAssumption DEF QueueInv
  <2>4. /\ underway' \in Seq(Requests) /\ Len(underway') <= MaxUnderway
        /\ obd_rx' \in Seq(AnswerType) /\ DOMAIN obd_rx' = {}
    BY <1>2, <2>3, EmptySeq
  <2>5. QueueInv'
    BY <2>4 DEF QueueInv, AnswersHad
  <2>6. OwnAnswers'
    <3> SUFFICES ASSUME ~lag' PROVE \A i \in DOMAIN underway' : underway'[i] = asked
      BY <1>2, <2>4 DEF OwnAnswers
    <3>1. underway' = <<asked>>
      BY <1>2, <2>1
    <3> QED
      BY <3>1
  <2> QED
    BY <2>2, <2>5, <2>6 DEF OInv
<1> QED
  BY <1>1, <1>2 DEF ObdSend

LEMMA ReceiveKeeps ==
  ASSUME OInv, ReceiveAnswer
  PROVE  OInv'
<1> DEFINE told == Head(obd_rx)
<1>0. /\ PageInv /\ QueueInv /\ OwnAnswers /\ Waiting /\ obd_rx # <<>> /\ obd_rx' = Tail(obd_rx)
      /\ UNCHANGED <<vehicle, underway, lag>> /\ place \in {"ask", "wait", "wait_on"}
  BY DEF OInv, ReceiveAnswer, Waiting
<1>1. /\ QueueInv' /\ told \in AnswerType /\ (told.kind = "positive" => Has(told.of))
      /\ ~lag => told.of = asked
      /\ asked' = asked => OwnAnswers'
  BY <1>0, RxShrinks
<1>2. \/ place = "wait" /\ place' = "wait_on" /\ UNCHANGED <<asked, obdPageVars>>
      \/ NoGoodAnswer
      \/ ObdPanics
      \/ Matches(told) /\ Succeeds(told)
  BY DEF ReceiveAnswer, AnswerType, Matches
<1>3. asked \in Requests /\ lag \in BOOLEAN
  BY <1>0, PageParts DEF PageInv
<1>4. CASE place = "wait" /\ place' = "wait_on" /\ UNCHANGED <<asked, obdPageVars>>
  <2>1. PageInv'
    BY <1>0, <1>3, <1>4, PlaceMoves
  <2> QED
    BY <1>1, <1>4, <2>1 DEF OInv
<1>5. CASE NoGoodAnswer
  <2>1. PageInv' /\ place' \in {"idle", "ask"}
    BY <1>0, <1>5, GivesUp
  <2> QED
    BY <1>1, <2>1 DEF OInv, OwnAnswers, Waiting
<1>6. CASE ObdPanics
  <2>1. PageInv'
    BY <1>0, <1>3, <1>6, PlaceMoves DEF ObdPanics
  <2> QED
    BY <1>1, <1>6, <2>1 DEF OInv, ObdPanics
<1>7. CASE Matches(told) /\ Succeeds(told)
  <2>1. PageInv' /\ place' \in {"idle", "ask"}
    <3>1. Has(told.of)
      BY <1>1, <1>7 DEF Matches
    <3> HIDE DEF told
    <3> QED
      BY <1>0, <1>1, <1>3, <1>7, <3>1, AnswerTaken
  <2> QED
    BY <1>1, <2>1 DEF OInv, OwnAnswers, Waiting
<1> QED
  BY <1>2, <1>4, <1>5, <1>6, <1>7

LEMMA TimeoutKeeps ==
  ASSUME OInv, Timeout
  PROVE  OInv'
<1>0. /\ PageInv /\ QueueInv /\ NoGoodAnswer /\ UNCHANGED <<vehicle, underway, obd_rx, lag>>
      /\ place \in {"ask", "wait", "wait_on"}
  BY DEF OInv, Timeout, Waiting
<1>1. PageInv' /\ place' \in {"idle", "ask"}
  BY <1>0, GivesUp
<1>2. QueueInv'
  BY <1>0 DEF QueueInv, AnswersHad, Has
<1> QED
  BY <1>1, <1>2 DEF OInv, OwnAnswers, Waiting

LEMMA EcuKeeps ==
  ASSUME OInv, EcuAnswers \/ EcuSilent
  PROVE  OInv'
<1>0. /\ PageInv /\ QueueInv /\ OwnAnswers /\ underway # <<>>
      /\ UNCHANGED <<vehicle, session, curr_service, s01, s09, info, codes, test_id, asked,
                     place, lag>>
  BY DEF OInv, EcuAnswers, EcuSilent, obdPageVars
<1>1. PageInv'
  BY <1>0 DEF PageInv, GroupsInOrder, GroupsComplete, AnswersInPlace, InfoOfSession
<1>2. /\ underway \in Seq(Requests) /\ obd_rx \in Seq(AnswerType) /\ AnswersHad
      /\ Len(underway) <= MaxUnderway /\ MaxUnderway \in Nat
  BY <1>0, ObdAssumption DEF QueueInv
<1>3. /\ Head(underway) = underway[1] /\ underway[1] \in Requests /\ 1 \in DOMAIN underway
      /\ Tail(underway) \in Seq(Requests)
      /\ Len(Tail(underway)) = Len(underway) - 1 /\ Len(underway) \in Nat
      /\ \A i \in DOMAIN Tail(underway) :
           i + 1 \in DOMAIN underway /\ Tail(underway)[i] = underway[i + 1]
  BY <1>0, <1>2, TailIs
<1>4. underway' \in {underway, Tail(underway)}
  BY DEF EcuAnswers, EcuSilent
<1>5. /\ underway' \in Seq(Requests) /\ Len(underway') <= MaxUnderway
      /\ ~lag /\ Waiting => \A i \in DOMAIN underway' : underway'[i] = asked
  <2>1. CASE underway' = underway
    BY <1>0, <1>2, <2>1 DEF OwnAnswers
  <2>2. CASE underway' = Tail(underway)
    BY <1>0, <1>2, <1>3, <2>2 DEF OwnAnswers
  <2> QED
    BY <1>4, <2>1, <2>2
<1>6. /\ obd_rx' \in Seq(AnswerType) /\ AnswersHad'
      /\ ~lag /\ Waiting => \A i \in DOMAIN obd_rx' : obd_rx'[i].of = asked
  <2>1. CASE obd_rx' = obd_rx
    BY <1>0, <1>2, <2>1 DEF AnswersHad, Has, OwnAnswers
  <2>2. ASSUME NEW kind \in {"positive", "negative", "pending", "short"},
               kind = "positive" => Has(Head(underway)),
               obd_rx' = Append(obd_rx, [kind |-> kind, of |-> Head(underway)])
        PROVE  /\ obd_rx' \in Seq(AnswerType) /\ AnswersHad'
               /\ ~lag /\ Waiting => \A i \in DOMAIN obd_rx' : obd_rx'[i].of = asked
    <3> DEFINE new == [kind |-> kind, of |-> Head(underway)]
    <3>1. new \in AnswerType /\ new.kind = kind /\ new.of = underway[1]
      BY <1>3 DEF AnswerType
    <3> HIDE DEF new
    <3>2. obd_rx' = Append(obd_rx, new)
      BY <2>2 DEF new
    <3>3. /\ obd_rx' \in Seq(AnswerType)
          /\ \A i \in DOMAIN obd_rx' : (i \in DOMAIN obd_rx /\ obd_rx'[i] = obd_rx[i]) \/ obd_rx'[i] = new
      BY <1>2, <3>1, <3>2, AppendIs
    <3>4. AnswersHad'
      <4>1. new.kind = "positive" => Has(new.of)
        BY <1>3, <2>2, <3>1
      <4>2. \A i \in DOMAIN obd_rx' : obd_rx'[i].kind = "positive" => Has(obd_rx'[i].of)
        BY <1>2, <3>3, <4>1 DEF AnswersHad
      <4> QED
        BY <1>0, <4>2 DEF AnswersHad, Has
    <3>5. ~lag /\ Waiting => new.of = asked
      BY <1>0, <1>3, <3>1 DEF OwnAnswers
    <3> QED
      BY <1>0, <3>3, <3>4, <3>5 DEF OwnAnswers
  <2>3. CASE EcuSilent
    BY <2>1, <2>3 DEF EcuSilent
  <2>4. CASE EcuAnswers
    <3>1. PICK kind \in {"negative", "pending", "short"}
                          \cup IF Has(Head(underway)) THEN {"positive"} ELSE {} :
            obd_rx' = IF vehicle.id # test_id THEN obd_rx
                  ELSE Append(obd_rx, [kind |-> kind, of |-> Head(underway)])
      BY <2>4 DEF EcuAnswers
    <3>2. /\ kind \in {"positive", "negative", "pending", "short"}
          /\ kind = "positive" => Has(Head(underway))
      OBVIOUS
    <3> QED
      BY <2>1, <2>2, <3>1, <3>2
  <2> QED
    BY <2>3, <2>4
<1>7. QueueInv'
  BY <1>5, <1>6, <1>2, ObdAssumption DEF QueueInv
<1>8. OwnAnswers'
  BY <1>0, <1>5, <1>6 DEF OwnAnswers, Waiting
<1> QED
  BY <1>1, <1>7, <1>8 DEF OInv

LEMMA PageStepKeeps ==
  ASSUME OInv, ObdInitIsoTP \/ ObdDisconnect \/ ChooseService
  PROVE  OInv'
<1>0. /\ PageInv /\ QueueInv /\ UNCHANGED <<vehicle, underway, obd_rx, lag>>
      /\ LastGroup \in Nat /\ MaxSessions \in Nat /\ vehicle.last \in Nat /\ vehicle \in Vehicles
      /\ session \in 0..MaxSessions /\ lag \in BOOLEAN
      /\ info \in [InfoKinds -> InfoType]
  BY ObdAssumption, PageParts DEF OInv, PageInv, ObdInitIsoTP, ObdDisconnect, ChooseService
<1>1. QueueInv'
  BY <1>0 DEF QueueInv, AnswersHad, Has
<1>2. place' \in {"ask", "idle", "none"} => OwnAnswers'
  BY DEF OwnAnswers, Waiting
<1>3. CASE ObdInitIsoTP
  <2>1. /\ test_id' \in 1..3 /\ session' = session + 1 /\ session < MaxSessions
        /\ asked' = Group(0) /\ place' = "ask" /\ s01' = <<>> /\ s09' = <<>>
        /\ curr_service' = 0 /\ codes' = <<>> /\ UNCHANGED info
    BY <1>3 DEF ObdInitIsoTP, Ask
  <2>2. Group(0) \in Requests /\ Group(0) # NoRequest
    BY RequestsAre, RequestKinds
  <2>3. (asked' = NoRequest) = (place' \in {"none", "idle"})
    BY <2>1, <2>2
  <2>4. /\ s01' \in Seq(Nat) /\ Len(s01') = 0 /\ DOMAIN s01' = {} /\ Len(s09') = 0
        /\ codes' \in Seq(CodeType)
    BY <2>1, EmptySeq
  <2>5. session' \in 0..MaxSessions
    BY <1>0, <2>1
  <2>6. GroupsInOrder' /\ GroupsComplete'
    BY <1>0, <2>1, <2>4 DEF GroupsInOrder, GroupsComplete
  <2>7. AnswersInPlace'
    BY <1>0, <2>1, <2>4 DEF PageInv, AnswersInPlace
  <2>8. InfoOfSession'
    BY <2>1 DEF InfoOfSession
  <2>9. /\ Len(s01') <= LastGroup + 1 /\ Len(s09') <= 1
        /\ place' \in {"none", "idle", "ask", "wait", "wait_on", "panicked"}
        /\ asked' \in Requests \cup {NoRequest} /\ curr_service' \in {0, 9}
    BY <1>0, <2>1, <2>2, <2>4
  <2>10. vehicle' \in Vehicles /\ lag' \in BOOLEAN
    BY <1>0, Zenon
  <2>11. PageInv'
    BY <1>0, <2>1, <2>3, <2>4, <2>5, <2>6, <2>7, <2>8, <2>9, <2>10, Zenon DEF PageInv
  <2> QED
    BY <1>1, <1>2, <2>1, <2>11 DEF OInv
<1>4. CASE ObdDisconnect
  <2>1. /\ place = "idle" /\ place' = "none" /\ asked' = NoRequest
        /\ UNCHANGED <<session, curr_service, s01, s09, info, codes, test_id>>
    BY <1>4 DEF ObdDisconnect, obdPageVars
  <2>2. asked = NoRequest
    BY <1>0, <2>1 DEF PageInv
  <2>3. (asked' = NoRequest) = (place' \in {"none", "idle"})
    BY <2>1
  <2>4. GroupsInOrder' /\ GroupsComplete' /\ AnswersInPlace' /\ InfoOfSession'
    BY <1>0, <2>1, <2>2 DEF PageInv, GroupsInOrder, GroupsComplete, AnswersInPlace, InfoOfSession
  <2>5. place' \in {"none", "idle", "ask", "wait", "wait_on", "panicked"}
    BY <2>1
  <2>6. PageInv'
    BY <1>0, <2>1, <2>3, <2>4, <2>5, Zenon DEF PageInv
  <2> QED
    BY <1>1, <1>2, <2>1, <2>6 DEF OInv
<1>5. CASE ChooseService
  <2>1. /\ place = "idle" /\ UNCHANGED <<test_id, session, s01, s09, info>>
        /\ \/ curr_service' \in {0} \cup (IF s09 # <<>> THEN {9} ELSE {})
                /\ UNCHANGED <<asked, place, codes>>
           \/ Ask(Codes("03")) /\ codes' = <<>> /\ UNCHANGED curr_service
    BY <1>5 DEF ChooseService
  <2>2. asked = NoRequest /\ NoRequest.service # "01"
    BY <1>0, <2>1, RequestParts DEF PageInv
  <2>3. AnswersInPlace'
    BY <1>0, <2>1 DEF PageInv, AnswersInPlace
  <2>4. CASE /\ curr_service' \in {0} \cup (IF s09 # <<>> THEN {9} ELSE {})
             /\ UNCHANGED <<asked, place, codes>>
    <3>1. curr_service' \in {0, 9} /\ (curr_service' = 9 => s09 # <<>>)
      BY <2>4
    <3>2. GroupsInOrder' /\ GroupsComplete' /\ InfoOfSession'
      BY <1>0, <2>1, <2>4, <3>1 DEF PageInv, GroupsInOrder, GroupsComplete, InfoOfSession
    <3>3. PageInv'
      BY <1>0, <2>1, <2>3, <2>4, <3>1, <3>2, Zenon DEF PageInv
    <3> QED
      BY <1>1, <1>2, <2>1, <2>4, <3>3 DEF OInv
  <2>5. CASE Ask(Codes("03")) /\ codes' = <<>> /\ UNCHANGED curr_service
    <3>1. Codes("03") \in Requests /\ Codes("03").service # "01"
      BY RequestsAre, RequestParts DEF CodeLists
    <3>2. InfoOfSession' /\ codes' \in Seq(CodeType) /\ place' = "ask"
      BY <1>0, <2>1, <2>5, EmptySeq DEF PageInv, InfoOfSession, Ask
    <3>3. PageInv'
      BY <1>0, <2>1, <2>2, <2>3, <2>5, <3>1, <3>2, NotOfGroups, PageParts
    <3> QED
      BY <1>1, <1>2, <3>2, <3>3 DEF OInv
  <2> QED
    BY <2>1, <2>4, <2>5
<1> QED
  BY <1>3, <1>4, <1>5

LEMMA ObdStarts ==
  ASSUME ObdInit
  PROVE  OInv
<1>1. /\ vehicle \in Vehicles /\ test_id = 1 /\ session = 0 /\ curr_service = 0
      /\ asked = NoRequest /\ place = "none" /\ s01 = <<>> /\ s09 = <<>> /\ codes = <<>>
      /\ info = [k \in InfoKinds |-> Nowhere] /\ underway = <<>> /\ obd_rx = <<>> /\ lag = FALSE
      /\ LastGroup \in Nat /\ MaxSessions \in Nat /\ MaxUnderway \in Nat
  BY ObdAssumption DEF ObdInit
<1>2. /\ s01 \in Seq(Nat) /\ Len(s01) = 0 /\ DOMAIN s01 = {} /\ Len(s09) = 0
      /\ codes \in Seq(CodeType) /\ underway \in Seq(Requests) /\ Len(underway) = 0
      /\ obd_rx \in Seq(AnswerType) /\ DOMAIN obd_rx = {}
  BY <1>1, EmptySeq
<1>3. Nowhere \in InfoType /\ Nowhere.of = NoRequest
  BY DEF Nowhere, InfoType
<1>4. info \in [InfoKinds -> InfoType] /\ \A k \in InfoKinds : info[k].of = NoRequest
  BY <1>1, <1>3
<1>5. GroupsInOrder /\ GroupsComplete
  BY <1>1, RequestParts DEF GroupsInOrder, GroupsComplete
<1>6. AnswersInPlace /\ InfoOfSession
  BY <1>1, <1>2, <1>4 DEF AnswersInPlace, InfoOfSession
<1>7. /\ test_id \in 1..3 /\ session \in 0..MaxSessions /\ curr_service \in {0, 9}
      /\ place \in {"none", "idle", "ask", "wait", "wait_on", "panicked"}
      /\ asked \in Requests \cup {NoRequest} /\ (asked = NoRequest) = (place \in {"none", "idle"})
      /\ Len(s01) <= LastGroup + 1 /\ Len(s09) <= 1
  BY <1>1, <1>2
<1>8. lag \in BOOLEAN
  BY <1>1, Zenon
<1>9. PageInv
  BY <1>1, <1>2, <1>4, <1>5, <1>6, <1>7, <1>8, Zenon DEF PageInv
<1>10. QueueInv /\ OwnAnswers
  BY <1>1, <1>2 DEF QueueInv, OwnAnswers, AnswersHad, Waiting
<1> QED
  BY <1>9, <1>10 DEF OInv

LEMMA ObdSteps ==
  ASSUME OInv, [ObdNext]_obdVars
  PROVE  OInv'
<1>1. CASE UNCHANGED obdVars
  BY <1>1 DEF obdVars, OInv, PageInv, QueueInv, OwnAnswers, AnswersHad, Has, Waiting,
              GroupsInOrder, GroupsComplete, AnswersInPlace, InfoOfSession
<1> QED
  BY <1>1, PageStepKeeps, SendKeeps, ReceiveKeeps, TimeoutKeeps, EcuKeeps DEF ObdNext

\* What the page needs to know follows.
LEMMA PageTells ==
  ASSUME OInv
  PROVE  PageTellsOfThisEcu
<1>0. PageInv /\ QueueInv
  BY DEF OInv
<1>1. DOMAIN info = InfoKinds
  BY <1>0 DEF PageInv
<1>2. ObdTypeOK
  BY <1>0, <1>1, Zenon DEF PageInv, QueueInv, ObdTypeOK
<1>3. PidsCompleteOrNone
  <2>1. place = "idle" => asked.service # "01"
    BY <1>0, RequestParts DEF PageInv
  <2> QED
    BY <1>0, <2>1 DEF PageInv, GroupsComplete, PidsCompleteOrNone
<1>4. CodesOfTheirKind
  <2>1. \A i \in DOMAIN codes : codes[i] \in CodeType
    BY <1>0 DEF PageInv
  <2>2. \A c \in CodeType : c.list = c.from
    BY DEF CodeType
  <2> QED
    BY <2>1, <2>2 DEF CodesOfTheirKind
<1>5. ShownInfoIsCurrent
  BY <1>0 DEF PageInv, InfoOfSession, ShownInfoIsCurrent
<1> QED
  BY <1>0, <1>2, <1>3, <1>4, <1>5 DEF PageTellsOfThisEcu, PageInv

(* What the OBD-II page tells is of this ECU, this session and the very    *)
(* thing asked, though answers are matched by their service byte alone and *)
(* may come late, short, negative or never: for every vehicle, every       *)
(* number of groups, sessions and requests under way.                      *)
THEOREM PageTellsHolds == ObdSpec => []PageTellsOfThisEcu
<1>1. ObdInit => OInv
  BY ObdStarts
<1>2. OInv /\ [ObdNext]_obdVars => OInv'
  BY ObdSteps
<1>3. OInv => PageTellsOfThisEcu
  BY PageTells
<1> QED
  BY <1>1, <1>2, <1>3, PTL DEF ObdSpec
-----------------------------------------------------------------------------
(* What KWP2000 and UDS read from an ECU's answer (EcuAnswers), for every  *)
(* answer there may be: cut anywhere, of any length, with any count.       *)
(*                                                                         *)
(* What is left is always the end of the answer behind the codes that were *)
(* read, so each code is read from its own entry.                          *)

Octets == 0..255

\* The entries of the answer's layout, decoded.
KwpDtc(b, i) == Dtc(b[3 * i] * 256 + b[3 * i + 1], KwpState(b[3 * i + 2]), b[3 * i + 2])
UdsDtc(b, i) ==
  Dtc(b[4 * i] * 65536 + b[4 * i + 1] * 256 + b[4 * i + 2], UdsState(b[4 * i + 3]), b[4 * i + 3])

IsSeq(s) == \E S : s \in Seq(S)

\* A sequence without its first n elements.
Without(s, n) == SubSeq(s, n + 1, Len(s))

\* The rest of the answer b behind its first "read" bytes.
Behind(rest, b, read) ==
  /\ Len(rest) = Len(b) - read
  /\ \A j \in 1..Len(rest) : rest[j] = b[read + j]

AnswerTyped ==
  /\ reply \in Replies /\ reply.protocol \in {"KWP2000", "UDS"} /\ reply.bytes \in Seq(Octets)
  /\ left \in Seq(Octets) /\ Len(left) <= Len(reply.bytes) /\ count \in Nat
  /\ decoding \in {"new", "codes", "done", "error", "panicked"}
  /\ decoding = "new" => left = reply.bytes /\ found = <<>>
  /\ reply.protocol = "UDS" => count = 0
  /\ decoding = "codes" => reply.topic = "codes"
  /\ reply.topic # "codes" => Len(found) <= 1
  /\ IsSeq(found)

(* KWP2000: a count and its entries of three bytes, behind two of a head.  *)
KwpRead ==
  reply.protocol = "KWP2000" /\ reply.topic = "codes" =>
    /\ \A i \in 1..Len(found) : 3 * i + 2 <= Len(reply.bytes) /\ found[i] = KwpDtc(reply.bytes, i)
    /\ decoding \in {"codes", "done"} =>
         /\ Len(reply.bytes) >= 2 + 3 * Len(found)
         /\ Behind(left, reply.bytes, 2 + 3 * Len(found)) /\ count + Len(found) = reply.bytes[2]
    /\ decoding = "done" => count = 0

(* UDS: entries of four bytes behind three of a head, to the end.          *)
UdsRead ==
  reply.protocol = "UDS" /\ reply.topic = "codes" =>
    /\ \A i \in 1..Len(found) : 4 * i + 3 <= Len(reply.bytes) /\ found[i] = UdsDtc(reply.bytes, i)
    /\ decoding \in {"codes", "done"} =>
         /\ Len(reply.bytes) >= 3 + 4 * Len(found)
         /\ Behind(left, reply.bytes, 3 + 4 * Len(found)) /\ (Len(reply.bytes) - 3) % 4 = 0
    /\ decoding = "done" => left = <<>>

AInv == AnswerTyped /\ KwpRead /\ UdsRead /\ AnswersPanicOnlyShort
-----------------------------------------------------------------------------
LEMMA AnswersStart == AnswersInit => AInv
<1> SUFFICES ASSUME AnswersInit PROVE AInv
  OBVIOUS
<1>1. AnswerTyped
  <2>1. found \in Seq({}) /\ Len(found) = 0
    BY DEF AnswersInit
  <2> QED
    BY <2>1, AnswersAssumption DEF AnswersInit, AnswerTyped, Octets, IsSeq
<1>2. Len(found) = 0 /\ decoding = "new"
  BY DEF AnswersInit
<1>3. KwpRead /\ UdsRead
  BY <1>2 DEF KwpRead, UdsRead
<1> QED
  BY <1>1, <1>2, <1>3 DEF AInv, AnswersPanicOnlyShort

\* The loops take bytes off the front.
LEMMA DrainedBehind ==
  ASSUME NEW rest \in Seq(Octets), NEW b \in Seq(Octets), NEW read \in Nat, Behind(rest, b, read),
         NEW n \in Nat, n <= Len(rest)
  PROVE  /\ Without(rest, n) \in Seq(Octets)
         /\ Len(Without(rest, n)) <= Len(b)
         /\ Behind(Without(rest, n), b, read + n)
         /\ \A j \in 1..n : rest[j] = b[read + j] /\ rest[j] \in Octets
<1>1. /\ Len(rest) \in Nat /\ Len(b) \in Nat /\ Len(rest) = Len(b) - read
      /\ \A j \in 1..Len(rest) : rest[j] = b[read + j]
      /\ \A j \in 1..Len(rest) : rest[j] \in Octets
  BY DEF Behind
<1> DEFINE m == n + 1
           l == Len(rest)
           now == SubSeq(rest, m, l)
<1>2. m \in Int /\ l \in Int /\ \A i \in m..l : rest[i] \in Octets
  BY <1>1
<1>3. l - m + 1 = l - n /\ (m <= l \/ l - n = 0) /\ \A j \in Int : m + j - 1 = n + j
  <2>1. \A k \in Nat : n <= k => k - (n + 1) + 1 = k - n /\ (n + 1 <= k \/ k - n = 0)
    OBVIOUS
  <2>2. \A j \in Int : m + j - 1 = n + j
    OBVIOUS
  <2> QED
    BY <1>1, <2>1, <2>2
<1> HIDE DEF m, l
<1>4. /\ now \in Seq(Octets)
      /\ Len(now) = IF m <= l THEN l - m + 1 ELSE 0
      /\ \A j \in 1..(l - m + 1) : now[j] = rest[m + j - 1]
  BY <1>2, SubSeqProperties
<1> HIDE DEF now
<1>5. Len(now) = l - n
  BY <1>3, <1>4
<1>6. \A j \in 1..Len(now) : now[j] = rest[n + j]
  BY <1>1, <1>3, <1>4, <1>5 DEF l
<1>7. \A j \in 1..Len(now) : n + j \in 1..Len(rest) /\ read + (n + j) = (read + n) + j
  BY <1>1, <1>5 DEF l
<1>8. \A j \in 1..Len(now) : now[j] = b[(read + n) + j]
  BY <1>1, <1>6, <1>7
<1>9. Len(now) = Len(b) - (read + n) /\ Len(now) <= Len(b) /\ Len(now) \in Nat
  BY <1>1, <1>5 DEF l
<1>10. \A j \in 1..n : rest[j] = b[read + j] /\ rest[j] \in Octets
  <2>1. \A j \in 1..n : j \in 1..Len(rest)
    BY <1>1
  <2> QED
    BY <1>1, <2>1
<1> QED
  BY <1>4, <1>8, <1>9, <1>10 DEF Behind, Without, now, m, l

LEMMA DrainedIs == \A n : Drained(n) = Without(left, n)
BY DEF Drained, Without

\* A code is added behind those there are.
LEMMA FoundMore ==
  ASSUME NEW S, NEW s \in Seq(S), NEW x
  PROVE  /\ IsSeq(Append(s, x))
         /\ Len(Append(s, x)) = Len(s) + 1 /\ Len(s) \in Nat
         /\ \A i \in 1..Len(s) : Append(s, x)[i] = s[i]
         /\ Append(s, x)[Len(s) + 1] = x
<1>1. s \in Seq(S \cup {x}) /\ x \in S \cup {x} /\ Len(s) \in Nat
  OBVIOUS
<1>2. /\ Append(s, x) \in Seq(S \cup {x})
      /\ Len(Append(s, x)) = Len(s) + 1
      /\ \A i \in 1..Len(s) : Append(s, x)[i] = s[i]
      /\ Append(s, x)[Len(s) + 1] = x
  BY <1>1, AppendProperties
<1> QED
  BY <1>1, <1>2 DEF IsSeq

LEMMA KwpHeaderKeeps ==
  ASSUME AInv, KwpHeader
  PROVE  AInv'
<1>0. /\ AnswerTyped /\ decoding = "new" /\ reply.protocol = "KWP2000" /\ reply.topic = "codes"
      /\ reply' = reply /\ left = reply.bytes /\ found = <<>> /\ AnswersPanicOnlyShort
  BY DEF AInv, AnswerTyped, KwpHeader, Reads
<1>1. reply.bytes \in Seq(Octets) /\ Len(reply.bytes) \in Nat
  BY <1>0 DEF AnswerTyped
<1>2. CASE Len(left) < 2
  <2>1. decoding' = "panicked" /\ UNCHANGED <<left, count, found>>
    BY <1>2 DEF KwpHeader, Ends
  <2>2. AnswerTyped'
    BY <1>0, <2>1 DEF AnswerTyped
  <2>3. KwpRead' /\ UdsRead'
    BY <1>0, <2>1 DEF AInv, KwpRead, UdsRead
  <2>4. AnswersPanicOnlyShort'
    BY <1>0, <1>2 DEF AnswersPanicOnlyShort, HeadLength
  <2> QED
    BY <2>2, <2>3, <2>4 DEF AInv
<1>3. CASE ~(Len(left) < 2)
  <2>1. left' = Drained(2) /\ count' = left[2] /\ decoding' = "codes" /\ found' = found
    BY <1>3 DEF KwpHeader
  <2>2. 2 <= Len(left) /\ Behind(left, reply.bytes, 0)
    BY <1>0, <1>1, <1>3 DEF Behind
  <2>3. /\ left' \in Seq(Octets) /\ Len(left') <= Len(reply.bytes)
        /\ Behind(left', reply.bytes, 0 + 2)
        /\ \A j \in 1..2 : left[j] = reply.bytes[0 + j] /\ left[j] \in Octets
    BY <1>0, <1>1, <2>1, <2>2, DrainedBehind, DrainedIs
  <2>4. count' \in Nat /\ count' = reply.bytes[2]
    <3>1. 2 \in 1..2 /\ 0 + 2 = 2
      OBVIOUS
    <3>2. left[2] = reply.bytes[2] /\ left[2] \in Octets
      BY <2>3, <3>1
    <3> QED
      BY <2>1, <3>2 DEF Octets
  <2>5. AnswerTyped'
    BY <1>0, <2>1, <2>3, <2>4 DEF AnswerTyped
  <2>6. Len(found') = 0
    BY <1>0, <2>1
  <2>7. Len(reply.bytes) >= 2 + 3 * 0 /\ 2 + 3 * 0 = 0 + 2 /\ count' + 0 = reply.bytes[2]
    BY <1>0, <1>1, <2>2, <2>4
  <2>8. KwpRead'
    BY <1>0, <2>1, <2>3, <2>6, <2>7 DEF KwpRead
  <2>9. UdsRead' /\ AnswersPanicOnlyShort'
    BY <1>0, <2>1 DEF UdsRead, AnswersPanicOnlyShort
  <2> QED
    BY <2>5, <2>8, <2>9 DEF AInv
<1> QED
  BY <1>2, <1>3

LEMMA KwpCodeKeeps ==
  ASSUME AInv, KwpCode, reply.protocol = "KWP2000"
  PROVE  AInv'
<1>0. /\ AnswerTyped /\ decoding = "codes" /\ reply.topic = "codes" /\ count > 0 /\ count \in Nat
      /\ reply' = reply
  BY DEF AInv, AnswerTyped, KwpCode
<1>1. PICK b : b = reply.bytes
  OBVIOUS
<1>2. /\ b \in Seq(Octets) /\ Len(b) \in Nat /\ left \in Seq(Octets) /\ Len(left) \in Nat
  BY <1>0, <1>1 DEF AnswerTyped
<1>3. PICK S : found \in Seq(S)
  BY <1>0 DEF AnswerTyped, IsSeq
<1>4. PICK n \in Nat : n = Len(found)
  BY <1>3
<1>5. /\ Len(b) >= 2 + 3 * n /\ Behind(left, b, 2 + 3 * n) /\ count + n = b[2]
      /\ \A i \in 1..n : 3 * i + 2 <= Len(b) /\ found[i] = KwpDtc(b, i)
  BY <1>0, <1>1, <1>4 DEF AInv, KwpRead
<1>6. Len(left) = Len(b) - (2 + 3 * n)
  BY <1>5 DEF Behind
<1>7. CASE Len(left) < 3
  <2>1. decoding' = "panicked" /\ UNCHANGED <<left, count, found>>
    BY <1>7 DEF KwpCode, Ends
  <2>2. AnswerTyped'
    BY <1>0, <2>1 DEF AnswerTyped
  <2>3. KwpRead' /\ UdsRead'
    BY <1>0, <2>1 DEF AInv, KwpRead, UdsRead
  <2>4. Len(b) < 2 + 3 * b[2]
    BY <1>0, <1>2, <1>5, <1>6, <1>7
  <2>5. AnswersPanicOnlyShort'
    BY <1>0, <1>1, <2>4 DEF AnswersPanicOnlyShort
  <2> QED
    BY <2>2, <2>3, <2>5 DEF AInv
<1>8. CASE ~(Len(left) < 3)
  <2>1. PICK code : /\ code = Dtc(left[1] * 256 + left[2], KwpState(left[3]), left[3])
                    /\ found' = Append(found, code)
    BY <1>8 DEF KwpCode
  <2>2. left' = Drained(3) /\ count' = count - 1 /\ decoding' = decoding
    BY <1>8 DEF KwpCode
  <2>3. 3 <= Len(left) /\ 2 + 3 * n \in Nat
    BY <1>2, <1>8
  <2>4. /\ left' \in Seq(Octets) /\ Len(left') <= Len(b)
        /\ Behind(left', b, (2 + 3 * n) + 3)
        /\ \A j \in 1..3 : left[j] = b[(2 + 3 * n) + j]
    BY <1>2, <1>5, <2>2, <2>3, DrainedBehind, DrainedIs
  <2>5. code = KwpDtc(b, n + 1)
    <3>1. left[1] = b[(2 + 3 * n) + 1] /\ left[2] = b[(2 + 3 * n) + 2] /\ left[3] = b[(2 + 3 * n) + 3]
      BY <2>4
    <3>2. /\ (2 + 3 * n) + 1 = 3 * (n + 1) /\ (2 + 3 * n) + 2 = 3 * (n + 1) + 1
          /\ (2 + 3 * n) + 3 = 3 * (n + 1) + 2
      OBVIOUS
    <3> QED
      BY <2>1, <3>1, <3>2 DEF KwpDtc
  <2>6. /\ IsSeq(found')
        /\ Len(found') = n + 1 /\ found'[n + 1] = code
        /\ \A i \in 1..n : found'[i] = found[i]
    BY <1>3, <1>4, <2>1, FoundMore
  <2>7. count' \in Nat /\ count' + (n + 1) = b[2]
    BY <1>0, <1>5, <2>2
  <2>8. AnswerTyped'
    BY <1>0, <1>1, <2>2, <2>4, <2>6, <2>7 DEF AnswerTyped
  <2>9. /\ Len(b) >= 2 + 3 * (n + 1) /\ 3 * (n + 1) + 2 <= Len(b)
        /\ (2 + 3 * n) + 3 = 2 + 3 * (n + 1)
    BY <1>2, <1>6, <2>3
  <2>10. \A i \in 1..(n + 1) : 3 * i + 2 <= Len(b) /\ found'[i] = KwpDtc(b, i)
    <3>1. \A i \in 1..(n + 1) : i \in 1..n \/ i = n + 1
      OBVIOUS
    <3> QED
      BY <1>5, <2>5, <2>6, <2>9, <3>1
  <2>11. Behind(left', b, 2 + 3 * (n + 1))
    BY <2>4, <2>9
  <2>12. KwpRead'
    BY <1>0, <1>1, <2>2, <2>6, <2>7, <2>9, <2>10, <2>11 DEF KwpRead
  <2>13. UdsRead' /\ AnswersPanicOnlyShort'
    BY <1>0, <2>2 DEF UdsRead, AnswersPanicOnlyShort
  <2> QED
    BY <2>8, <2>12, <2>13 DEF AInv
<1> QED
  BY <1>7, <1>8

LEMMA UdsHeaderKeeps ==
  ASSUME AInv, UdsHeader
  PROVE  AInv'
<1>0. /\ AnswerTyped /\ decoding = "new" /\ reply.protocol = "UDS" /\ reply.topic = "codes"
      /\ reply' = reply /\ left = reply.bytes /\ found = <<>> /\ AnswersPanicOnlyShort
  BY DEF AInv, AnswerTyped, UdsHeader, Reads
<1>1. reply.bytes \in Seq(Octets) /\ Len(reply.bytes) \in Nat
  BY <1>0 DEF AnswerTyped
<1>2. \/ /\ decoding' \in {"panicked", "error"} /\ UNCHANGED <<left, count, found>>
         /\ decoding' = "panicked" => Len(left) < 3
      \/ /\ left' = Drained(3) /\ decoding' = "codes" /\ UNCHANGED <<count, found>>
         /\ 3 <= Len(left) /\ (Len(left) - 3) % 4 = 0
  <2>1. CASE Len(left) < 3
    BY <2>1 DEF UdsHeader, Ends
  <2>2. CASE Len(left) >= 3 /\ (Len(left) - 3) % 4 # 0
    <3>1. ~(Len(left) < 3)
      BY <1>0, <1>1, <2>2
    <3> QED
      BY <2>2, <3>1 DEF UdsHeader, Ends
  <2>3. CASE Len(left) >= 3 /\ (Len(left) - 3) % 4 = 0
    <3>1. ~(Len(left) < 3)
      BY <1>0, <1>1, <2>3
    <3> QED
      BY <2>3, <3>1 DEF UdsHeader
  <2>4. PICK l \in Nat : l = Len(left)
    BY <1>0, <1>1
  <2>5. l < 3 \/ l >= 3
    OBVIOUS
  <2> QED
    BY <2>1, <2>2, <2>3, <2>4, <2>5
<1>3. CASE /\ decoding' \in {"panicked", "error"} /\ UNCHANGED <<left, count, found>>
           /\ decoding' = "panicked" => Len(left) < 3
  <2>2. AnswerTyped'
    BY <1>0, <1>3 DEF AnswerTyped
  <2>3. KwpRead' /\ UdsRead'
    BY <1>0, <1>3 DEF AInv, KwpRead, UdsRead
  <2>4. AnswersPanicOnlyShort'
    BY <1>0, <1>3 DEF AnswersPanicOnlyShort, HeadLength
  <2> QED
    BY <2>2, <2>3, <2>4 DEF AInv
<1>4. CASE /\ left' = Drained(3) /\ decoding' = "codes" /\ UNCHANGED <<count, found>>
           /\ 3 <= Len(left) /\ (Len(left) - 3) % 4 = 0
  <2>2. Behind(left, reply.bytes, 0)
    BY <1>0, <1>1 DEF Behind
  <2>3. /\ left' \in Seq(Octets) /\ Len(left') <= Len(reply.bytes)
        /\ Behind(left', reply.bytes, 0 + 3)
    BY <1>0, <1>1, <1>4, <2>2, DrainedBehind, DrainedIs
  <2>4. AnswerTyped'
    BY <1>0, <1>4, <2>3 DEF AnswerTyped
  <2>5. Len(found') = 0
    <3>1. found' = <<>>
      BY <1>0, <1>4
    <3> QED
      BY <3>1
  <2>6. Len(reply.bytes) >= 3 /\ (Len(reply.bytes) - 3) % 4 = 0
    BY <1>0, <1>1, <1>4
  <2>7. UdsRead'
    <3>1. 3 + 4 * Len(found') = 0 + 3 /\ Len(reply.bytes) >= 3 + 4 * Len(found')
      BY <1>1, <2>5, <2>6
    <3>2. \A i \in 1..Len(found') : FALSE
      BY <2>5
    <3> QED
      BY <1>0, <1>4, <2>3, <2>6, <3>1, <3>2 DEF UdsRead
  <2>8. KwpRead' /\ AnswersPanicOnlyShort'
    BY <1>0, <1>4 DEF KwpRead, AnswersPanicOnlyShort
  <2> QED
    BY <2>4, <2>7, <2>8 DEF AInv
<1> QED
  BY <1>2, <1>3, <1>4

LEMMA UdsCodeKeeps ==
  ASSUME AInv, UdsCode
  PROVE  AInv'
<1>0. /\ AnswerTyped /\ decoding = "codes" /\ reply.topic = "codes" /\ reply.protocol = "UDS"
      /\ reply' = reply /\ count' = count /\ decoding' = decoding /\ left # <<>>
  BY DEF AInv, AnswerTyped, UdsCode
<1>1. PICK b : b = reply.bytes
  OBVIOUS
<1>2. /\ b \in Seq(Octets) /\ Len(b) \in Nat /\ left \in Seq(Octets) /\ Len(left) \in Nat
  BY <1>0, <1>1 DEF AnswerTyped
<1>3. PICK S : found \in Seq(S)
  BY <1>0 DEF AnswerTyped, IsSeq
<1>4. PICK n \in Nat : n = Len(found)
  BY <1>3
<1>5. /\ Len(b) >= 3 + 4 * n /\ Behind(left, b, 3 + 4 * n) /\ (Len(b) - 3) % 4 = 0
      /\ \A i \in 1..n : 4 * i + 3 <= Len(b) /\ found[i] = UdsDtc(b, i)
  BY <1>0, <1>1, <1>4 DEF AInv, UdsRead
<1>6. Len(left) = Len(b) - (3 + 4 * n) /\ Len(left) # 0
  <2>1. Len(left) # 0
    BY <1>0, <1>2, EmptySeq
  <2> QED
    BY <1>5, <2>1 DEF Behind
<1>7. 4 <= Len(left) /\ 3 + 4 * n \in Nat
  BY <1>2, <1>5, <1>6
<1>8. PICK code : /\ code = Dtc(left[1] * 65536 + left[2] * 256 + left[3], UdsState(left[4]), left[4])
                  /\ found' = Append(found, code)
  BY DEF UdsCode
<1>9. /\ left' \in Seq(Octets) /\ Len(left') <= Len(b)
      /\ Behind(left', b, (3 + 4 * n) + 4)
      /\ \A j \in 1..4 : left[j] = b[(3 + 4 * n) + j]
  BY <1>2, <1>5, <1>7, DrainedBehind, DrainedIs DEF UdsCode
<1>10. code = UdsDtc(b, n + 1)
  <2>1. /\ left[1] = b[(3 + 4 * n) + 1] /\ left[2] = b[(3 + 4 * n) + 2]
        /\ left[3] = b[(3 + 4 * n) + 3] /\ left[4] = b[(3 + 4 * n) + 4]
    BY <1>9
  <2>2. /\ (3 + 4 * n) + 1 = 4 * (n + 1) /\ (3 + 4 * n) + 2 = 4 * (n + 1) + 1
        /\ (3 + 4 * n) + 3 = 4 * (n + 1) + 2 /\ (3 + 4 * n) + 4 = 4 * (n + 1) + 3
    OBVIOUS
  <2> QED
    BY <1>8, <2>1, <2>2 DEF UdsDtc
<1>11. /\ IsSeq(found')
       /\ Len(found') = n + 1 /\ found'[n + 1] = code
       /\ \A i \in 1..n : found'[i] = found[i]
  BY <1>3, <1>4, <1>8, FoundMore
<1>12. AnswerTyped'
  BY <1>0, <1>1, <1>9, <1>11 DEF AnswerTyped
<1>13. /\ Len(b) >= 3 + 4 * (n + 1) /\ 4 * (n + 1) + 3 <= Len(b)
       /\ (3 + 4 * n) + 4 = 3 + 4 * (n + 1)
  BY <1>2, <1>6, <1>7
<1>14. \A i \in 1..(n + 1) : 4 * i + 3 <= Len(b) /\ found'[i] = UdsDtc(b, i)
  <2>1. \A i \in 1..(n + 1) : i \in 1..n \/ i = n + 1
    OBVIOUS
  <2> QED
    BY <1>5, <1>10, <1>11, <1>13, <2>1
<1>15. Behind(left', b, 3 + 4 * (n + 1))
  BY <1>9, <1>13
<1>16. UdsRead'
  BY <1>0, <1>1, <1>5, <1>11, <1>13, <1>14, <1>15 DEF UdsRead
<1>17. KwpRead' /\ AnswersPanicOnlyShort'
  BY <1>0 DEF KwpRead, AnswersPanicOnlyShort
<1> QED
  BY <1>12, <1>16, <1>17 DEF AInv

LEMMA OneFound ==
  ASSUME NEW x
  PROVE  Len(<<x>>) = 1 /\ IsSeq(<<x>>)
<1>1. <<x>> \in Seq({x}) /\ Len(<<x>>) = 1
  OBVIOUS
<1> QED
  BY <1>1, Zenon DEF IsSeq

LEMMA OthersKeep ==
  ASSUME AInv, KwpDone \/ UdsDone \/ KwpIdentify \/ UdsVariant
  PROVE  AInv'
<1>0. AnswerTyped /\ reply' = reply /\ AnswersPanicOnlyShort
  BY DEF AInv, KwpDone, UdsDone, KwpIdentify, UdsVariant, Reads
<1>1. CASE KwpDone
  <2>1. /\ decoding = "codes" /\ reply.protocol = "KWP2000" /\ count = 0 /\ decoding' = "done"
        /\ UNCHANGED <<left, count, found>>
    BY <1>1 DEF KwpDone, Ends
  <2> QED
    BY <1>0, <2>1 DEF AInv, AnswerTyped, KwpRead, UdsRead, AnswersPanicOnlyShort
<1>2. CASE UdsDone
  <2>1. /\ decoding = "codes" /\ reply.protocol = "UDS" /\ left = <<>> /\ decoding' = "done"
        /\ UNCHANGED <<left, count, found>>
    BY <1>2 DEF UdsDone, Ends
  <2> QED
    BY <1>0, <2>1 DEF AInv, AnswerTyped, KwpRead, UdsRead, AnswersPanicOnlyShort
<1>3. ASSUME NEW x, found' = <<x>>
      PROVE  Len(found') <= 1 /\ IsSeq(found')
  <2>1. IsSeq(found') /\ Len(found') = 1
    BY <1>3, OneFound, Zenon
  <2> QED
    BY <2>1
<1>4. ASSUME NEW how \in {"error", "panicked"}, decoding = "new", reply.topic # "codes", Ends(how),
             how = "panicked" => reply.topic = "variant" /\ reply.protocol = "UDS" /\ Len(reply.bytes) < 6
      PROVE  AInv'
  BY <1>0, <1>4 DEF AInv, AnswerTyped, KwpRead, UdsRead, AnswersPanicOnlyShort, Ends
<1>5. ASSUME decoding = "new", reply.topic # "codes", Len(found') <= 1 /\ IsSeq(found'),
             decoding' = "done", UNCHANGED <<left, count>>
      PROVE  AInv'
  BY <1>0, <1>5 DEF AInv, AnswerTyped, KwpRead, UdsRead, AnswersPanicOnlyShort
<1>6. CASE KwpIdentify
  <2>1. PICK topic \in {"variant", "dates"} :
          /\ Reads("KWP2000", topic)
          /\ IF ~Fits(topic) THEN Ends("error")
             ELSE IF \E i \in 1..IdentLength(topic) : i \notin DOMAIN left THEN Ends("panicked")
             ELSE /\ found' = <<left[IdentPlace(topic)] * 256 + left[IdentPlace(topic) + 1]>>
                  /\ decoding' = "done" /\ UNCHANGED <<left, count>>
    BY <1>6 DEF KwpIdentify
  <2>2. decoding = "new" /\ reply.topic # "codes"
    BY <2>1 DEF Reads
  <2>3. CASE ~Fits(topic)
    BY <1>4, <2>1, <2>2, <2>3
  <2>4. CASE Fits(topic)
    <3>1. DOMAIN left = 1..IdentLength(topic)
      BY <1>0, <2>4 DEF AnswerTyped, Fits
    <3>2. /\ found' = <<left[IdentPlace(topic)] * 256 + left[IdentPlace(topic) + 1]>>
          /\ decoding' = "done" /\ UNCHANGED <<left, count>>
      BY <2>1, <2>4, <3>1
    <3> QED
      BY <1>3, <1>5, <2>2, <3>2
  <2> QED
    BY <2>3, <2>4
<1>7. CASE UdsVariant
  <2>1. decoding = "new" /\ reply.topic = "variant" /\ reply.protocol = "UDS" /\ left = reply.bytes
    BY <1>0, <1>7 DEF UdsVariant, Reads, AnswerTyped
  <2>2. CASE Len(left) < 6
    <3>1. Ends("panicked")
      BY <1>7, <2>2 DEF UdsVariant
    <3> QED
      BY <1>4, <2>1, <2>2, <3>1
  <2>3. CASE ~(Len(left) < 6)
    <3>1. /\ found' = <<((left[3] * 256 + left[4]) * 256 + left[5]) * 256 + left[6]>>
          /\ decoding' = "done" /\ UNCHANGED <<left, count>>
      BY <1>7, <2>3 DEF UdsVariant
    <3> QED
      BY <1>3, <1>5, <2>1, <3>1
  <2> QED
    BY <2>2, <2>3
<1> QED
  BY <1>1, <1>2, <1>6, <1>7

LEMMA AnswersSteps ==
  ASSUME AInv, [AnswersNext]_answerVars
  PROVE  AInv'
<1>1. CASE UNCHANGED answerVars
  <2>1. UNCHANGED <<reply, left, count, found, decoding>>
    BY <1>1 DEF answerVars
  <2>2. AnswerTyped' /\ AnswersPanicOnlyShort'
    BY <2>1 DEF AInv, AnswerTyped, AnswersPanicOnlyShort, HeadLength
  <2>3. KwpRead' /\ UdsRead'
    BY <2>1 DEF AInv, KwpRead, UdsRead
  <2> QED
    BY <2>2, <2>3 DEF AInv
<1>2. CASE KwpCode
  <2>1. reply.protocol = "KWP2000"
    BY <1>2 DEF AInv, AnswerTyped, KwpCode
  <2> QED
    BY <1>2, <2>1, KwpCodeKeeps
<1> QED
  BY <1>1, <1>2, KwpHeaderKeeps, UdsHeaderKeeps, UdsCodeKeeps, OthersKeep DEF AnswersNext
-----------------------------------------------------------------------------
\* A piece of two or three of a sequence.
LEMMA PairAt ==
  ASSUME NEW b \in Seq(Octets), NEW p \in Nat \ {0}, p + 1 <= Len(b)
  PROVE  SubSeq(b, p, p + 1) = <<b[p], b[p + 1]>> /\ b[p] \in Octets /\ b[p + 1] \in Octets
<1>1. Len(b) \in Nat /\ p \in 1..Len(b) /\ p + 1 \in 1..Len(b)
  OBVIOUS
<1>2. b[p] \in Octets /\ b[p + 1] \in Octets
  BY <1>1
<1> DEFINE q == p + 1
<1>3. p \in Int /\ q \in Int /\ \A i \in p..q : b[i] \in Octets
  BY <1>1
<1>4. q - p + 1 = 2 /\ p <= q
  OBVIOUS
<1> HIDE DEF q
<1>5. /\ SubSeq(b, p, q) \in Seq(Octets)
      /\ Len(SubSeq(b, p, q)) = IF p <= q THEN q - p + 1 ELSE 0
      /\ \A i \in 1..(q - p + 1) : SubSeq(b, p, q)[i] = b[p + i - 1]
  BY <1>3, SubSeqProperties
<1>6. Len(SubSeq(b, p, q)) = 2 /\ \A i \in 1..2 : SubSeq(b, p, q)[i] = b[p + i - 1]
  BY <1>4, <1>5
<1>7. p + 1 - 1 = p /\ p + 2 - 1 = q
  BY DEF q
<1>8. SubSeq(b, p, q)[1] = b[p] /\ SubSeq(b, p, q)[2] = b[q]
  BY <1>6, <1>7
<1>9. /\ <<b[p], b[q]>> \in Seq(Octets) /\ Len(<<b[p], b[q]>>) = 2
      /\ <<b[p], b[q]>>[1] = b[p] /\ <<b[p], b[q]>>[2] = b[q]
  BY <1>2 DEF q
<1>10. \A i \in 1..2 : i = 1 \/ i = 2
  OBVIOUS
<1> DEFINE r == SubSeq(b, p, q)
           t == <<b[p], b[q]>>
<1>11. /\ r \in Seq(Octets) /\ t \in Seq(Octets) /\ Len(r) = 2 /\ Len(t) = 2
       /\ r[1] = t[1] /\ r[2] = t[2]
  BY <1>5, <1>6, <1>8, <1>9
<1> HIDE DEF r, t
<1>12. \A i \in 1..Len(r) : r[i] = t[i]
  BY <1>10, <1>11
<1>13. r = t
  BY <1>11, <1>12, SeqEqual
<1> QED
  BY <1>2, <1>13 DEF q, r, t

LEMMA TripleAt ==
  ASSUME NEW b \in Seq(Octets), NEW p \in Nat \ {0}, p + 2 <= Len(b)
  PROVE  /\ SubSeq(b, p, p + 2) = <<b[p], b[p + 1], b[p + 2]>>
         /\ b[p] \in Octets /\ b[p + 1] \in Octets /\ b[p + 2] \in Octets
<1>1. Len(b) \in Nat /\ p \in 1..Len(b) /\ p + 1 \in 1..Len(b) /\ p + 2 \in 1..Len(b)
  OBVIOUS
<1>2. b[p] \in Octets /\ b[p + 1] \in Octets /\ b[p + 2] \in Octets
  BY <1>1
<1> DEFINE q == p + 2
           t == <<b[p], b[p + 1], b[q]>>
<1>3. p \in Int /\ q \in Int /\ \A i \in p..q : b[i] \in Octets
  BY <1>1
<1>4. q - p + 1 = 3 /\ p <= q
  OBVIOUS
<1>5. /\ t \in Seq(Octets) /\ Len(t) = 3
      /\ t[1] = b[p] /\ t[2] = b[p + 1] /\ t[3] = b[q]
  BY <1>2
<1> HIDE DEF q, t
<1>6. /\ SubSeq(b, p, q) \in Seq(Octets)
      /\ Len(SubSeq(b, p, q)) = IF p <= q THEN q - p + 1 ELSE 0
      /\ \A i \in 1..(q - p + 1) : SubSeq(b, p, q)[i] = b[p + i - 1]
  BY <1>3, SubSeqProperties
<1>7. Len(SubSeq(b, p, q)) = 3 /\ \A i \in 1..3 : SubSeq(b, p, q)[i] = b[p + i - 1]
  BY <1>4, <1>6
<1>8. p + 1 - 1 = p /\ p + 2 - 1 = p + 1 /\ p + 3 - 1 = q
  BY DEF q
<1>9. /\ SubSeq(b, p, q)[1] = b[p] /\ SubSeq(b, p, q)[2] = b[p + 1]
      /\ SubSeq(b, p, q)[3] = b[q]
  BY <1>7, <1>8
<1>10. \A i \in 1..3 : i = 1 \/ i = 2 \/ i = 3
  OBVIOUS
<1> DEFINE r == SubSeq(b, p, q)
<1>11. /\ r \in Seq(Octets) /\ Len(r) = 3 /\ r[1] = t[1] /\ r[2] = t[2] /\ r[3] = t[3]
  BY <1>5, <1>6, <1>7, <1>9
<1> HIDE DEF r
<1>12. \A i \in 1..Len(r) : r[i] = t[i]
  BY <1>10, <1>11
<1>13. r = t
  BY <1>5, <1>11, <1>12, SeqEqual
<1> QED
  BY <1>2, <1>13 DEF q, r, t

\* A number's bytes are those it was put together from.
LEMMA BytesOfPair ==
  \A x, y \in Octets : ((x * 256 + y) \div 256) % 256 = x /\ (x * 256 + y) % 256 = y
BY DEF Octets

LEMMA BytesOfTriple ==
  \A x, y, z \in Octets :
    /\ (x * 65536 + y * 256 + z) \div 65536 = x
    /\ ((x * 65536 + y * 256 + z) \div 256) % 256 = y
    /\ (x * 65536 + y * 256 + z) % 256 = z
BY DEF Octets

LEMMA Powers == 2^0 = 1 /\ 2^2 = 4 /\ 2^3 = 8 /\ 2^5 = 32 /\ 2^6 = 64 /\ 2^7 = 128
OBVIOUS

\* The engine light is the highest bit.
LEMMA MilIs == \A x \in Octets : Mil(x) = (x >= 128)
BY Powers DEF Octets, Mil, StateBit

LEMMA KwpStateIs ==
  ASSUME NEW x \in Octets
  PROVE  /\ (KwpState(x) = "None") = (~StateBit(x, 5) /\ ~StateBit(x, 6))
         /\ (KwpState(x) = "Permanent") = (StateBit(x, 5) /\ StateBit(x, 6))
<1>1. PICK k \in 0..3 : k = (x \div 32) % 4
  BY DEF Octets
<1>2. (x \div 32) % 2 = k % 2 /\ (x \div 64) % 2 = k \div 2
  BY <1>1 DEF Octets
<1>3. (StateBit(x, 5) <=> k % 2 = 1) /\ (StateBit(x, 6) <=> k \div 2 = 1)
  BY <1>2, Powers DEF StateBit
<1>4. KwpState(x) = <<"None", "Stored", "Pending", "Permanent">>[k + 1]
  BY <1>1 DEF KwpState
<1>5. CASE k = 0
  <2>1. KwpState(x) = "None"
    BY <1>4, <1>5
  <2>2. ~(k % 2 = 1) /\ ~(k \div 2 = 1)
    BY <1>5
  <2> QED
    BY <1>3, <2>1, <2>2
<1>6. CASE k = 1
  <2>1. KwpState(x) = "Stored"
    BY <1>4, <1>6
  <2>2. (k % 2 = 1) /\ ~(k \div 2 = 1)
    BY <1>6
  <2> QED
    BY <1>3, <2>1, <2>2
<1>7. CASE k = 2
  <2>1. KwpState(x) = "Pending"
    BY <1>4, <1>7
  <2>2. ~(k % 2 = 1) /\ (k \div 2 = 1)
    BY <1>7
  <2> QED
    BY <1>3, <2>1, <2>2
<1>8. CASE k = 3
  <2>1. KwpState(x) = "Permanent"
    BY <1>4, <1>8
  <2>2. (k % 2 = 1) /\ (k \div 2 = 1)
    BY <1>8
  <2> QED
    BY <1>3, <2>1, <2>2
<1> QED
  BY <1>5, <1>6, <1>7, <1>8

LEMMA UdsStateIs ==
  ASSUME NEW x
  PROVE  /\ (UdsState(x) = "None") = (~StateBit(x, 0) /\ ~StateBit(x, 2) /\ ~StateBit(x, 3))
         /\ UdsState(x) = "Stored" => ~StateBit(x, 2) /\ ~StateBit(x, 3)
BY DEF UdsState, StateBit

\* What is read of the answer's entries is what CodeAt and StatusAt say.
LEMMA KwpTells ==
  ASSUME AInv, reply.protocol = "KWP2000", reply.topic = "codes"
  PROVE  CodesAsAnswered /\ StatesAsAnswered
<1>1. PICK b \in Seq(Octets) : b = reply.bytes
  BY DEF AInv, AnswerTyped
<1>2. PICK S : found \in Seq(S)
  BY DEF AInv, AnswerTyped, IsSeq
<1>3. PICK n \in Nat : n = Len(found)
  BY <1>2
<1>4. DOMAIN found = 1..n
  BY <1>2, <1>3
<1>5. /\ \A i \in 1..n : 3 * i + 2 <= Len(b) /\ found[i] = KwpDtc(b, i)
      /\ decoding = "done" => count = 0 /\ count + n = b[2]
  BY <1>1, <1>3 DEF AInv, KwpRead
<1>6. ASSUME NEW i \in 1..n
      PROVE  /\ EnvRequest(reply.protocol, found[i].id) = CodeAt(i)
             /\ StatusAt(i) \in Octets /\ found[i].state = KwpState(StatusAt(i))
             /\ found[i].mil = Mil(StatusAt(i))
  <2>1. PICK p \in Nat \ {0} : p = 3 * i
    OBVIOUS
  <2>2. /\ p + 1 <= Len(b) /\ p + 2 \in 1..Len(b) /\ Len(b) \in Nat
        /\ found[i] = Dtc(b[p] * 256 + b[p + 1], KwpState(b[p + 2]), b[p + 2])
    <3>1. Len(b) \in Nat /\ 3 * i + 2 <= Len(b) /\ found[i] = KwpDtc(b, i)
      BY <1>5
    <3>2. found[i] = Dtc(b[p] * 256 + b[p + 1], KwpState(b[p + 2]), b[p + 2])
      BY <2>1, <3>1 DEF KwpDtc
    <3> QED
      BY <2>1, <3>1, <3>2
  <2>3. PICK x, y, z \in Octets : x = b[p] /\ y = b[p + 1] /\ z = b[p + 2]
    BY <2>2, PairAt
  <2>4. SubSeq(b, p, p + 1) = <<x, y>>
    BY <2>2, <2>3, PairAt
  <2>5. HeadLength = 2 /\ EntryWidth = 3
    BY DEF HeadLength, EntryWidth
  <2>6. 2 + 3 * (i - 1) + 1 = p /\ 2 + 3 * i - 1 = p + 1 /\ 2 + 3 * i = p + 2
    BY <2>1
  <2>7. CodeAt(i) = <<x, y>> /\ StatusAt(i) = z
    BY <1>1, <2>3, <2>4, <2>5, <2>6 DEF CodeAt, StatusAt
  <2>8. found[i].id = x * 256 + y /\ found[i].state = KwpState(z) /\ found[i].mil = Mil(z)
    BY <2>2, <2>3 DEF Dtc
  <2>9. EnvRequest("KWP2000", x * 256 + y) = <<x, y>>
    BY BytesOfPair DEF EnvRequest
  <2> QED
    BY <2>3, <2>7, <2>8, <2>9
<1>7. CodesAsAnswered
  <2>1. NumEntries = b[2] /\ (decoding = "done" => n = b[2])
    BY <1>1, <1>5 DEF NumEntries
  <2> QED
    BY <1>3, <1>4, <1>6, <2>1 DEF CodesAsAnswered
<1>8. StatesAsAnswered
  <2>1. ASSUME NEW i \in DOMAIN found
        PROVE  /\ found[i].mil = (StatusAt(i) >= 128)
               /\ (found[i].state = "None") = (~StateBit(StatusAt(i), 5) /\ ~StateBit(StatusAt(i), 6))
               /\ (found[i].state = "Permanent") = (StateBit(StatusAt(i), 5) /\ StateBit(StatusAt(i), 6))
    <3>1. PICK z \in Octets : z = StatusAt(i)
      BY <1>4, <1>6
    <3>2. found[i].state = KwpState(z) /\ found[i].mil = Mil(z)
      BY <1>4, <1>6, <3>1
    <3> QED
      BY <3>1, <3>2, MilIs, KwpStateIs
  <2>2. reply.protocol # "UDS"
    OBVIOUS
  <2> QED
    BY <2>1, <2>2, Zenon DEF StatesAsAnswered
<1> QED
  BY <1>7, <1>8

LEMMA UdsTells ==
  ASSUME AInv, reply.protocol = "UDS", reply.topic = "codes"
  PROVE  CodesAsAnswered /\ StatesAsAnswered
<1>1. PICK b \in Seq(Octets) : b = reply.bytes
  BY DEF AInv, AnswerTyped
<1>2. PICK S : found \in Seq(S)
  BY DEF AInv, AnswerTyped, IsSeq
<1>3. PICK n \in Nat : n = Len(found)
  BY <1>2
<1>4. DOMAIN found = 1..n
  BY <1>2, <1>3
<1>5. /\ \A i \in 1..n : 4 * i + 3 <= Len(b) /\ found[i] = UdsDtc(b, i)
      /\ decoding = "done" => left = <<>> /\ Behind(left, b, 3 + 4 * n)
  BY <1>1, <1>3 DEF AInv, UdsRead
<1>6. ASSUME NEW i \in 1..n
      PROVE  /\ EnvRequest(reply.protocol, found[i].id) = CodeAt(i)
             /\ StatusAt(i) \in Octets /\ found[i].state = UdsState(StatusAt(i))
             /\ found[i].mil = Mil(StatusAt(i))
  <2>1. PICK p \in Nat \ {0} : p = 4 * i
    OBVIOUS
  <2>2. /\ p + 2 <= Len(b) /\ p + 3 \in 1..Len(b) /\ Len(b) \in Nat
        /\ found[i] = Dtc(b[p] * 65536 + b[p + 1] * 256 + b[p + 2], UdsState(b[p + 3]), b[p + 3])
    <3>1. Len(b) \in Nat /\ 4 * i + 3 <= Len(b) /\ found[i] = UdsDtc(b, i)
      BY <1>5
    <3>2. found[i] = Dtc(b[p] * 65536 + b[p + 1] * 256 + b[p + 2], UdsState(b[p + 3]), b[p + 3])
      BY <2>1, <3>1 DEF UdsDtc
    <3> QED
      BY <2>1, <3>1, <3>2
  <2>3. PICK x, y, z, w \in Octets : x = b[p] /\ y = b[p + 1] /\ z = b[p + 2] /\ w = b[p + 3]
    BY <2>2, TripleAt
  <2>4. SubSeq(b, p, p + 2) = <<x, y, z>>
    BY <2>2, <2>3, TripleAt
  <2>5. HeadLength = 3 /\ EntryWidth = 4
    BY DEF HeadLength, EntryWidth
  <2>6. 3 + 4 * (i - 1) + 1 = p /\ 3 + 4 * i - 1 = p + 2 /\ 3 + 4 * i = p + 3
    BY <2>1
  <2>7. CodeAt(i) = <<x, y, z>> /\ StatusAt(i) = w
    BY <1>1, <2>3, <2>4, <2>5, <2>6 DEF CodeAt, StatusAt
  <2>8. /\ found[i].id = x * 65536 + y * 256 + z /\ found[i].state = UdsState(w)
        /\ found[i].mil = Mil(w)
    BY <2>2, <2>3 DEF Dtc
  <2>9. EnvRequest("UDS", x * 65536 + y * 256 + z) = <<x, y, z>>
    BY BytesOfTriple DEF EnvRequest
  <2> QED
    BY <2>3, <2>7, <2>8, <2>9
<1>7. CodesAsAnswered
  <2>1. NumEntries = (Len(b) - 3) \div 4
    BY <1>1 DEF NumEntries
  <2>2. decoding = "done" => Len(b) = 3 + 4 * n
    <3>1. Len(<<>>) = 0 /\ Len(b) \in Nat
      OBVIOUS
    <3> QED
      BY <1>5, <3>1 DEF Behind
  <2>3. Len(b) = 3 + 4 * n => (Len(b) - 3) \div 4 = n
    OBVIOUS
  <2> QED
    BY <1>3, <1>4, <1>6, <2>1, <2>2, <2>3 DEF CodesAsAnswered
<1>8. StatesAsAnswered
  <2>1. ASSUME NEW i \in DOMAIN found
        PROVE  /\ found[i].mil = (StatusAt(i) >= 128)
               /\ (found[i].state = "None")
                    = (~StateBit(StatusAt(i), 0) /\ ~StateBit(StatusAt(i), 2) /\ ~StateBit(StatusAt(i), 3))
               /\ found[i].state = "Stored" => ~StateBit(StatusAt(i), 2) /\ ~StateBit(StatusAt(i), 3)
    <3>1. PICK z \in Octets : z = StatusAt(i)
      BY <1>4, <1>6
    <3>2. found[i].state = UdsState(z) /\ found[i].mil = Mil(z)
      BY <1>4, <1>6, <3>1
    <3> QED
      BY <3>1, <3>2, MilIs, UdsStateIs
  <2> QED
    BY <2>1, Zenon DEF StatesAsAnswered
<1> QED
  BY <1>7, <1>8

\* A number of an answer's bytes has those bytes.
LEMMA PairBelow == \A x, y \in Octets : x * 256 + y < 65536
BY DEF Octets

LEMMA UpperHalf ==
  \A n, upper, lower \in Nat : lower <= 65535 /\ n = upper * 65536 + lower => n \div 65536 = upper
OBVIOUS

LEMMA BytesOfFour ==
  ASSUME NEW w \in Octets, NEW x \in Octets, NEW y \in Octets, NEW z \in Octets,
         NEW id, id = ((w * 256 + x) * 256 + y) * 256 + z
  PROVE  /\ (id \div 65536) \div 256 = w /\ (id \div 65536) % 256 = x
         /\ (id \div 256) % 256 = y /\ id % 256 = z
<1>1. PICK upper \in Nat : upper = w * 256 + x
  BY DEF Octets
<1>2. PICK middle \in Nat : middle = upper * 256 + y
  BY DEF Octets
<1>3. id \in Nat /\ id = middle * 256 + z
  BY <1>1, <1>2 DEF Octets
<1>4. PICK lower \in Nat : lower = y * 256 + z /\ lower <= 65535
  BY DEF Octets
<1>5. id = upper * 65536 + lower
  BY <1>2, <1>3, <1>4 DEF Octets
<1>6. upper \div 256 = w /\ upper % 256 = x
  BY <1>1 DEF Octets
<1>7. middle % 256 = y
  BY <1>2 DEF Octets
<1>8. id \div 256 = middle /\ id % 256 = z
  BY <1>3 DEF Octets
<1>9. id \div 65536 = upper
  BY <1>3, <1>4, <1>5, UpperHalf
<1>10. (id \div 65536) \div 256 = w /\ (id \div 65536) % 256 = x
  BY <1>6, <1>9
<1>11. (id \div 256) % 256 = y
  BY <1>7, <1>8
<1> QED
  BY <1>8, <1>10, <1>11

(* What is identified is taken from the whole answer: nothing was drained. *)
LEMMA IdentifiedKept ==
  ASSUME AInv, IdentifiedAsAnswered, [AnswersNext]_answerVars
  PROVE  IdentifiedAsAnswered'
<1>0. /\ reply' = reply /\ AnswerTyped
  BY DEF AInv, AnswersNext, answerVars, KwpHeader, KwpCode, KwpDone, UdsHeader, UdsCode, UdsDone,
         KwpIdentify, UdsVariant, Reads
<1>1. CASE reply.topic = "codes"
  BY <1>0, <1>1 DEF IdentifiedAsAnswered
<1>2. CASE reply.topic # "codes" /\ UNCHANGED answerVars
  <2>1. UNCHANGED <<reply, found, decoding>>
    BY <1>2 DEF answerVars
  <2> QED
    BY <2>1 DEF IdentifiedAsAnswered
<1>3. CASE reply.topic # "codes" /\ ~UNCHANGED answerVars
  <2>1. KwpIdentify \/ UdsVariant
    BY <1>0, <1>3 DEF AnswersNext, KwpHeader, KwpCode, KwpDone, UdsHeader, UdsCode, UdsDone,
                     AnswerTyped, Reads
  <2>2. PICK b \in Seq(Octets) : b = reply.bytes /\ b = left
    BY <1>0, <2>1 DEF AnswerTyped, KwpIdentify, UdsVariant, Reads
  <2>3. ASSUME NEW x, found' = <<x>>
        PROVE  Len(found') = 1 /\ found'[1] = x
    BY <2>3
  <2>4. CASE KwpIdentify
    <3>1. PICK topic \in {"variant", "dates"} :
            /\ Reads("KWP2000", topic)
            /\ IF ~Fits(topic) THEN Ends("error")
               ELSE IF \E i \in 1..IdentLength(topic) : i \notin DOMAIN left THEN Ends("panicked")
               ELSE /\ found' = <<left[IdentPlace(topic)] * 256 + left[IdentPlace(topic) + 1]>>
                    /\ decoding' = "done" /\ UNCHANGED <<left, count>>
      BY <2>4 DEF KwpIdentify
    <3>2. reply.topic = topic /\ reply.protocol = "KWP2000"
      BY <3>1 DEF Reads
    <3>3. CASE decoding' # "done"
      BY <3>3 DEF IdentifiedAsAnswered
    <3>4. CASE decoding' = "done"
      <4>1. PICK p \in {5, 13} : p = IdentPlace(topic) /\ p + 1 <= IdentLength(topic)
        BY DEF IdentPlace, IdentLength
      <4>2. /\ Fits(topic) /\ found' = <<b[p] * 256 + b[p + 1]>>
        BY <2>2, <3>1, <3>4, <4>1 DEF Ends
      <4>3. Len(b) = IdentLength(topic) /\ p \in Nat \ {0} /\ p + 1 <= Len(b)
        BY <2>2, <4>1, <4>2 DEF Fits
      <4>4. PICK x, y \in Octets : x = b[p] /\ y = b[p + 1] /\ SubSeq(b, p, p + 1) = <<x, y>>
        BY <4>3, PairAt
      <4> DEFINE id == x * 256 + y
      <4>5. EnvRequest("KWP2000", id) = <<x, y>> /\ id < 65536
        BY BytesOfPair, PairBelow DEF EnvRequest
      <4>6. found' = <<id>>
        BY <4>2, <4>4
      <4> HIDE DEF id
      <4>7. Len(found') = 1 /\ found'[1] = id
        BY <2>3, <4>6
      <4>8. reply'.topic = topic /\ reply'.protocol = "KWP2000" /\ reply'.bytes = b
        BY <1>0, <2>2, <3>2
      <4>9. EnvRequest("KWP2000", found'[1]) = SubSeq(b, p, p + 1)
        BY <4>4, <4>7, <4>5
      <4>10. found'[1] < 65536
        BY <4>7, <4>5
      <4>11. Len(b) = IdentLength(topic) /\ p = IdentPlace(topic)
        BY <4>1, <4>3
      <4> QED
        BY <4>7, <4>8, <4>9, <4>10, <4>11 DEF IdentifiedAsAnswered
    <3> QED
      BY <3>3, <3>4
  <2>5. CASE UdsVariant
    <3>1. reply.topic = "variant" /\ reply.protocol = "UDS"
      BY <2>5 DEF UdsVariant, Reads
    <3>2. CASE decoding' # "done"
      BY <3>2 DEF IdentifiedAsAnswered
    <3>3. CASE decoding' = "done"
      <4>1. ~(Len(b) < 6) /\ found' = <<((b[3] * 256 + b[4]) * 256 + b[5]) * 256 + b[6]>>
        BY <2>2, <2>5, <3>3 DEF UdsVariant, Ends
      <4>2. Len(b) >= 6 /\ 4 + 2 <= Len(b) /\ 3 \in 1..Len(b) /\ 4 \in Nat \ {0}
        BY <4>1
      <4>3. PICK w, x, y, z \in Octets :
              /\ w = b[3] /\ x = b[4] /\ y = b[5] /\ z = b[6]
              /\ SubSeq(b, 4, 6) = <<x, y, z>>
        <5>1. 4 + 1 = 5 /\ 4 + 2 = 6
          OBVIOUS
        <5>2. b[3] \in Octets
          BY <4>2
        <5> QED
          BY <4>2, <5>1, <5>2, TripleAt
      <4>4. PICK id : id = ((w * 256 + x) * 256 + y) * 256 + z
        OBVIOUS
      <4>5. Len(found') = 1 /\ found'[1] = id
        BY <2>3, <4>1, <4>3, <4>4
      <4>6. /\ (id \div 65536) \div 256 = w /\ (id \div 65536) % 256 = x
            /\ (id \div 256) % 256 = y /\ id % 256 = z
        BY <4>4, BytesOfFour
      <4>8. reply'.topic = "variant" /\ reply'.protocol = "UDS" /\ reply'.bytes = b
        BY <1>0, <2>2, <3>1
      <4> QED
        BY <4>2, <4>3, <4>5, <4>6, <4>8 DEF IdentifiedAsAnswered
    <3> QED
      BY <3>2, <3>3
  <2> QED
    BY <2>1, <2>4, <2>5
<1> QED
  BY <1>1, <1>2, <1>3

LEMMA AnswersTell ==
  ASSUME AInv, IdentifiedAsAnswered
  PROVE  CodesAreTheEcus
<1>1. AnswersTypeOK
  BY DEF AInv, AnswerTyped, AnswersTypeOK
<1>2. AnswersPanicOnlyShort /\ reply.protocol \in {"KWP2000", "UDS"}
  BY DEF AInv, AnswerTyped
<1>3. CodesAsAnswered /\ StatesAsAnswered
  <2>1. CASE reply.topic # "codes"
    BY <2>1 DEF CodesAsAnswered, StatesAsAnswered
  <2>2. CASE reply.topic = "codes"
    BY <1>2, <2>2, KwpTells, UdsTells
  <2> QED
    BY <2>1, <2>2
<1> QED
  BY <1>1, <1>2, <1>3 DEF CodesAreTheEcus

(* What a session's page lists of trouble codes is what the ECU answered:  *)
(* every code is one of the answer's, in its place, asked about by its own *)
(* bytes afterwards, with the state and the engine light its status gives; *)
(* the variant and the KWP2000 identification are the answer's bytes at    *)
(* their place, but for the highest byte of a UDS variant; and only an     *)
(* answer too short for its head, its count or the UDS variant is a panic. *)
(* For every set of answers, of any length and cut anywhere.               *)
THEOREM AnswersRead == AnswersSpec => []CodesAreTheEcus
<1>1. AnswersInit => AInv /\ IdentifiedAsAnswered
  BY AnswersStart DEF AnswersInit, IdentifiedAsAnswered
<1>2. AInv /\ IdentifiedAsAnswered /\ [AnswersNext]_answerVars => (AInv /\ IdentifiedAsAnswered)'
  BY AnswersSteps, IdentifiedKept
<1>3. AInv /\ IdentifiedAsAnswered => CodesAreTheEcus
  BY AnswersTell
<1> QED
  BY <1>1, <1>2, <1>3, PTL DEF AnswersSpec
-----------------------------------------------------------------------------
(* How CBF files are read (CaesarReader), for every layout, every set of   *)
(* flags and every file.                                                   *)
(*                                                                         *)
(* The bits left are those of the fields to come, over both words; a       *)
(* record that is in its file is read from where its next field lies.      *)

ReaderTyped ==
  /\ record \in Records
  /\ pos \in Nat /\ (pos <= Size \/ pos = record.start)
  /\ reading \in {"fields", "done", "error", "panicked"}
  /\ IsSeq(values) /\ Len(values) <= Len(Fields(record.layout))
  /\ bitflags \in Seq(BOOLEAN)

Words == Len(record.layout.main)
FlagsAhead ==
  /\ Len(bitflags) = IF Len(values) < Words THEN Words - Len(values)
                     ELSE IF Len(values) < Words + record.layout.bits
                          THEN Words + record.layout.bits - Len(values) ELSE 0
  /\ \A k \in 1..Len(bitflags) : bitflags[k] = (Len(values) + k \in record.given)

\* A dump's size is a number.
SizesRead ==
  \A i \in 1..Len(values) : Fields(record.layout)[i] = "i32" => values[i].value \in Int

NextInPlace == Contained => pos = PlaceOf(Len(values) + 1)

RInv == /\ ReaderTyped
        /\ FlagsAhead
        /\ SizesRead
        /\ NextInPlace
        /\ FieldsInPlace
        /\ ContainedIsRead
-----------------------------------------------------------------------------
\* What the assumption on the layouts says of the record being read.
LEMMA LayoutIs ==
  ASSUME record \in Records
  PROVE  /\ Fields(record.layout) \in Seq(Kinds) /\ Len(Fields(record.layout)) \in Nat
         /\ Words \in Nat \ {0} /\ Words <= Len(Fields(record.layout))
         /\ record.layout.bits \in Nat /\ record.start \in Nat /\ record.base \in Nat
         /\ record.file \in Seq(Octets) /\ Size \in Nat
         /\ \A i \in 1..Len(Fields(record.layout)) :
              Fields(record.layout)[i] = "dump" => i > 1 /\ Fields(record.layout)[i - 1] = "i32"
<1>1. PICK r \in Records : r = record
  OBVIOUS
<1>2. /\ r.layout.main \in Seq(Kinds) /\ r.layout.ext \in Seq(Kinds)
      /\ r.layout.main # <<>> /\ r.layout.bits \in Nat
      /\ r.file \in Seq(Octets) /\ r.start \in Nat /\ r.base \in Nat
  BY RecordsAssumption DEF Octets
<1>3. \A i \in DOMAIN Fields(r.layout) :
        Fields(r.layout)[i] = "dump" => i > 1 /\ Fields(r.layout)[i - 1] = "i32"
  BY RecordsAssumption
<1>4. PICK a \in Seq(Kinds), b \in Seq(Kinds) : a = r.layout.main /\ b = r.layout.ext
  BY <1>2
<1>5. Fields(r.layout) = a \o b
  BY <1>4 DEF Fields
<1>6. a \o b \in Seq(Kinds) /\ Len(a \o b) = Len(a) + Len(b)
  BY ConcatProperties
<1>7. Len(a) \in Nat /\ Len(b) \in Nat /\ Len(a) # 0
  BY <1>2, <1>4, EmptySeq
<1>8. DOMAIN (a \o b) = 1..Len(a \o b)
  BY <1>6
<1>9. Words = Len(a)
  BY <1>1, <1>4 DEF Words
<1>10. Size \in Nat
  BY <1>1, <1>2 DEF Size
<1>11. Fields(record.layout) \in Seq(Kinds) /\ Len(Fields(record.layout)) \in Nat
  BY <1>1, <1>5, <1>6, <1>7
<1>12. Words \in Nat \ {0} /\ Words <= Len(Fields(record.layout))
  BY <1>1, <1>5, <1>6, <1>7, <1>9
<1>13. \A i \in 1..Len(Fields(record.layout)) :
         Fields(record.layout)[i] = "dump" => i > 1 /\ Fields(record.layout)[i - 1] = "i32"
  BY <1>1, <1>3, <1>5, <1>8
<1> QED
  BY <1>1, <1>2, <1>10, <1>11, <1>12, <1>13

LEMMA IsSetIs ==
  ASSUME ReaderTyped, FlagsAhead, InFields
  PROVE  IsSet <=> Given(Len(values) + 1)
<1>1. PICK n \in Nat : n = Len(values)
  BY DEF ReaderTyped, IsSeq
<1>2. PICK m \in Nat, b \in Nat : m = Words /\ b = record.layout.bits
  BY LayoutIs DEF ReaderTyped
<1>3. bitflags \in Seq(BOOLEAN) /\ Len(bitflags) \in Nat
  BY DEF ReaderTyped
<1>4. Given(n + 1) <=> n + 1 \in record.given /\ n + 1 <= m + b
  BY <1>2 DEF Given, Words
<1>5. Len(bitflags) = IF n < m THEN m - n ELSE IF n < m + b THEN m + b - n ELSE 0
  BY <1>1, <1>2 DEF FlagsAhead
<1>6. Len(bitflags) # 0 <=> n + 1 <= m + b
  <2>1. CASE n < m
    <3>1. Len(bitflags) = m - n
      BY <1>5, <2>1
    <3> QED
      BY <2>1, <3>1
  <2>2. CASE ~(n < m) /\ n < m + b
    <3>1. Len(bitflags) = m + b - n
      BY <1>5, <2>2
    <3> QED
      BY <2>2, <3>1
  <2>3. CASE ~(n < m) /\ ~(n < m + b)
    <3>1. Len(bitflags) = 0
      BY <1>5, <2>3
    <3> QED
      BY <2>3, <3>1
  <2> QED
    BY <2>1, <2>2, <2>3
<1>7. CASE Len(bitflags) = 0
  <2>1. bitflags = <<>>
    BY <1>3, <1>7, EmptySeq
  <2> QED
    BY <1>1, <1>4, <1>6, <1>7, <2>1 DEF IsSet
<1>8. CASE Len(bitflags) # 0
  <2>1. bitflags # <<>> /\ Head(bitflags) = bitflags[1] /\ 1 \in 1..Len(bitflags)
    BY <1>3, <1>8
  <2>2. bitflags[1] = (n + 1 \in record.given)
    BY <1>1, <2>1 DEF FlagsAhead
  <2> QED
    BY <1>1, <1>4, <1>6, <1>8, <2>1, <2>2 DEF IsSet
<1> QED
  BY <1>7, <1>8

LEMMA AdvanceKeeps ==
  ASSUME ReaderTyped, FlagsAhead, Advance, record' = record, Len(values') = Len(values) + 1
  PROVE  bitflags' \in Seq(BOOLEAN) /\ FlagsAhead'
<1>1. PICK n \in Nat : n = Len(values)
  BY DEF ReaderTyped, IsSeq
<1>2. PICK m \in Nat \ {0}, b \in Nat : m = Words /\ b = record.layout.bits
  BY LayoutIs DEF ReaderTyped
<1>3. PICK given : given = record.given
  OBVIOUS
<1>4. bitflags \in Seq(BOOLEAN) /\ Len(bitflags) \in Nat
  BY DEF ReaderTyped
<1>5. /\ Len(bitflags) = IF n < m THEN m - n ELSE IF n < m + b THEN m + b - n ELSE 0
      /\ \A k \in 1..Len(bitflags) : bitflags[k] = (n + k \in given)
  BY <1>1, <1>2, <1>3 DEF FlagsAhead
<1>6. ASSUME /\ bitflags' \in Seq(BOOLEAN)
             /\ Len(bitflags') = IF n + 1 < m THEN m - (n + 1)
                                 ELSE IF n + 1 < m + b THEN m + b - (n + 1) ELSE 0
             /\ \A k \in 1..Len(bitflags') : bitflags'[k] = ((n + 1) + k \in given)
      PROVE  bitflags' \in Seq(BOOLEAN) /\ FlagsAhead'
  <2>1. Words' = m /\ record'.layout.bits = b /\ record'.given = given /\ Len(values') = n + 1
    BY <1>1, <1>2, <1>3 DEF Words
  <2>2. Len(bitflags') = IF Len(values') < Words' THEN Words' - Len(values')
                         ELSE IF Len(values') < Words' + record'.layout.bits
                              THEN Words' + record'.layout.bits - Len(values') ELSE 0
    BY <1>6, <2>1
  <2>3. \A k \in 1..Len(bitflags') : bitflags'[k] = (Len(values') + k \in record'.given)
    BY <1>6, <2>1, Zenon
  <2> QED
    BY <1>6, <2>2, <2>3, Zenon DEF FlagsAhead
<1>7. CASE n + 1 = m
  <2>1. bitflags' = [k \in 1..b |-> m + k \in given]
    BY <1>1, <1>2, <1>3, <1>7 DEF Advance, Bits, Words
  <2>2. [k \in 1..b |-> m + k \in given] \in [1..b -> BOOLEAN]
    OBVIOUS
  <2>3. /\ [k \in 1..b |-> m + k \in given] \in Seq(BOOLEAN)
        /\ Len([k \in 1..b |-> m + k \in given]) = b
    BY <2>2
  <2>4. IF n + 1 < m THEN m - (n + 1) = b
        ELSE IF n + 1 < m + b THEN m + b - (n + 1) = b ELSE 0 = b
    BY <1>7
  <2>5. \A k \in 1..b : bitflags'[k] = ((n + 1) + k \in given)
    BY <1>7, <2>1
  <2> QED
    BY <1>6, <2>1, <2>3, <2>4, <2>5
<1>8. CASE n + 1 # m /\ Len(bitflags) = 0
  <2>1. bitflags = <<>>
    BY <1>4, <1>8, EmptySeq
  <2>2. bitflags' = <<>>
    BY <1>1, <1>2, <1>8, <2>1 DEF Advance, Words
  <2>3. bitflags' \in Seq(BOOLEAN) /\ Len(bitflags') = 0
    BY <2>2
  <2>4. ~(n + 1 < m) /\ ~(n + 1 < m + b)
    BY <1>5, <1>8
  <2> QED
    BY <1>6, <2>3, <2>4
<1>9. CASE n + 1 # m /\ Len(bitflags) # 0
  <2>1. bitflags # <<>>
    BY <1>4, <1>9
  <2>2. bitflags' = Tail(bitflags)
    BY <1>1, <1>2, <1>9, <2>1 DEF Advance, Words
  <2>3. /\ Tail(bitflags) \in Seq(BOOLEAN) /\ Len(Tail(bitflags)) = Len(bitflags) - 1
        /\ \A k \in 1..Len(Tail(bitflags)) : Tail(bitflags)[k] = bitflags[k + 1]
    BY <1>4, <2>1, HeadTailProperties
  <2>4. ASSUME NEW k \in 1..Len(bitflags')
        PROVE  bitflags'[k] = ((n + 1) + k \in given)
    <3>1. k + 1 \in 1..Len(bitflags) /\ n + (k + 1) = (n + 1) + k
      BY <1>4, <2>2, <2>3
    <3>2. bitflags'[k] = bitflags[k + 1]
      BY <2>2, <2>3
    <3>3. bitflags[k + 1] = (n + (k + 1) \in given)
      BY <1>5, <3>1, Zenon
    <3> QED
      BY <3>1, <3>2, <3>3, Zenon
  <2>5. Len(bitflags) - 1 = IF n + 1 < m THEN m - (n + 1)
                            ELSE IF n + 1 < m + b THEN m + b - (n + 1) ELSE 0
    BY <1>5, <1>9
  <2> QED
    BY <1>6, <2>2, <2>3, <2>4, <2>5
<1> QED
  BY <1>4, <1>7, <1>8, <1>9
-----------------------------------------------------------------------------
LEMMA WidthIs == \A kind : Width(kind) \in {1, 2, 4} /\ (Elsewhere(kind) => Width(kind) = 4)
BY DEF Width, Elsewhere

\* The given fields of one width, one by one.
LEMMA GivenMore ==
  ASSUME NEW i \in Nat \ {0}, NEW w
  PROVE  /\ Cardinality(GivenBefore(i, w)) \in Nat
         /\ Cardinality(GivenBefore(i + 1, w))
              = Cardinality(GivenBefore(i, w))
                  + (IF Given(i) /\ Width(Fields(record.layout)[i]) = w THEN 1 ELSE 0)
<1>1. IsFiniteSet(GivenBefore(i, w))
  <2>1. IsFiniteSet(1..i - 1)
    BY FS_Interval
  <2>2. GivenBefore(i, w) \subseteq 1..i - 1
    BY DEF GivenBefore
  <2> QED
    BY <2>1, <2>2, FS_Subset
<1>2. i \notin GivenBefore(i, w)
  BY DEF GivenBefore
<1>3. \A j : j \in 1..(i + 1) - 1 <=> j \in 1..i - 1 \/ j = i
  OBVIOUS
<1>4. GivenBefore(i + 1, w)
        = IF Given(i) /\ Width(Fields(record.layout)[i]) = w THEN GivenBefore(i, w) \cup {i}
          ELSE GivenBefore(i, w)
  BY <1>3 DEF GivenBefore
<1>5. Cardinality(GivenBefore(i, w)) \in Nat
  BY <1>1, FS_CardinalityType
<1>6. Cardinality(GivenBefore(i, w) \cup {i}) = Cardinality(GivenBefore(i, w)) + 1
  BY <1>1, <1>2, FS_AddElement
<1> QED
  BY <1>4, <1>5, <1>6

LEMMA NextPlaceIs ==
  ASSUME record \in Records, NEW i \in Nat \ {0}
  PROVE  /\ PlaceOf(i) \in Nat
         /\ PlaceOf(i + 1) = PlaceOf(i) + (IF Given(i) THEN Width(Fields(record.layout)[i]) ELSE 0)
<1>1. PICK a \in Nat, b \in Nat, c \in Nat : /\ a = Cardinality(GivenBefore(i, 1))
                                             /\ b = Cardinality(GivenBefore(i, 2))
                                             /\ c = Cardinality(GivenBefore(i, 4))
  BY GivenMore
<1>2. PICK s \in Nat : s = record.start
  BY LayoutIs
<1>3. PICK w \in {1, 2, 4} : w = Width(Fields(record.layout)[i])
  BY WidthIs
<1>4. PlaceOf(i) = s + a + 2 * b + 4 * c
  BY <1>1, <1>2 DEF PlaceOf
<1>5. /\ Cardinality(GivenBefore(i + 1, 1)) = a + (IF Given(i) /\ w = 1 THEN 1 ELSE 0)
      /\ Cardinality(GivenBefore(i + 1, 2)) = b + (IF Given(i) /\ w = 2 THEN 1 ELSE 0)
      /\ Cardinality(GivenBefore(i + 1, 4)) = c + (IF Given(i) /\ w = 4 THEN 1 ELSE 0)
  BY <1>1, <1>3, GivenMore
<1>6. PlaceOf(i + 1) = s + (a + (IF Given(i) /\ w = 1 THEN 1 ELSE 0))
                         + 2 * (b + (IF Given(i) /\ w = 2 THEN 1 ELSE 0))
                         + 4 * (c + (IF Given(i) /\ w = 4 THEN 1 ELSE 0))
  BY <1>2, <1>5 DEF PlaceOf
<1> QED
  BY <1>3, <1>4, <1>6

LEMMA FirstPlace ==
  ASSUME record \in Records
  PROVE  PlaceOf(1) = record.start
<1>1. \A w : GivenBefore(1, w) = {}
  BY DEF GivenBefore
<1>2. Cardinality({}) = 0 /\ record.start \in Nat
  BY FS_EmptySet, LayoutIs
<1> QED
  BY <1>1, <1>2 DEF PlaceOf
-----------------------------------------------------------------------------
\* A read that ends in the file succeeds, and no other does.
LEMMA AccessIs ==
  ASSUME record \in Records, NEW p \in Nat, NEW n \in {1, 2, 4}
  PROVE  (Access(p, n) = "ok") <=> p + n <= Size
<1>1. Size \in Nat
  BY LayoutIs
<1>2. ~Unsummable(p, n) /\ p + n >= 1
  BY DEF Unsummable, Overflows
<1>3. CASE p + n <= Size
  BY <1>1, <1>2, <1>3 DEF Access
<1>4. CASE ~(p + n <= Size)
  BY <1>1, <1>2, <1>4 DEF Access
<1> QED
  BY <1>3, <1>4

LEMMA NumberIs ==
  ASSUME record \in Records, NEW p \in Nat, p + 4 <= Size
  PROVE  Number(p, 4) \in Int
<1>1. record.file \in Seq(Octets) /\ Size = Len(record.file) /\ Size \in Nat
  BY LayoutIs DEF Size
<1>2. p + 1 \in 1..Size /\ p + 2 \in 1..Size /\ p + 3 \in 1..Size /\ p + 4 \in 1..Size
  BY <1>1
<1>3. \A i \in 1..Size : record.file[i] \in Octets
  BY <1>1
<1>4. Byte(p) \in Octets /\ Byte(p + 1) \in Octets /\ Byte(p + 2) \in Octets /\ Byte(p + 3) \in Octets
  <2>1. (p + 1) + 1 = p + 2 /\ (p + 2) + 1 = p + 3 /\ (p + 3) + 1 = p + 4
    OBVIOUS
  <2> QED
    BY <1>2, <1>3, <2>1 DEF Byte
<1>5. PICK x \in Int, y \in Int, z \in Int, w \in Int :
        x = Byte(p) /\ y = Byte(p + 1) /\ z = Byte(p + 2) /\ w = Signed(Byte(p + 3))
  <2>1. Byte(p) \in Int /\ Byte(p + 1) \in Int /\ Byte(p + 2) \in Int
    BY <1>4 DEF Octets
  <2>2. Signed(Byte(p + 3)) \in Int
    BY <1>4 DEF Signed, Octets
  <2> QED
    BY <2>1, <2>2, Zenon
<1>6. Number(p, 4) = x + 256 * y + 65536 * z + 16777216 * w
  BY <1>5 DEF Number
<1> QED
  BY <1>6
-----------------------------------------------------------------------------
LEMMA ReaderStarts == ReaderInit => RInv
<1> SUFFICES ASSUME ReaderInit PROVE RInv
  OBVIOUS
<1>1. /\ record \in Records /\ pos = record.start /\ values = <<>> /\ reading = "fields"
      /\ bitflags = [k \in 1..Words |-> 0 + k \in record.given]
  BY DEF ReaderInit, Bits, Words
<1>2. IsSeq(values) /\ Len(values) = 0
  <2>1. values \in Seq({}) /\ Len(values) = 0
    BY <1>1
  <2> QED
    BY <2>1, Zenon DEF IsSeq
<1>3. PICK m \in Nat \ {0} : m = Words
  BY <1>1, LayoutIs
<1>4. PICK given : given = record.given
  OBVIOUS
<1>5. bitflags \in Seq(BOOLEAN) /\ Len(bitflags) = m
  <2>1. [k \in 1..m |-> 0 + k \in given] \in [1..m -> BOOLEAN]
    OBVIOUS
  <2> QED
    BY <1>1, <1>3, <1>4, <2>1
<1>6. ReaderTyped
  BY <1>1, <1>2, <1>5, LayoutIs DEF ReaderTyped
<1>7. FlagsAhead
  <2>1. \A k \in 1..m : bitflags[k] = (0 + k \in given)
    BY <1>1, <1>3, <1>4
  <2>2. Len(bitflags) = IF Len(values) < Words THEN Words - Len(values)
                        ELSE IF Len(values) < Words + record.layout.bits
                             THEN Words + record.layout.bits - Len(values) ELSE 0
    BY <1>2, <1>3, <1>5
  <2> QED
    BY <1>2, <1>3, <1>4, <1>5, <2>1, <2>2, Zenon DEF FlagsAhead
<1>8. SizesRead /\ FieldsInPlace
  <2>1. DOMAIN values = {}
    BY <1>1
  <2> QED
    BY <1>2, <2>1 DEF SizesRead, FieldsInPlace
<1>9. NextInPlace /\ ContainedIsRead
  BY <1>1, <1>2, FirstPlace DEF NextInPlace, ContainedIsRead
<1> QED
  BY <1>6, <1>7, <1>8, <1>9 DEF RInv

\* The record stays, and so does what the format says of it.
LEMMA FormatStays ==
  ASSUME record' = record
  PROVE  /\ Contained' = Contained /\ Size' = Size
         /\ \A i : PlaceOf(i)' = PlaceOf(i) /\ Given(i)' = Given(i)
<1>1. \A i : Given(i)' = Given(i)
  BY DEF Given
<1>2. \A i, w : GivenBefore(i, w)' = GivenBefore(i, w)
  BY <1>1 DEF GivenBefore
<1>3. \A i : PlaceOf(i)' = PlaceOf(i)
  BY <1>2 DEF PlaceOf
<1>4. Size' = Size
  BY DEF Size
<1>5. Contained' = Contained
  BY <1>1, <1>3, <1>4 DEF Contained, EndOf
<1> QED
  BY <1>1, <1>3, <1>4, <1>5
-----------------------------------------------------------------------------
\* A field is read, or skipped, and its bit used up.
LEMMA GotKeeps ==
  ASSUME RInv, InFields, Advance, record' = record, reading' = reading, NEW v, Got(v),
         pos' \in Nat, pos' <= Size \/ pos' = record.start,
         Field = "i32" => v.value \in Int,
         Contained => IF Given(Len(values) + 1) THEN v.at = pos /\ pos' = pos + Width(Field)
                      ELSE v = Default /\ pos' = pos
  PROVE  RInv'
<1>0. ReaderTyped /\ FlagsAhead /\ SizesRead /\ NextInPlace /\ FieldsInPlace
  BY DEF RInv
<1>1. PICK S : values \in Seq(S)
  BY <1>0 DEF ReaderTyped, IsSeq
<1>2. PICK n \in Nat : n = Len(values)
  BY <1>1
<1>3. values' = Append(values, v)
  BY DEF Got
<1>4. /\ IsSeq(values') /\ Len(values') = n + 1 /\ values'[n + 1] = v
      /\ \A i \in 1..n : values'[i] = values[i]
  BY <1>1, <1>2, <1>3, FoundMore
<1>5. DOMAIN values = 1..n /\ DOMAIN values' = 1..(n + 1)
  <2>1. PICK T : values' \in Seq(T)
    BY <1>4 DEF IsSeq
  <2> QED
    BY <1>1, <1>2, <1>4, <2>1
<1>6. record \in Records /\ n < Len(Fields(record.layout)) /\ reading = "fields"
  BY <1>0, <1>2 DEF ReaderTyped, InFields
<1>7. Field = Fields(record.layout)[n + 1]
  BY <1>2 DEF Field
<1>8. \A i \in 1..(n + 1) : i \in 1..n \/ i = n + 1
  OBVIOUS
<1>9. ReaderTyped'
  <2>1. n + 1 <= Len(Fields(record.layout))
    BY <1>6, LayoutIs
  <2>2. bitflags' \in Seq(BOOLEAN)
    BY <1>0, <1>2, <1>4, AdvanceKeeps
  <2>3. Size' = Size
    BY FormatStays
  <2> QED
    BY <1>4, <1>6, <2>1, <2>2, <2>3 DEF ReaderTyped
<1>10. FlagsAhead'
  BY <1>0, <1>2, <1>4, AdvanceKeeps
<1>11. SizesRead'
  <2>1. \A i \in 1..n : Fields(record.layout)[i] = "i32" => values[i].value \in Int
    BY <1>0, <1>2 DEF SizesRead
  <2>2. \A i \in 1..(n + 1) : Fields(record.layout)[i] = "i32" => values'[i].value \in Int
    BY <1>4, <1>7, <1>8, <2>1
  <2> QED
    BY <1>4, <2>2 DEF SizesRead
<1>12. PlaceOf(n + 1) \in Nat
       /\ PlaceOf((n + 1) + 1) = PlaceOf(n + 1) + (IF Given(n + 1) THEN Width(Field) ELSE 0)
  <2>1. PICK i \in Nat \ {0} : i = n + 1
    OBVIOUS
  <2>2. /\ PlaceOf(i) \in Nat
        /\ PlaceOf(i + 1) = PlaceOf(i) + (IF Given(i) THEN Width(Fields(record.layout)[i]) ELSE 0)
    BY <1>6, NextPlaceIs
  <2> QED
    BY <1>7, <2>1, <2>2
<1>13. Contained => pos = PlaceOf(n + 1)
  BY <1>0, <1>2 DEF NextInPlace
<1>14. NextInPlace'
  <2>1. Contained => pos' = PlaceOf((n + 1) + 1)
    BY <1>2, <1>12, <1>13
  <2>2. Contained' = Contained /\ PlaceOf((n + 1) + 1)' = PlaceOf((n + 1) + 1)
    BY FormatStays
  <2>3. Contained' => pos' = PlaceOf((n + 1) + 1)'
    BY <2>1, <2>2
  <2> QED
    BY <1>4, <2>3 DEF NextInPlace
<1>15. FieldsInPlace'
  <2>1. ASSUME Contained, NEW i \in 1..(n + 1)
        PROVE  IF Given(i) THEN values'[i].at = PlaceOf(i) ELSE values'[i] = Default
    <3>1. CASE i \in 1..n
      <4>1. IF Given(i) THEN values[i].at = PlaceOf(i) ELSE values[i] = Default
        BY <1>0, <1>5, <2>1, <3>1 DEF FieldsInPlace
      <4> QED
        BY <1>4, <3>1, <4>1
    <3>2. CASE i = n + 1
      <4>1. IF Given(n + 1) THEN v.at = PlaceOf(n + 1) ELSE v = Default
        BY <1>2, <1>13, <2>1
      <4> QED
        BY <1>4, <3>2, <4>1
    <3> QED
      BY <1>8, <3>1, <3>2
  <2>2. /\ Contained' = Contained
        /\ \A i : PlaceOf(i)' = PlaceOf(i) /\ Given(i)' = Given(i)
    BY FormatStays
  <2>3. Default' = Default
    BY DEF Default
  <2>4. ASSUME Contained', NEW i \in DOMAIN values'
        PROVE  IF Given(i)' THEN values'[i].at = PlaceOf(i)' ELSE values'[i] = Default
    BY <1>5, <2>1, <2>2, <2>4
  <2> QED
    BY <2>3, <2>4 DEF FieldsInPlace
<1>16. ContainedIsRead'
  BY <1>6 DEF ContainedIsRead
<1> QED
  BY <1>9, <1>10, <1>11, <1>14, <1>15, <1>16 DEF RInv

\* Nothing else is read after an error or a panic.
LEMMA StopKeeps ==
  ASSUME RInv, InFields, NEW how \in {"error", "panicked"}, Stop(how), record' = record,
         Contained => how = "panicked" /\ Unreadable
  PROVE  RInv'
<1>1. UNCHANGED <<record, pos, bitflags, values>> /\ reading' = how
  BY DEF Stop
<1>2. /\ Contained' = Contained /\ Size' = Size
      /\ \A i : PlaceOf(i)' = PlaceOf(i) /\ Given(i)' = Given(i)
  BY FormatStays
<1>3. ReaderTyped'
  BY <1>1, <1>2 DEF RInv, ReaderTyped
<1>4. FlagsAhead' /\ SizesRead'
  BY <1>1 DEF RInv, FlagsAhead, SizesRead, Words
<1>5. NextInPlace'
  BY <1>1, <1>2 DEF RInv, NextInPlace
<1>6. FieldsInPlace'
  BY <1>1, <1>2 DEF RInv, FieldsInPlace, Default
<1>7. Unreadable' = Unreadable
  BY <1>1 DEF Unreadable, Field, Number, Byte, Terminated, Size, DumpSize
<1>8. ContainedIsRead'
  BY <1>1, <1>2, <1>7 DEF ContainedIsRead
<1> QED
  BY <1>3, <1>4, <1>5, <1>6, <1>8 DEF RInv

LEMMA SkipKeeps ==
  ASSUME RInv, Skip
  PROVE  RInv'
<1>1. /\ InFields /\ ~IsSet /\ Advance /\ Got(Default)
      /\ UNCHANGED <<record, pos, reading>>
  BY DEF Skip
<1>2. ReaderTyped /\ FlagsAhead
  BY DEF RInv
<1>3. ~Given(Len(values) + 1)
  BY <1>1, <1>2, IsSetIs
<1>4. Default.value \in Int
  BY DEF Default
<1>5. pos' \in Nat /\ (pos' <= Size \/ pos' = record.start)
  BY <1>1, <1>2 DEF ReaderTyped
<1> QED
  BY <1>1, <1>3, <1>4, <1>5, GotKeeps

\* A given field of a record that is in the file lies ahead.
LEMMA GivenAhead ==
  ASSUME RInv, InFields, IsSet, Contained
  PROVE  Given(Len(values) + 1) /\ pos + Width(Field) <= Size
<1>1. ReaderTyped /\ FlagsAhead /\ NextInPlace
  BY DEF RInv
<1>2. PICK n \in Nat : n = Len(values)
  BY <1>1 DEF ReaderTyped, IsSeq
<1>3. Given(n + 1)
  BY <1>1, <1>2, IsSetIs
<1>4. n + 1 \in 1..Len(Fields(record.layout))
  BY <1>1, <1>2, LayoutIs DEF ReaderTyped, InFields
<1>5. EndOf(n + 1) <= Size /\ pos = PlaceOf(n + 1)
  BY <1>1, <1>2, <1>3, <1>4 DEF Contained, NextInPlace
<1> QED
  BY <1>2, <1>3, <1>5 DEF EndOf, Field

LEMMA ReadPrimitiveKeeps ==
  ASSUME RInv, ReadPrimitive
  PROVE  RInv'
<1>1. /\ InFields /\ IsSet /\ ~Elsewhere(Field) /\ record' = record
      /\ ReaderTyped /\ record \in Records /\ pos \in Nat /\ (pos <= Size \/ pos = record.start)
  BY DEF RInv, ReadPrimitive, ReaderTyped
<1>2. PICK w \in {1, 2, 4} : w = Width(Field)
  BY WidthIs
<1>3. Contained => Given(Len(values) + 1) /\ Access(pos, w) = "ok"
  BY <1>1, <1>2, GivenAhead, AccessIs
<1>4. CASE Access(pos, w) = "panic"
  <2>1. Stop("panicked")
    BY <1>2, <1>4 DEF ReadPrimitive
  <2> QED
    BY <1>1, <1>3, <1>4, <2>1, StopKeeps
<1>5. CASE Access(pos, w) = "error"
  <2>1. Advance /\ Got(Default) /\ UNCHANGED <<pos, reading>>
    BY <1>2, <1>5 DEF ReadPrimitive
  <2>2. Default.value \in Int
    BY DEF Default
  <2> QED
    BY <1>1, <1>3, <1>5, <2>1, <2>2, GotKeeps
<1>6. CASE Access(pos, w) \notin {"panic", "error"}
  <2>1. PICK v : v = [at |-> pos, value |-> Number(pos, w)]
    OBVIOUS
  <2>2. Advance /\ Got(v) /\ pos' = pos + w /\ reading' = reading
    BY <1>2, <1>6, <2>1 DEF ReadPrimitive
  <2>3. Access(pos, w) = "ok"
    BY <1>6 DEF Access
  <2>4. pos + w <= Size /\ pos + w \in Nat
    BY <1>1, <2>3, AccessIs
  <2>5. Field = "i32" => v.value \in Int
    <3>1. Field = "i32" => w = 4
      BY <1>2 DEF Width
    <3> QED
      BY <1>1, <2>1, <2>4, <3>1, NumberIs
  <2>6. v.at = pos
    BY <2>1
  <2> QED
    BY <1>1, <1>2, <1>3, <2>2, <2>4, <2>5, <2>6, GotKeeps
<1> QED
  BY <1>4, <1>5, <1>6

\* What is elsewhere panics for a reason.
LEMMA PanicIsUnreadable ==
  ASSUME RInv, InFields, IsSet, Elsewhere(Field), Contained,
         NEW distance, distance = Number(pos, 4), NEW target, target = record.base + distance,
         \/ record.checked /\ Overflows(distance, record.base)
         \/ Field = "string" /\ CString(target) = "panic"
         \/ Field # "string" /\ Access(target, DumpSize) = "panic"
  PROVE  Unreadable
<1>1. ReaderTyped /\ record \in Records /\ pos \in Nat
  BY DEF RInv, ReaderTyped
<1>2. distance \in Int /\ record.base \in Nat /\ Size \in Nat
  BY <1>1, GivenAhead, WidthIs, NumberIs, LayoutIs
<1>3. CASE distance < 0
  BY <1>3 DEF Unreadable
<1>4. CASE distance >= 0 /\ Field = "string"
  <2>1. ~Overflows(distance, record.base) /\ target \in Nat
    BY <1>2, <1>4 DEF Overflows
  <2>2. CString(target) = "panic"
    BY <1>4, <2>1
  <2>3. target \in 0..Size /\ ~Terminated(target)
    BY <2>2 DEF CString
  <2>4. target <= Size
    BY <1>2, <2>3
  <2> QED
    BY <1>4, <2>3, <2>4 DEF Unreadable
<1>5. CASE distance >= 0 /\ Field # "string"
  <2>1. ~Overflows(distance, record.base) /\ target \in Nat
    BY <1>2, <1>5 DEF Overflows
  <2>2. Access(target, DumpSize) = "panic"
    BY <1>5, <2>1
  <2>3. DumpSize \in Int
    <3>1. CASE Field = "dump5"
      BY <3>1 DEF DumpSize
    <3>2. CASE Field = "dump"
      <4>1. PICK n \in Nat : n = Len(values)
        BY <1>1 DEF ReaderTyped, IsSeq
      <4>2. n + 1 \in 1..Len(Fields(record.layout)) /\ Fields(record.layout)[n + 1] = "dump"
        BY <1>1, <3>2, <4>1, LayoutIs DEF InFields, Field
      <4>3. n + 1 > 1 /\ Fields(record.layout)[(n + 1) - 1] = "i32"
        BY <1>1, <4>2, LayoutIs
      <4>4. n \in 1..n /\ (n + 1) - 1 = n
        BY <4>3
      <4>5. values[n].value \in Int
        BY <4>1, <4>3, <4>4 DEF RInv, SizesRead
      <4> QED
        BY <3>2, <4>1, <4>5 DEF DumpSize
    <3> QED
      BY <1>5, <3>1, <3>2 DEF Elsewhere
  <2>4. CASE DumpSize >= 0
    <3>1. PICK bytes \in Nat : bytes = DumpSize
      BY <2>3, <2>4
    <3>2. ~Overflows(target, bytes)
      BY <2>1 DEF Overflows
    <3>3. target + bytes = 0 \/ target + bytes = Size + 1
      BY <1>2, <2>1, <2>2, <3>1, <3>2 DEF Access, Unsummable
    <3> QED
      BY <1>5, <3>1, <3>3 DEF Unreadable
  <2>5. CASE DumpSize < 0
    BY <1>5, <2>5 DEF Unreadable
  <2> QED
    BY <2>3, <2>4, <2>5
<1> QED
  BY <1>2, <1>3, <1>4, <1>5

LEMMA ReadElsewhereKeeps ==
  ASSUME RInv, ReadElsewhere
  PROVE  RInv'
<1>1. /\ InFields /\ IsSet /\ Elsewhere(Field) /\ record' = record
      /\ ReaderTyped /\ record \in Records /\ pos \in Nat /\ (pos <= Size \/ pos = record.start)
  BY DEF RInv, ReadElsewhere, ReaderTyped
<1>2. Width(Field) = 4 /\ Field # "i32"
  BY <1>1, WidthIs DEF Elsewhere
<1>3. Contained => Given(Len(values) + 1) /\ Access(pos, 4) = "ok"
  BY <1>1, <1>2, GivenAhead, AccessIs
<1>4. CASE Access(pos, 4) # "ok"
  <2>1. PICK how \in {"error", "panicked"} : Stop(how)
    BY <1>4 DEF ReadElsewhere
  <2> QED
    BY <1>1, <1>3, <1>4, <2>1, StopKeeps
<1>5. CASE Access(pos, 4) = "ok"
  <2>1. PICK distance : distance = Number(pos, 4)
    OBVIOUS
  <2>2. PICK target : target = record.base + distance
    OBVIOUS
  <2>3. PICK outcome :
          outcome = CASE record.checked /\ Overflows(distance, record.base) -> "panic"
                    [] ~(record.checked /\ Overflows(distance, record.base)) ->
                         IF Field = "string" THEN CString(target) ELSE Access(target, DumpSize)
    OBVIOUS
  <2>4. IF outcome = "panic" THEN Stop("panicked")
        ELSE /\ Advance /\ Got([at |-> pos, value |-> IF outcome = "ok" THEN target ELSE "empty"])
             /\ pos' = pos + 4 /\ UNCHANGED reading
    BY <1>5, <2>1, <2>2, <2>3 DEF ReadElsewhere
  <2>5. CASE outcome = "panic"
    <3>1. \/ record.checked /\ Overflows(distance, record.base)
          \/ Field = "string" /\ CString(target) = "panic"
          \/ Field # "string" /\ Access(target, DumpSize) = "panic"
      BY <2>3, <2>5
    <3>2. Contained => Unreadable
      BY <1>1, <2>1, <2>2, <3>1, PanicIsUnreadable
    <3>3. Stop("panicked")
      BY <2>4, <2>5
    <3> QED
      BY <1>1, <3>2, <3>3, StopKeeps
  <2>6. CASE outcome # "panic"
    <3>1. PICK v : v = [at |-> pos, value |-> IF outcome = "ok" THEN target ELSE "empty"]
      OBVIOUS
    <3>2. Advance /\ Got(v) /\ pos' = pos + 4 /\ reading' = reading /\ v.at = pos
      BY <2>4, <2>6, <3>1
    <3>3. pos + 4 <= Size /\ pos + 4 \in Nat
      BY <1>1, <1>5, AccessIs
    <3> QED
      BY <1>1, <1>2, <1>3, <3>2, <3>3, GotKeeps
  <2> QED
    BY <2>5, <2>6
<1> QED
  BY <1>4, <1>5

LEMMA ReaderSteps ==
  ASSUME RInv, [ReaderNext]_readerVars
  PROVE  RInv'
<1>1. ASSUME UNCHANGED <<record, pos, bitflags, values>>,
             reading' = reading \/ reading' = "done"
      PROVE  RInv'
  <2>1. /\ Contained' = Contained /\ Size' = Size
        /\ \A i : PlaceOf(i)' = PlaceOf(i) /\ Given(i)' = Given(i)
    BY <1>1, FormatStays
  <2>2. ReaderTyped'
    BY <1>1, <2>1 DEF RInv, ReaderTyped
  <2>3. FlagsAhead' /\ SizesRead'
    BY <1>1 DEF RInv, FlagsAhead, SizesRead, Words
  <2>4. NextInPlace'
    BY <1>1, <2>1 DEF RInv, NextInPlace
  <2>5. FieldsInPlace'
    BY <1>1, <2>1 DEF RInv, FieldsInPlace, Default
  <2>6. Unreadable' = Unreadable
    BY <1>1 DEF Unreadable, Field, Number, Byte, Terminated, Size, DumpSize
  <2>7. ContainedIsRead'
    BY <1>1, <2>1, <2>6 DEF RInv, ContainedIsRead
  <2> QED
    BY <2>2, <2>3, <2>4, <2>5, <2>7 DEF RInv
<1>2. CASE UNCHANGED readerVars
  BY <1>1, <1>2 DEF readerVars
<1>3. CASE Finish
  BY <1>1, <1>3 DEF Finish
<1> QED
  BY <1>2, <1>3, SkipKeeps, ReadPrimitiveKeeps, ReadElsewhereKeeps DEF ReaderNext

LEMMA RecordsTell == RInv => RecordsRead
<1> SUFFICES ASSUME RInv PROVE RecordsRead
  OBVIOUS
<1>1. ReaderTypeOK
  <2>1. \A i \in DOMAIN bitflags : bitflags[i] \in BOOLEAN
    BY DEF RInv, ReaderTyped
  <2> QED
    BY <2>1 DEF RInv, ReaderTyped, ReaderTypeOK
<1> QED
  BY <1>1 DEF RInv, RecordsRead

(* A record of a CBF file is read as it is laid out, to its end: every     *)
(* given field from its own place, over both words of flags and whatever   *)
(* texts and dumps lie elsewhere.  For every layout, every set of flags    *)
(* and every file.                                                         *)
THEOREM ReaderReads == ReaderSpec => []RecordsRead
<1>1. ReaderInit => RInv
  BY ReaderStarts
<1>2. RInv /\ [ReaderNext]_readerVars => RInv'
  BY ReaderSteps
<1>3. RInv => RecordsRead
  BY RecordsTell
<1> QED
  BY <1>1, <1>2, <1>3, PTL DEF ReaderSpec
-----------------------------------------------------------------------------
(* What the JSON session shows of an answer (ParamDecode), and what the    *)
(* converter makes of a CBF file for it (CbfFormats), for every parameter, *)
(* preparation, presentation and answer.                                   *)

LEMMA TwoTo == \A e \in 0..7 : 2^e \in {1, 2, 4, 8, 16, 32, 64, 128}
<1> TAKE e \in 0..7
<1>1. e = 0 \/ e = 1 \/ e = 2 \/ e = 3 \/ e = 4 \/ e = 5 \/ e = 6 \/ e = 7
  OBVIOUS
<1> DEFINE T == {1, 2, 4, 8, 16, 32, 64, 128}
<1>2. /\ 2^0 = 1 /\ 2^1 = 2 /\ 2^2 = 4 /\ 2^3 = 8
      /\ 2^4 = 16 /\ 2^5 = 32 /\ 2^6 = 64 /\ 2^7 = 128
  OBVIOUS
<1>3. 2^0 \in T /\ 2^1 \in T /\ 2^2 \in T /\ 2^3 \in T /\ 2^4 \in T /\ 2^5 \in T /\ 2^6 \in T /\ 2^7 \in T
  BY <1>2
<1> HIDE DEF T
<1>4. 2^e \in T
  BY <1>1, <1>3, Zenon
<1> QED
  BY <1>4 DEF T

\* A bit within the answer.
LEMMA BitIs ==
  ASSUME answer \in Seq(Octets), NEW k \in Nat, k < AnswerBits
  PROVE  Bit(k) \in {0, 1}
<1>1. Len(answer) \in Nat /\ k < 8 * Len(answer)
  BY DEF AnswerBits
<1>2. PICK j \in 1..Len(answer) : j = (k \div 8) + 1
  BY <1>1
<1>3. PICK e \in 0..7 : e = k % 8
  OBVIOUS
<1>4. PICK b \in Nat : b = answer[j]
  BY DEF Octets
<1>5. PICK q \in {1, 2, 4, 8, 16, 32, 64, 128} : q = 2^e
  BY TwoTo
<1>6. (b \div q) % 2 \in {0, 1}
  <2>1. b \div q \in Int
    OBVIOUS
  <2> QED
    BY <2>1
<1>7. Bit(k) = (b \div q) % 2
  BY <1>2, <1>3, <1>4, <1>5 DEF Bit
<1> QED
  BY <1>6, <1>7

\* A byte is its bits.
LEMMA ByteOfBits ==
  \A b \in Octets :
    b = ((b \div 1) % 2) + 2 * ((b \div 2) % 2) + 4 * ((b \div 4) % 2) + 8 * ((b \div 8) % 2)
          + 16 * ((b \div 16) % 2) + 32 * ((b \div 32) % 2) + 64 * ((b \div 64) % 2)
          + 128 * ((b \div 128) % 2)
BY DEF Octets

LEMMA WholeByte ==
  ASSUME answer \in Seq(Octets), NEW j \in Nat, j < Len(answer)
  PROVE  Value(8 * j, 8) = answer[j + 1] /\ answer[j + 1] \in Octets
<1>1. Len(answer) \in Nat /\ j + 1 \in 1..Len(answer)
  OBVIOUS
<1>2. PICK b \in Octets : b = answer[j + 1]
  BY <1>1
<1>3. ASSUME NEW i \in 0..7
      PROVE  BitOf(8 * j, 8, i) = (b \div 2^i) % 2
  <2>1. (8 * j + i) \div 8 = j /\ (8 * j + i) % 8 = i /\ i < 8
    OBVIOUS
  <2> QED
    BY <1>2, <2>1 DEF BitOf, Bit
<1>4. /\ 2^0 = 1 /\ 2^1 = 2 /\ 2^2 = 4 /\ 2^3 = 8
      /\ 2^4 = 16 /\ 2^5 = 32 /\ 2^6 = 64 /\ 2^7 = 128
  OBVIOUS
<1>5. /\ BitOf(8 * j, 8, 0) = (b \div 1) % 2 /\ BitOf(8 * j, 8, 1) = (b \div 2) % 2
      /\ BitOf(8 * j, 8, 2) = (b \div 4) % 2 /\ BitOf(8 * j, 8, 3) = (b \div 8) % 2
      /\ BitOf(8 * j, 8, 4) = (b \div 16) % 2 /\ BitOf(8 * j, 8, 5) = (b \div 32) % 2
      /\ BitOf(8 * j, 8, 6) = (b \div 64) % 2 /\ BitOf(8 * j, 8, 7) = (b \div 128) % 2
  BY <1>3, <1>4
<1>6. Value(8 * j, 8) = b
  BY <1>5, ByteOfBits DEF Value
<1> QED
  BY <1>2, <1>6

\* Up to eight bits of the answer are a byte, which is zero if all of them are.
LEMMA ValueIs ==
  ASSUME answer \in Seq(Octets), NEW from \in Nat, NEW bits \in 1..8, from + bits <= AnswerBits
  PROVE  /\ Value(from, bits) \in Octets
         /\ Value(from, bits) > 0 <=> \E k \in from..from + bits - 1 : Bit(k) = 1
<1> DEFINE B(i) == BitOf(from, bits, i)
<1>1. AnswerBits \in Nat
  BY DEF AnswerBits
<1>2. ASSUME NEW i \in 0..7
      PROVE  B(i) \in {0, 1} /\ (B(i) = 1 <=> i < bits /\ Bit(from + i) = 1)
  <2>1. CASE i < bits
    <3>1. from + i \in Nat /\ from + i < AnswerBits
      BY <1>1, <2>1
    <3>2. Bit(from + i) \in {0, 1}
      BY <3>1, BitIs
    <3> QED
      BY <2>1, <3>2 DEF BitOf
  <2>2. CASE ~(i < bits)
    BY <2>2 DEF BitOf
  <2> QED
    BY <2>1, <2>2
<1>3. Value(from, bits) = B(0) + 2 * B(1) + 4 * B(2) + 8 * B(3) + 16 * B(4) + 32 * B(5) + 64 * B(6) + 128 * B(7)
  BY DEF Value
<1> HIDE DEF B
<1>4. PICK b0 \in {0, 1}, b1 \in {0, 1}, b2 \in {0, 1}, b3 \in {0, 1} :
        b0 = B(0) /\ b1 = B(1) /\ b2 = B(2) /\ b3 = B(3)
  BY <1>2
<1>9. PICK b4 \in {0, 1}, b5 \in {0, 1}, b6 \in {0, 1}, b7 \in {0, 1} :
        b4 = B(4) /\ b5 = B(5) /\ b6 = B(6) /\ b7 = B(7)
  BY <1>2
<1>10. PICK v : v = Value(from, bits)
  OBVIOUS
<1>11. v = b0 + 2 * b1 + 4 * b2 + 8 * b3 + 16 * b4 + 32 * b5 + 64 * b6 + 128 * b7
  BY <1>3, <1>4, <1>9, <1>10
<1>5. Value(from, bits) \in Octets
  BY <1>10, <1>11 DEF Octets
<1>12. v > 0 <=> \/ b0 = 1 \/ b1 = 1 \/ b2 = 1 \/ b3 = 1
                 \/ b4 = 1 \/ b5 = 1 \/ b6 = 1 \/ b7 = 1
  BY <1>11
<1>6. Value(from, bits) > 0 <=> \/ B(0) = 1 \/ B(1) = 1 \/ B(2) = 1 \/ B(3) = 1
                                \/ B(4) = 1 \/ B(5) = 1 \/ B(6) = 1 \/ B(7) = 1
  BY <1>4, <1>9, <1>10, <1>12
<1>7. Value(from, bits) > 0 <=> \E i \in 0..7 : B(i) = 1
  <2>1. \A i \in 0..7 : i = 0 \/ i = 1 \/ i = 2 \/ i = 3 \/ i = 4 \/ i = 5 \/ i = 6 \/ i = 7
    OBVIOUS
  <2> QED
    BY <1>6, <2>1
<1>8. (\E i \in 0..7 : B(i) = 1) <=> \E k \in from..from + bits - 1 : Bit(k) = 1
  <2>1. ASSUME NEW i \in 0..7, B(i) = 1
        PROVE  \E k \in from..from + bits - 1 : Bit(k) = 1
    <3>1. i < bits /\ Bit(from + i) = 1
      BY <1>2, <2>1
    <3>2. from + i \in from..from + bits - 1
      BY <3>1
    <3> QED
      BY <3>1, <3>2
  <2>2. ASSUME NEW k \in from..from + bits - 1, Bit(k) = 1
        PROVE  \E i \in 0..7 : B(i) = 1
    <3>1. PICK i \in 0..7 : from + i = k /\ i < bits
      <4>1. k - from \in 0..7 /\ from + (k - from) = k /\ k - from < bits
        OBVIOUS
      <4> QED
        BY <4>1
    <3> QED
      BY <1>2, <2>2, <3>1
  <2> QED
    BY <2>1, <2>2
<1> QED
  BY <1>5, <1>7, <1>8
-----------------------------------------------------------------------------
\* Where the chunk i is, and that it has up to eight bits of the parameter.
LEMMA ChunkIs ==
  ASSUME answer \in Seq(Octets), param.start \in Nat, param.length \in Int,
         InAnswer(param.start, param.length), param.length <= 32
  PROVE  /\ Chunks \in 1..4
         /\ Chunks = 3 <=> param.length \in 17..24
         /\ param.length <= 8 => Chunks = 1
         /\ \A i \in 1..Chunks : Chunk(i) \in Octets
         /\ (\E i \in 1..Chunks : Chunk(i) > 0)
              <=> (\E k \in param.start..param.start + param.length - 1 : Bit(k) = 1)
<1>1. PICK s \in Nat : s = param.start
  OBVIOUS
<1>2. PICK n \in 1..32 : n = param.length
  <2>1. param.length > 0 /\ param.length <= 32
    BY DEF InAnswer
  <2>2. PICK n \in Int : n = param.length
    OBVIOUS
  <2>4. n > 0 /\ n <= 32
    BY <2>1, <2>2
  <2>3. n \in 1..32
    BY <2>4
  <2> QED
    BY <2>2, <2>3
<1>3. AnswerBits \in Nat /\ s + n <= AnswerBits
  BY <1>1, <1>2 DEF InAnswer, AnswerBits
<1>4. PICK c \in 1..4 : c = Chunks
  <2>1. (n + 7) \div 8 \in 1..4
    OBVIOUS
  <2> QED
    BY <1>2, <2>1 DEF Chunks
<1>5. c = (n + 7) \div 8
  BY <1>2, <1>4 DEF Chunks
<1>6. /\ c = 3 <=> n \in 17..24
      /\ n <= 8 => c = 1
      /\ 8 * (c - 1) < n /\ n <= 8 * c
  BY <1>5
<1> DEFINE from(i) == s + 8 * (i - 1)
           bits(i) == Least(8, s + n - from(i))
           Some(i) == \E k \in from(i)..from(i) + bits(i) - 1 : Bit(k) = 1
<1>7. ASSUME NEW i \in 1..c
      PROVE  /\ from(i) \in Nat /\ bits(i) \in 1..8 /\ from(i) + bits(i) <= s + n
             /\ Chunk(i) \in Octets /\ (Chunk(i) > 0 <=> Some(i))
  <2>1. PICK f \in Nat : f = from(i)
    OBVIOUS
  <2>2. PICK b : b = bits(i)
    OBVIOUS
  <2>3. b \in 1..8 /\ f + b <= s + n
    BY <1>6, <2>1, <2>2 DEF Least
  <2>4. Chunk(i) = Value(f, b)
    BY <1>1, <1>2, <2>1, <2>2 DEF Chunk
  <2>5. f + b <= AnswerBits
    BY <1>3, <2>3
  <2>6. Value(f, b) \in Octets /\ (Value(f, b) > 0 <=> \E k \in f..f + b - 1 : Bit(k) = 1)
    BY <2>3, <2>5, ValueIs
  <2> QED
    BY <2>1, <2>2, <2>3, <2>4, <2>6
<1>8. ASSUME NEW k \in s..s + n - 1
      PROVE  \E i \in 1..c : k \in from(i)..from(i) + bits(i) - 1
  <2>1. PICK i \in 1..c : i = ((k - s) \div 8) + 1
    <3>1. ((k - s) \div 8) + 1 \in 1..c
      BY <1>6
    <3> QED
      BY <3>1
  <2>2. from(i) <= k /\ k <= from(i) + 7
    BY <2>1
  <2>3. k <= from(i) + bits(i) - 1
    BY <2>2 DEF Least
  <2> QED
    BY <2>2, <2>3
<1>9. (\E i \in 1..c : Chunk(i) > 0) <=> (\E k \in s..s + n - 1 : Bit(k) = 1)
  <2>1. ASSUME NEW i \in 1..c, Chunk(i) > 0
        PROVE  \E k \in s..s + n - 1 : Bit(k) = 1
    <3>1. PICK k \in from(i)..from(i) + bits(i) - 1 : Bit(k) = 1
      BY <1>7, <2>1
    <3>2. k \in s..s + n - 1
      <4>1. from(i) \in Nat /\ bits(i) \in 1..8 /\ from(i) + bits(i) <= s + n
        BY <1>7
      <4>2. PICK f \in Nat, b \in 1..8 : f = from(i) /\ b = bits(i)
        BY <4>1
      <4>3. f >= s
        BY <4>2
      <4>4. f + b <= s + n /\ k \in f..f + b - 1
        BY <4>1, <4>2
      <4> QED
        BY <4>3, <4>4
    <3> QED
      BY <3>1, <3>2
  <2>2. ASSUME NEW k \in s..s + n - 1, Bit(k) = 1
        PROVE  \E i \in 1..c : Chunk(i) > 0
    <3>1. PICK i \in 1..c : k \in from(i)..from(i) + bits(i) - 1
      BY <1>8
    <3>2. Some(i)
      BY <2>2, <3>1
    <3> HIDE DEF Some
    <3> QED
      BY <1>7, <3>2
  <2> QED
    BY <2>1, <2>2
<1>10. \A i \in 1..c : Chunk(i) \in Octets
  BY <1>7
<1> QED
  BY <1>1, <1>2, <1>4, <1>6, <1>9, <1>10

IsU32(n) == n \in Nat /\ n <= 4294967295

\* What one, two or four bytes are as a number.
LEMMA NumberOfBytes ==
  ASSUME NEW c \in {1, 2, 4}, NEW bytes \in [1..c -> Octets]
  PROVE  /\ IsU32(FromBytes(bytes))
         /\ FromBytes(bytes) > 0 <=> \E i \in 1..c : bytes[i] > 0
<1>1. Len(bytes) = c /\ bytes \in Seq(Octets)
  OBVIOUS
<1>2. CASE c = 1
  <2>1. PICK a \in Octets : a = bytes[1]
    BY <1>2
  <2>2. FromBytes(bytes) = a
    BY <1>1, <1>2, <2>1 DEF FromBytes
  <2>3. (\E i \in 1..c : bytes[i] > 0) <=> a > 0
    <3>1. \A i : i \in 1..c <=> i = 1
      BY <1>2
    <3> QED
      BY <2>1, <3>1, Zenon
  <2>4. IsU32(a)
    BY SMT DEF Octets, IsU32
  <2> QED
    BY <2>2, <2>3, <2>4 DEF Octets
<1>3. CASE c = 2
  <2>1. PICK a \in Octets, b \in Octets : a = bytes[1] /\ b = bytes[2]
    BY <1>3
  <2>2. FromBytes(bytes) = a * 256 + b
    BY <1>1, <1>3, <2>1 DEF FromBytes
  <2>3. (\E i \in 1..c : bytes[i] > 0) <=> a > 0 \/ b > 0
    <3>1. \A i : i \in 1..c <=> i = 1 \/ i = 2
      BY <1>3
    <3> QED
      BY <2>1, <3>1, Zenon
  <2>4. IsU32(a * 256 + b) /\ (a * 256 + b > 0 <=> a > 0 \/ b > 0)
    BY SMT DEF Octets, IsU32
  <2> QED
    BY <2>2, <2>3, <2>4
<1>4. CASE c = 4
  <2>1. PICK a \in Octets, b \in Octets, d \in Octets, e \in Octets :
          a = bytes[1] /\ b = bytes[2] /\ d = bytes[3] /\ e = bytes[4]
    BY <1>4
  <2> DEFINE v == ((a * 256 + b) * 256 + d) * 256 + e
  <2>2. FromBytes(bytes) = v
    BY <1>1, <1>4, <2>1 DEF FromBytes
  <2>3. (\E i \in 1..c : bytes[i] > 0) <=> a > 0 \/ b > 0 \/ d > 0 \/ e > 0
    <3>1. \A i : i \in 1..c <=> i = 1 \/ i = 2 \/ i = 3 \/ i = 4
      BY <1>4
    <3> QED
      BY <2>1, <3>1, Zenon
  <2>4. IsU32(v) /\ (v > 0 <=> a > 0 \/ b > 0 \/ d > 0 \/ e > 0)
    BY SMT DEF Octets, IsU32
  <2> QED
    BY <2>2, <2>3, <2>4
<1> QED
  BY <1>2, <1>3, <1>4

\* A list and its reverse have the same bytes.
LEMMA ReverseIs ==
  ASSUME NEW c \in 1..4, NEW bytes \in [1..c -> Octets]
  PROVE  /\ Reverse(bytes) \in [1..c -> Octets]
         /\ \A i \in 1..c : Reverse(bytes)[i] = bytes[c - i + 1]
         /\ (\E i \in 1..c : Reverse(bytes)[i] > 0) <=> (\E i \in 1..c : bytes[i] > 0)
<1>1. Len(bytes) = c
  OBVIOUS
<1>2. Reverse(bytes) = [i \in 1..c |-> bytes[(c - i) + 1]]
  BY <1>1 DEF Reverse
<1>3. \A i \in 1..c : c - i + 1 \in 1..c /\ c - (c - i + 1) + 1 = i
  OBVIOUS
<1>4. \A i \in 1..c : Reverse(bytes)[i] = bytes[c - i + 1]
  BY <1>2
<1>5. Reverse(bytes) \in [1..c -> Octets]
  BY <1>2, <1>3
<1>6. ASSUME NEW i \in 1..c, Reverse(bytes)[i] > 0
      PROVE  \E j \in 1..c : bytes[j] > 0
  BY <1>3, <1>4, <1>6
<1>7. ASSUME NEW i \in 1..c, bytes[i] > 0
      PROVE  \E j \in 1..c : Reverse(bytes)[j] > 0
  <2>1. PICK j \in 1..c : j = c - i + 1
    BY <1>3
  <2>2. Reverse(bytes)[j] = bytes[i]
    BY <1>3, <1>4, <2>1
  <2> QED
    BY <1>7, <2>2
<1> QED
  BY <1>4, <1>5, <1>6, <1>7

ParamTyped == param.start \in Nat /\ param.length \in Int /\ param.order \in {"big", "little"}
Readable == param.length <= 32 /\ InAnswer(param.start, param.length) /\ param.length \notin 17..24
Chunked == [i \in 1..Chunks |-> Chunk(i)]

\* The number is that of the chunks, first to last or last to first.
LEMMA NumberOfChunks ==
  ASSUME answer \in Seq(Octets), ParamTyped, Readable
  PROVE  /\ Chunks \in {1, 2, 4} /\ Chunked \in [1..Chunks -> Octets]
         /\ GetNumber = FromBytes(IF param.order = "big" THEN Chunked ELSE Reverse(Chunked))
<1>1. /\ param.start \in Nat /\ param.length \in Int
      /\ InAnswer(param.start, param.length) /\ param.length <= 32 /\ param.length \notin 17..24
  BY DEF ParamTyped, Readable
<1>2. Chunks \in 1..4 /\ Chunks # 3 /\ \A i \in 1..Chunks : Chunk(i) \in Octets
  BY <1>1, ChunkIs
<1>3. GetNumber = FromBytes(IF param.order = "big" THEN Chunked ELSE Reverse(Chunked))
  <2>1. param.length > 0
    BY <1>1 DEF InAnswer
  <2>3. param.length \in 0..32
    <3>1. PICK n \in Int : n = param.length
      BY <1>1
    <3>2. n > 0 /\ n <= 32
      BY <1>1, <2>1, <3>1
    <3>3. n \in 0..32
      BY <3>2
    <3> QED
      BY <3>1, <3>3
  <2>2. ~(param.length \notin 0..32 \/ ~InAnswer(param.start, param.length) \/ Chunks = 3)
    BY <1>1, <1>2, <2>3
  <2> QED
    BY <2>2 DEF GetNumber, Chunked
<1>4. Chunked \in [1..Chunks -> Octets]
  BY <1>2 DEF Chunked
<1> QED
  BY <1>2, <1>3, <1>4

\* What is read is no error, and zero exactly if all its bits are.
LEMMA GetNumberIs ==
  ASSUME answer \in Seq(Octets), ParamTyped
  PROVE  /\ Readable => /\ IsU32(GetNumber)
                        /\ GetNumber > 0 <=> \E k \in param.start..param.start + param.length - 1 : Bit(k) = 1
         /\ ~Readable => GetNumber = NotRead
<1>1. ASSUME Readable
      PROVE  /\ IsU32(GetNumber)
             /\ GetNumber > 0 <=> \E k \in param.start..param.start + param.length - 1 : Bit(k) = 1
  <2>1. PICK c \in {1, 2, 4} : c = Chunks
    BY <1>1, NumberOfChunks
  <2>2. PICK l \in [1..c -> Octets] : l = Chunked
    BY <1>1, <2>1, NumberOfChunks
  <2>3. PICK b : b = IF param.order = "big" THEN l ELSE Reverse(l)
    OBVIOUS
  <2>4. c \in 1..4
    OBVIOUS
  <2>5. b \in [1..c -> Octets] /\ ((\E i \in 1..c : b[i] > 0) <=> (\E i \in 1..c : l[i] > 0))
    <3>1. CASE param.order = "big"
      BY <2>3, <3>1
    <3>2. CASE param.order # "big"
      BY <2>3, <2>4, <3>2, ReverseIs
    <3> QED
      BY <3>1, <3>2
  <2>6. GetNumber = FromBytes(b)
    BY <1>1, <2>2, <2>3, NumberOfChunks
  <2>7. IsU32(FromBytes(b)) /\ (FromBytes(b) > 0 <=> \E i \in 1..c : b[i] > 0)
    BY <2>5, NumberOfBytes
  <2>8. (\E i \in 1..c : l[i] > 0) <=> (\E i \in 1..Chunks : Chunk(i) > 0)
    BY <2>1, <2>2 DEF Chunked
  <2>9. (\E i \in 1..Chunks : Chunk(i) > 0)
          <=> (\E k \in param.start..param.start + param.length - 1 : Bit(k) = 1)
    BY <1>1, ChunkIs DEF ParamTyped, Readable
  <2> QED
    BY <2>5, <2>6, <2>7, <2>8, <2>9
<1>2. ASSUME ~Readable
      PROVE  GetNumber = NotRead
  <2>1. CASE param.length \notin 0..32 \/ ~InAnswer(param.start, param.length)
    BY <2>1 DEF GetNumber
  <2>2. CASE param.length \in 0..32 /\ InAnswer(param.start, param.length)
    <3>3. param.length <= 32
      <4>1. PICK n \in 0..32 : n = param.length
        BY <2>2
      <4>2. n <= 32
        OBVIOUS
      <4> QED
        BY <4>1, <4>2
    <3>1. param.length <= 32 /\ param.length \in 17..24
      BY <1>2, <2>2, <3>3 DEF Readable
    <3>2. Chunks = 3
      BY <2>2, <3>1, ChunkIs DEF ParamTyped
    <3> QED
      BY <3>2 DEF GetNumber
  <2> QED
    BY <2>1, <2>2
<1> QED
  BY <1>1, <1>2

\* Up to eight bits are read as they are.
LEMMA NarrowNumber ==
  ASSUME answer \in Seq(Octets), ParamTyped, Readable, param.length <= 8
  PROVE  GetNumber = Value(param.start, param.length)
<1>1. Chunks = 1
  BY ChunkIs DEF ParamTyped, Readable
<1>2. PICK l \in [1..1 -> Octets] : l = Chunked
  BY <1>1, NumberOfChunks
<1>3. l[1] = Value(param.start, param.length)
  <2>1. l[1] = Chunk(1)
    BY <1>1, <1>2 DEF Chunked
  <2>2. PICK s \in Nat, n \in Int : s = param.start /\ n = param.length /\ n <= 8
    BY DEF ParamTyped
  <2>3. s + 8 * (1 - 1) = s /\ Least(8, s + n - s) = n
    BY <2>2 DEF Least
  <2> QED
    BY <2>1, <2>2, <2>3 DEF Chunk
<1>4. Reverse(l) \in [1..1 -> Octets] /\ Reverse(l)[1] = l[1]
  BY ReverseIs
<1>5. \A b \in [1..1 -> Octets] : FromBytes(b) = b[1]
  <2> TAKE b \in [1..1 -> Octets]
  <2>1. Len(b) = 1
    OBVIOUS
  <2> QED
    BY <2>1 DEF FromBytes
<1>6. FromBytes(l) = l[1] /\ FromBytes(Reverse(l)) = l[1]
  BY <1>4, <1>5
<1> QED
  BY <1>2, <1>3, <1>6, NumberOfChunks

LEMMA NarrowBound ==
  ASSUME answer \in Seq(Octets), ParamTyped, Readable, param.length <= 8
  PROVE  GetNumber \in 0..255
<1>1. Chunks = 1
  BY ChunkIs DEF ParamTyped, Readable
<1>2. PICK l \in [1..1 -> Octets] : l = Chunked
  BY <1>1, NumberOfChunks
<1>3. l[1] \in Octets /\ Reverse(l) \in [1..1 -> Octets]
  BY ReverseIs
<1>4. \A b \in [1..1 -> Octets] : FromBytes(b) \in Octets
  <2> TAKE b \in [1..1 -> Octets]
  <2>1. Len(b) = 1 /\ b[1] \in Octets
    OBVIOUS
  <2> QED
    BY <2>1 DEF FromBytes
<1>5. FromBytes(l) \in Octets /\ FromBytes(Reverse(l)) \in Octets
  BY <1>3, <1>4
<1> QED
  BY <1>2, <1>5, NumberOfChunks DEF Octets

\* Whole bytes are the answer's bytes.
LEMMA WholeNumber ==
  ASSUME answer \in Seq(Octets), ParamTyped, Readable, param.start % 8 = 0, param.length % 8 = 0
  PROVE  LET first == StartByte + 1
             bytes == SubSeq(answer, first, first + (param.length \div 8) - 1)
         IN  GetNumber = FromBytes(IF param.order = "big" THEN bytes ELSE Reverse(bytes))
<1>1. PICK s \in Nat, n \in 1..32 : s = param.start /\ n = param.length
  <2>1. PICK s \in Nat, n \in Int : s = param.start /\ n = param.length
    BY DEF ParamTyped
  <2>2. n > 0 /\ n <= 32
    BY <2>1 DEF Readable, InAnswer
  <2>3. n \in 1..32
    BY <2>2
  <2> QED
    BY <2>1, <2>3
<1>2. s + n <= 8 * Len(answer) /\ Len(answer) \in Nat
  BY <1>1 DEF Readable, InAnswer, AnswerBits
<1>0. s % 8 = 0 /\ n % 8 = 0
  BY <1>1
<1>3. PICK a \in Nat : a = s \div 8 /\ s = 8 * a
  <2>1. s \div 8 \in Nat /\ s = 8 * (s \div 8)
    BY <1>0
  <2> QED
    BY <2>1
<1>4. PICK c \in 1..4 : c = n \div 8 /\ n = 8 * c
  <2>1. n \div 8 \in 1..4 /\ n = 8 * (n \div 8)
    BY <1>0
  <2> QED
    BY <2>1
<1>5. Chunks = c
  <2>1. /\ (8 + 7) \div 8 = 1 /\ (16 + 7) \div 8 = 2
        /\ (24 + 7) \div 8 = 3 /\ (32 + 7) \div 8 = 4
    OBVIOUS
  <2>2. (n + 7) \div 8 = c
    BY <1>4, <2>1
  <2> QED
    BY <1>1, <2>2 DEF Chunks
<1>6. a + c <= Len(answer)
  BY <1>2, <1>3, <1>4
<1>7. ASSUME NEW i \in 1..c
      PROVE  Chunk(i) = answer[a + i]
  <2>1. PICK j \in Nat : j = a + i - 1
    OBVIOUS
  <2>2. j < Len(answer) /\ j + 1 = a + i
    BY <1>6, <2>1
  <2>3. s + 8 * (i - 1) = 8 * j
    BY <1>3, <2>1
  <2>4. Least(8, s + n - 8 * j) = 8
    BY <1>3, <1>4, <2>1 DEF Least
  <2>5. Chunk(i) = Value(8 * j, 8)
    BY <1>1, <2>3, <2>4 DEF Chunk
  <2> QED
    BY <2>2, <2>5, WholeByte
<1>8. PICK l : l = SubSeq(answer, a + 1, (a + 1) + c - 1)
  OBVIOUS
<1>9. l = [i \in 1..c |-> answer[a + i]]
  <2>1. (a + 1) + c - 1 = a + c
    OBVIOUS
  <2>2. l = SubSeq(answer, a + 1, a + c)
    BY <1>8, <2>1
  <2>3. \A i \in a + 1..a + c : answer[i] \in Octets
    BY <1>2, <1>6
  <2>4. /\ l \in Seq(Octets)
        /\ Len(l) = IF a + 1 <= a + c THEN (a + c) - (a + 1) + 1 ELSE 0
        /\ \A i \in 1..(a + c) - (a + 1) + 1 : l[i] = answer[(a + 1) + i - 1]
    BY <2>2, <2>3, SubSeqProperties
  <2>5. a + 1 <= a + c /\ (a + c) - (a + 1) + 1 = c
    OBVIOUS
  <2>8. \A i \in 1..c : (a + 1) + i - 1 = a + i
    OBVIOUS
  <2>9. Len(l) = c /\ \A i \in 1..c : l[i] = answer[(a + 1) + i - 1]
    BY <2>4, <2>5, Zenon
  <2>6. Len(l) = c /\ \A i \in 1..c : l[i] = answer[a + i]
    BY <2>8, <2>9
  <2>7. l = [i \in 1..Len(l) |-> l[i]]
    BY <2>4
  <2> QED
    BY <2>6, <2>7
<1>10. Chunked = l
  BY <1>5, <1>7, <1>9 DEF Chunked
<1>11. StartByte = a /\ param.length \div 8 = c
  BY <1>1, <1>3, <1>4 DEF StartByte
<1>12. GetNumber = FromBytes(IF param.order = "big" THEN l ELSE Reverse(l))
  BY <1>10, NumberOfChunks
<1> QED
  BY <1>8, <1>11, <1>12
-----------------------------------------------------------------------------
\* What 32 bits hold has a distance between the f32s around it.
LEMMA SpacingIs ==
  ASSUME NEW n, IsU32(n)
  PROVE  /\ Spacing(n) \in {1, 2, 4, 8, 16, 32, 64, 128, 256}
         /\ n \div Spacing(n) < F32Exact
         /\ Spacing(n) = 1 \/ F32Exact \div 2 <= n \div Spacing(n)
<1>0. n \in Nat
  BY SMT DEF IsU32
<1>1. \/ n \div 1 < F32Exact
      \/ n \div 2 < F32Exact /\ F32Exact \div 2 <= n \div 2
      \/ n \div 4 < F32Exact /\ F32Exact \div 2 <= n \div 4
      \/ n \div 8 < F32Exact /\ F32Exact \div 2 <= n \div 8
      \/ n \div 16 < F32Exact /\ F32Exact \div 2 <= n \div 16
      \/ n \div 32 < F32Exact /\ F32Exact \div 2 <= n \div 32
      \/ n \div 64 < F32Exact /\ F32Exact \div 2 <= n \div 64
      \/ n \div 128 < F32Exact /\ F32Exact \div 2 <= n \div 128
      \/ n \div 256 < F32Exact /\ F32Exact \div 2 <= n \div 256
  BY <1>0, SMTT(30) DEF IsU32, F32Exact
<1>2. \E u \in {1, 2, 4, 8, 16, 32, 64, 128, 256} :
        n \div u < F32Exact /\ (u = 1 \/ F32Exact \div 2 <= n \div u)
  BY <1>1, SMT
<1> QED
  BY <1>2, Zenon DEF Spacing

\* The f32 is as near as 24 bits allow.
LEMMA AsF32Is ==
  ASSUME NEW n, IsU32(n)
  PROVE  /\ AsF32(n) \in Nat
         /\ AsF32(n) - n <= n \div F32Exact /\ n - AsF32(n) <= n \div F32Exact
         /\ n < F32Exact => AsF32(n) = n
<1> DEFINE Low(u) == n - (n % u)
           IsNear(f) == f \in Nat /\ f - n <= n \div F32Exact /\ n - f <= n \div F32Exact
           BothNear(u) == /\ 2 * (n % u) <= u => IsNear(Low(u))
                          /\ 2 * (n % u) >= u => IsNear(Low(u) + u)
<1>0. n \in Nat
  BY SMT DEF IsU32
<1>1. Spacing(n) \in {1, 2, 4, 8, 16, 32, 64, 128, 256}
        /\ (Spacing(n) = 1 \/ F32Exact \div 2 <= n \div Spacing(n))
  BY SpacingIs
<1>2. PICK u \in {1, 2, 4, 8, 16, 32, 64, 128, 256} :
        u = Spacing(n) /\ (u = 1 \/ F32Exact \div 2 <= n \div u)
  BY <1>1, Zenon
<1>3. BothNear(u)
  <2>1. CASE u = 1
    BY <1>0, <2>1, SMT DEF F32Exact
  <2>2. CASE u = 2
    BY <1>0, <1>2, <2>2, SMT DEF F32Exact
  <2>3. CASE u = 4
    BY <1>0, <1>2, <2>3, SMT DEF F32Exact
  <2>4. CASE u = 8
    BY <1>0, <1>2, <2>4, SMT DEF F32Exact
  <2>5. CASE u = 16
    BY <1>0, <1>2, <2>5, SMT DEF F32Exact
  <2>6. CASE u = 32
    BY <1>0, <1>2, <2>6, SMT DEF F32Exact
  <2>7. CASE u = 64
    BY <1>0, <1>2, <2>7, SMT DEF F32Exact
  <2>8. CASE u = 128
    BY <1>0, <1>2, <2>8, SMT DEF F32Exact
  <2>9. CASE u = 256
    BY <1>0, <1>2, <2>9, SMT DEF F32Exact
  <2> QED
    BY <2>1, <2>2, <2>3, <2>4, <2>5, <2>6, <2>7, <2>8, <2>9
<1>4. AsF32(n) = IF 2 * (n % u) < u \/ (2 * (n % u) = u /\ (n \div u) % 2 = 0)
                 THEN Low(u) ELSE Low(u) + u
  BY <1>2 DEF AsF32
<1>5. n % u \in Nat /\ u \in Nat
  BY <1>0
<1>6. IsNear(AsF32(n))
  <2>1. CASE 2 * (n % u) < u \/ (2 * (n % u) = u /\ (n \div u) % 2 = 0)
    <3>1. 2 * (n % u) <= u /\ AsF32(n) = Low(u)
      BY <1>4, <1>5, <2>1
    <3> HIDE DEF Low, IsNear
    <3> QED
      BY <1>3, <3>1
  <2>2. CASE ~(2 * (n % u) < u \/ (2 * (n % u) = u /\ (n \div u) % 2 = 0))
    <3>1. 2 * (n % u) >= u /\ AsF32(n) = Low(u) + u
      BY <1>4, <1>5, <2>2
    <3> HIDE DEF Low, IsNear
    <3> QED
      BY <1>3, <3>1
  <2> QED
    BY <2>1, <2>2
<1>7. n < F32Exact => AsF32(n) = n
  BY <1>0, <1>6, SMT DEF F32Exact
<1> QED
  BY <1>6, <1>7

(* A text or number that is shown is the parameter's of this answer, and   *)
(* the parameter is one that can be shown.                                 *)
EndPanics == param.format \in Bytewise /\ EndOverflows

Seen ==
  /\ answer \in Seq(Octets) /\ ParamTyped
  /\ text \in {"none", DecodeToString} \/ (text = "panic" /\ EndPanics)
  /\ number \in {NotAsked, DecodeToNumber}
  /\ number # NotAsked => CanPlot

\* What lies in the answer has a text, whatever it is but UTF-16.
LEMMA TextOf ==
  ASSUME answer \in Seq(Octets), ParamTyped
  PROVE  /\ DecodeToString = "panic" =>
              \/ param.format = "Utf16"
              \/ param.format \in Bytewise /\ ~InAnswer(param.start, param.length)
         /\ InAnswer(param.start, param.length) /\ param.format \notin {"Utf16"} \cup Unimplemented =>
              \/ DecodeToString \in {"ok", "undefined"}
              \/ DecodeToString = "out of range" /\ ~Readable
<1>1. PICK s \in Nat, n \in Int, l \in Nat : s = param.start /\ n = param.length /\ l = Len(answer)
  BY DEF ParamTyped
<1>2. ASSUME InAnswer(param.start, param.length)
      PROVE  HexSlice = "ok" /\ BinaryText = "ok" /\ Utf8Text = "ok"
  <2>1. n > 0 /\ s + n <= 8 * l
    BY <1>1, <1>2 DEF InAnswer, AnswerBits
  <2>2. s \div 8 <= (s + n) \div 8 /\ (s + n) \div 8 <= l /\ s \div 8 < l
    BY <2>1
  <2>3. StartByte = s \div 8 /\ EndByte = (s + n) \div 8
    BY <1>1, <2>1 DEF StartByte, EndByte, EndBit
  <2> QED
    BY <1>1, <2>2, <2>3 DEF HexSlice, BinaryText, Utf8Text, Least
<1>3. NumberText \in {"ok", "undefined"} \/ (NumberText = "out of range" /\ ~Readable)
  <2>1. GetNumber = NotRead => ~Readable
    BY GetNumberIs, SMT DEF NotRead, IsU32
  <2> QED
    BY <2>1 DEF NumberText
<1>4. \/ param.format = "HexDump" /\ DecodeToString = HexSlice
      \/ param.format = "Binary" /\ DecodeToString = BinaryText
      \/ param.format = "Utf8" /\ DecodeToString = Utf8Text
      \/ param.format = "Utf16"
      \/ param.format \in Unimplemented /\ DecodeToString = "not implemented"
      \/ DecodeToString = NumberText
  BY DEF DecodeToString, Unimplemented
<1> QED
  BY <1>2, <1>3, <1>4 DEF Bytewise

\* What is plotted is the number, if it can be read, as an f32.
LEMMA NumberOf ==
  ASSUME answer \in Seq(Octets), ParamTyped, CanPlot
  PROVE  /\ ~Readable => DecodeToNumber = NotRead
         /\ Readable => /\ DecodeToNumber \in Nat
                        /\ param.format # "Bool" => DecodeToNumber = AsF32(GetNumber)
                        /\ param.format = "Bool" =>
                             DecodeToNumber = (IF \E k \in param.start..param.start + param.length - 1 : Bit(k) = 1 THEN 1 ELSE 0)
<1>1. DecodeToNumber = IF GetNumber = NotRead THEN NotRead
                       ELSE IF param.format = "Bool" THEN Least(1, GetNumber) ELSE AsF32(GetNumber)
  <2>1. param.format \notin Unimplemented /\ param.format \notin Bytewise \cup {"Table"}
    BY DEF CanPlot, Unimplemented, Bytewise
  <2> QED
    BY <2>1 DEF DecodeToNumber
<1>2. CASE ~Readable
  BY <1>1, <1>2, GetNumberIs
<1>3. CASE Readable
  <2>1. IsU32(GetNumber)
    BY <1>3, GetNumberIs
  <2>2. GetNumber # NotRead /\ GetNumber \in Nat
    BY <2>1, SMT DEF NotRead, IsU32
  <2>3. CASE param.format # "Bool"
    BY <1>1, <1>3, <2>1, <2>2, <2>3, AsF32Is
  <2>4. CASE param.format = "Bool"
    <3>1. Least(1, GetNumber) = IF GetNumber > 0 THEN 1 ELSE 0
      BY <2>2 DEF Least
    <3>2. DecodeToNumber = IF GetNumber > 0 THEN 1 ELSE 0
      BY <1>1, <2>2, <2>4, <3>1
    <3> QED
      BY <1>3, <2>4, <3>2, GetNumberIs
  <2> QED
    BY <2>3, <2>4
<1> QED
  BY <1>2, <1>3

LEMMA SeenShown ==
  ASSUME Seen
  PROVE  AnswersShown
<1>1. answer \in Seq(Octets) /\ ParamTyped
  BY DEF Seen
<1>2. PlottedIsNumber
  <2>1. CASE number = NotAsked
    BY <2>1 DEF PlottedIsNumber
  <2>2. CASE number # NotAsked
    <3>1. CanPlot /\ number = DecodeToNumber
      BY <2>2 DEF Seen
    <3> QED
      BY <1>1, <3>1, NumberOf DEF PlottedIsNumber
  <2> QED
    BY <2>1, <2>2
<1>3. TextPanicsOnlyShort
  <2>1. EndPanics => param.format \in Bytewise /\ ~InAnswer(param.start, param.length)
    BY <1>1 DEF EndPanics, EndOverflows, InAnswer, ParamTyped
  <2> QED
    BY <1>1, <2>1, TextOf DEF Seen, TextPanicsOnlyShort
<1>4. NumbersReadRight
  <2> DEFINE first == StartByte + 1
             bytes == SubSeq(answer, first, first + (param.length \div 8) - 1)
             ordered == IF param.order = "big" THEN bytes ELSE Reverse(bytes)
  <2> SUFFICES ASSUME number # NotAsked, InAnswer(param.start, param.length), param.length <= 32
               PROVE  /\ (number = NotRead) = (param.length \in 17..24)
                      /\ param.format = "Bool" /\ number # NotRead =>
                           number = (IF \E k \in param.start..param.start + param.length - 1 : Bit(k) = 1 THEN 1 ELSE 0)
                      /\ param.format # "Bool" /\ number # NotRead =>
                           /\ param.start % 8 = 0 /\ param.length % 8 = 0 => NearTo(FromBytes(ordered))
                           /\ param.length <= 8 => number = Value(param.start, param.length)
    BY DEF NumbersReadRight
  <2>1. CanPlot /\ number = DecodeToNumber
    BY DEF Seen
  <2>2. Readable <=> param.length \notin 17..24
    BY DEF Readable
  <2>3. (number = NotRead) <=> ~Readable
    BY <1>1, <2>1, NumberOf DEF NotRead
  <2>4. param.format = "Bool" /\ number # NotRead =>
           number = (IF \E k \in param.start..param.start + param.length - 1 : Bit(k) = 1 THEN 1 ELSE 0)
    BY <1>1, <2>1, <2>3, NumberOf
  <2>5. ASSUME param.format # "Bool", number # NotRead
        PROVE  /\ number = AsF32(GetNumber) /\ Readable
               /\ IsU32(GetNumber)
    BY <1>1, <2>1, <2>3, <2>5, NumberOf, GetNumberIs
  <2>6. ASSUME param.format # "Bool", number # NotRead, param.start % 8 = 0, param.length % 8 = 0
        PROVE  NearTo(FromBytes(ordered))
    <3>1. GetNumber = FromBytes(ordered)
      BY <1>1, <2>5, <2>6, WholeNumber
    <3> HIDE DEF first, bytes, ordered
    <3>2. NearTo(GetNumber)
      BY <2>5, <2>6, AsF32Is DEF NearTo
    <3> QED
      BY <3>1, <3>2
  <2>7. ASSUME param.format # "Bool", number # NotRead, param.length <= 8
        PROVE  number = Value(param.start, param.length)
    <3>1. GetNumber = Value(param.start, param.length)
      BY <1>1, <2>5, <2>7, NarrowNumber
    <3>2. GetNumber < F32Exact
      <4>1. PICK k \in 0..255 : k = GetNumber
        BY <1>1, <2>5, <2>7, NarrowBound
      <4>2. k < F32Exact
        BY <4>1, SMT DEF F32Exact
      <4> QED
        BY <4>1, <4>2
    <3> QED
      BY <2>5, <2>7, <3>1, <3>2, AsF32Is
  <2>8. (number = NotRead) = (param.length \in 17..24)
    <3>1. (number = NotRead) \in BOOLEAN /\ (param.length \in 17..24) \in BOOLEAN
      OBVIOUS
    <3>2. (number = NotRead) <=> (param.length \in 17..24)
      BY <2>2, <2>3, Zenon
    <3> QED
      BY <3>2
  <2> HIDE DEF first, bytes, ordered
  <2> QED
    BY <2>4, <2>6, <2>7, <2>8
<1> QED
  BY <1>2, <1>3, <1>4 DEF AnswersShown

LEMMA SameShown ==
  ASSUME param' = param, answer' = answer
  PROVE  /\ DecodeToString' = DecodeToString /\ DecodeToNumber' = DecodeToNumber
         /\ CanPlot' = CanPlot /\ ParamTyped' = ParamTyped /\ EndPanics' = EndPanics
BY DEF DecodeToString, DecodeToNumber, CanPlot, ParamTyped, HexSlice, BinaryText, Utf8Text, Utf16Text,
   NumberText, Named, GetNumber, Chunks, Chunk, Value, BitOf, Bit, InAnswer, AnswerBits, StartByte, EndByte,
   EndBit, EndPanics, EndOverflows

LEMMA SeenStep ==
  ASSUME Seen, DecodeNext
  PROVE  Seen'
<1>1. param' = param /\ answer' = answer
  BY DEF DecodeNext, Show, Plot
<1>2. /\ DecodeToString' = DecodeToString /\ DecodeToNumber' = DecodeToNumber
      /\ CanPlot' = CanPlot /\ ParamTyped' = ParamTyped /\ EndPanics' = EndPanics
  BY <1>1, SameShown
<1>3. CASE Show
  BY <1>1, <1>2, <1>3 DEF Seen, Show, EndPanics
<1>4. CASE Plot
  BY <1>1, <1>2, <1>4 DEF Seen, Plot
<1> QED
  BY <1>3, <1>4 DEF DecodeNext

(* An answer's parameters are shown and plotted as what they are, of any   *)
(* answer, whatever the schema says of the parameter.                      *)
THEOREM ShownRight == DecodeSpec => []AnswersShown
<1>1. DecodeInit => Seen
  BY DecodeAssumption DEF DecodeInit, Seen, ParamTyped, Octets
<1>2. Seen /\ [DecodeNext]_decodeVars => Seen'
  <2>1. ASSUME Seen, UNCHANGED decodeVars
        PROVE  Seen'
    <3>1. param' = param /\ answer' = answer /\ text' = text /\ number' = number
      BY <2>1 DEF decodeVars
    <3>2. /\ DecodeToString' = DecodeToString /\ DecodeToNumber' = DecodeToNumber
          /\ CanPlot' = CanPlot /\ ParamTyped' = ParamTyped /\ EndPanics' = EndPanics
      BY <3>1, SameShown
    <3> QED
      BY <2>1, <3>1, <3>2 DEF Seen
  <2> QED
    BY <2>1, SeenStep
<1>3. Seen => AnswersShown
  BY SeenShown
<1> QED
  BY <1>1, <1>2, <1>3, PTL DEF DecodeSpec
-----------------------------------------------------------------------------
ShownKinds == {"Bool", "Identical", "Binary", "Table", "Linear", "HexDump", "Utf8"}

FormatsInv ==
  /\ prep \in Preps /\ size \in Int
  /\ native = <<>> \/ \E p \in Presentations : native = <<p>>
  /\ convert \in {"none", "new", "sized", "done", "dropped", "error", "panicked"}
  /\ convert # "done" => text = "none" /\ number = NotAsked
  /\ convert = "done" => param.length = size /\ param.format \in ShownKinds
  /\ ConvertPanicsOnly /\ Seen

\* A preparation with a presentation has a kind of format, none, or panics on
\* one bit with one name.
LEMMA FormatOf ==
  ASSUME NEW p \in Presentations, NEW n \in Int
  PROVE  /\ Format(p, n) \in ShownKinds \cup {"none", "panic"}
         /\ Format(p, n) = "panic" => n = 1 /\ p.scales = 1
<1>2. p.scales \in Nat
  BY FormatsAssumption
<1>3. PlainFormat(p) \in {"Identical", "Linear", "HexDump", "Utf8", "none"}
  <2>1. DataType(p) \in {"text", "scale", "dump", "number", "unknown"}
    BY DEF DataType
  <2> QED
    BY <2>1 DEF PlainFormat
<1>4. CASE IsFlag(p, n) /\ IsEnum(p) /\ p.scales = 1
  <2>1. n = 1
    BY <1>4 DEF IsFlag
  <2>2. Format(p, n) = "panic"
    BY <1>4 DEF Format
  <2> QED
    BY <1>4, <2>1, <2>2
<1>5. CASE ~(IsFlag(p, n) /\ IsEnum(p) /\ p.scales = 1)
  <2>1. Format(p, n) \in ShownKinds \cup {"none"}
    <3>1. CASE IsFlag(p, n) /\ p.scales = 0
      BY <3>1 DEF Format, ShownKinds
    <3>2. CASE IsFlag(p, n) /\ p.scales > 0 /\ ~IsEnum(p)
      BY <3>2 DEF Format, ShownKinds
    <3>3. CASE IsFlag(p, n) /\ IsEnum(p) /\ p.scales > 1
      BY <3>3 DEF Format, ShownKinds
    <3>4. CASE ~IsFlag(p, n) /\ IsEnum(p) /\ p.scales > 0
      BY <3>4 DEF Format, ShownKinds
    <3>5. CASE ~IsFlag(p, n) /\ ~(IsEnum(p) /\ p.scales > 0)
      <4>1. Format(p, n) = PlainFormat(p)
        BY <3>5 DEF Format
      <4> QED
        BY <1>3, <4>1 DEF ShownKinds
    <3> QED
      BY <1>2, <1>5, <3>1, <3>2, <3>3, <3>4, <3>5
  <2> QED
    BY <2>1 DEF ShownKinds
<1> QED
  BY <1>4, <1>5

LEMMA IntSizeIs ==
  ASSUME NEW l \in Nat, ~(l > 6)
  PROVE  IntSizes[l + 1] \in Nat
<1>1. l = 0 \/ l = 1 \/ l = 2 \/ l = 3 \/ l = 4 \/ l = 5 \/ l = 6
  OBVIOUS
<1> QED
  BY <1>1 DEF IntSizes

\* What measuring leaves, whatever the size: nothing has been shown yet.
LEMMA Measured ==
  ASSUME FormatsInv, Unsized, size' \in Int,
         native' = <<>> \/ \E p \in Presentations : native' = <<p>>,
         convert' \in {"sized", "error"} \/ (convert' = "panicked" /\ ConvertPanicsOnly')
  PROVE  FormatsInv'
<1>1. prep' = prep /\ param' = param /\ answer' = answer /\ text' = text /\ number' = number
  BY DEF Unsized, decodeVars
<1>2. text = "none" /\ number = NotAsked /\ Seen /\ prep \in Preps
  BY DEF FormatsInv, Unsized
<1>3. Seen'
  BY <1>1, <1>2, SameShown DEF Seen
<1>4. ConvertPanicsOnly'
  BY DEF ConvertPanicsOnly
<1> QED
  BY <1>1, <1>2, <1>3, <1>4 DEF FormatsInv

LEMMA RetrieveKeeps ==
  ASSUME FormatsInv, MeasureRetrieve
  PROVE  FormatsInv'
<1>1. Unsized /\ prep.l \in Nat /\ prep.width \in Int /\ size \in Int
  BY FormatsAssumption DEF MeasureRetrieve, FormatsInv
<1>2. CASE Fails("error")
  BY <1>1, <1>2, Measured DEF Fails, FormatsInv
<1>3. ASSUME NEW n \in Int, Sized(n)
      PROVE  FormatsInv'
  BY <1>1, <1>3, Measured DEF Sized, FormatsInv
<1>4. Fails("error") \/ \E n \in Int : Sized(n)
  <2>1. CASE prep.l > 6
    BY <2>1 DEF MeasureRetrieve
  <2>2. CASE ~(prep.l > 6) /\ prep.h = "320"
    BY <1>1, <2>2, IntSizeIs DEF MeasureRetrieve, IntSize
  <2>3. CASE ~(prep.l > 6) /\ prep.h = "330"
    BY <1>1, <2>3 DEF MeasureRetrieve
  <2>4. CASE ~(prep.l > 6) /\ prep.h # "320" /\ prep.h # "330"
    BY <2>4 DEF MeasureRetrieve
  <2> QED
    BY <2>1, <2>2, <2>3, <2>4
<1> QED
  BY <1>2, <1>3, <1>4

LEMMA NativeKeeps ==
  ASSUME FormatsInv, MeasureNative
  PROVE  FormatsInv'
<1>1. /\ Unsized /\ prep.system = -1 /\ prep.pool \in Nat /\ size \in Int /\ prep' = prep
      /\ native = <<>> \/ \E p \in Presentations : native = <<p>>
  BY FormatsAssumption DEF MeasureNative, FormatsInv, Unsized
<1>2. CASE Fails("error")
  BY <1>1, <1>2, Measured DEF Fails
<1>3. CASE /\ Fails("panicked")
           /\ \/ prep.pool >= Len(Pool)
              \/ BitsOverflow(LengthOf(Pool[prep.pool + 1]))
  <2>1. ConvertPanicsOnly'
    BY <1>1, <1>3 DEF ConvertPanicsOnly, Pool
  <2> QED
    BY <1>1, <1>3, <2>1, Measured DEF Fails
<1>4. CASE /\ ~(prep.pool >= Len(Pool))
           /\ LET p == Pool[prep.pool + 1]
                  n == LengthOf(p)
              IN  /\ native' = <<p>> /\ convert' = "sized"
                  /\ size' = IF p.type1c = 0 THEN InBits(n) ELSE n
  <2>1. Pool \in Seq(Presentations)
    BY FormatsAssumption DEF Pool
  <2>2. PICK p \in Presentations : p = Pool[prep.pool + 1]
    BY <1>1, <1>4, <2>1
  <2>3. PICK n \in Int : n = LengthOf(p)
    BY FormatsAssumption DEF LengthOf
  <2>4. InBits(n) \in Int
    BY DEF InBits
  <2>5. size' \in Int /\ native' = <<p>> /\ convert' = "sized"
    BY <1>4, <2>2, <2>3, <2>4
  <2> QED
    BY <1>1, <2>5, Measured
<1> QED
  <2>1. CASE prep.e \notin {"8000", "2000"}
    BY <1>2, <2>1 DEF MeasureNative
  <2>2. CASE prep.e \in {"8000", "2000"} /\ prep.pool >= Len(Pool)
    BY <1>3, <2>2 DEF MeasureNative
  <2>3. CASE prep.e \in {"8000", "2000"} /\ ~(prep.pool >= Len(Pool))
    BY <1>3, <1>4, <2>3 DEF MeasureNative
  <2> QED
    BY <2>1, <2>2, <2>3

LEMMA SystemKeeps ==
  ASSUME FormatsInv, MeasureSystem
  PROVE  FormatsInv'
<1>1. /\ Unsized /\ size \in Int /\ prep' = prep
      /\ prep.l \in Nat /\ prep.width \in Int /\ prep.bit \in Nat /\ prep.bytes \in Nat
  BY FormatsAssumption DEF MeasureSystem, FormatsInv, Unsized
<1>2. CASE Fails("error")
  BY <1>1, <1>2, Measured DEF Fails, FormatsInv
<1>3. CASE prep.system = 16 /\ BytesLeft < 0 /\ Fails("panicked")
  <2>1. ConvertPanicsOnly'
    BY <1>1, <1>3 DEF ConvertPanicsOnly, BytesLeft
  <2> QED
    BY <1>1, <1>3, <2>1, Measured DEF Fails, FormatsInv
<1>4. ASSUME NEW n \in Int, Sized(n)
      PROVE  FormatsInv'
  BY <1>1, <1>4, Measured DEF Sized, FormatsInv
<1>5. PICK bytes \in Nat : bytes = prep.bytes
  BY <1>1
<1>6. CASE prep.h = "410" /\ prep.system = 16
  <2>1. Sized(BytesLeft * 8) \/ (BytesLeft < 0 /\ Fails("panicked"))
    BY <1>6 DEF MeasureSystem
  <2>2. BytesLeft * 8 \in Int
    BY <1>1 DEF BytesLeft
  <2> QED
    BY <1>3, <1>4, <1>6, <2>1, <2>2
<1>7. CASE prep.h = "410" /\ prep.system = 33
  <2>1. \E n \in Int : Sized(n)
    <3>1. Sized(CASE prep.ref = "none"   -> 0
                  [] prep.ref = "global" -> prep.bytes
                  [] OTHER               -> prep.bytes * 8)
      BY <1>7 DEF MeasureSystem
    <3>2. bytes * 8 \in Int
      OBVIOUS
    <3>3. CASE prep.ref = "none"
      BY <3>1, <3>3
    <3>4. CASE prep.ref = "global"
      BY <1>5, <3>1, <3>4
    <3>5. CASE prep.ref # "none" /\ prep.ref # "global"
      BY <1>5, <3>1, <3>2, <3>5
    <3> QED
      BY <3>3, <3>4, <3>5
  <2> QED
    BY <1>4, <2>1
<1>8. CASE prep.h = "420"
  BY <1>1, <1>2, <1>4, <1>8, IntSizeIs DEF MeasureSystem, IntSize
<1>9. CASE prep.h = "430"
  BY <1>1, <1>4, <1>9 DEF MeasureSystem
<1>10. CASE ~(prep.h = "410" /\ prep.system \in {16, 33}) /\ prep.h # "420" /\ prep.h # "430"
  BY <1>2, <1>10 DEF MeasureSystem
<1> QED
  BY <1>6, <1>7, <1>8, <1>9, <1>10

LEMMA CreateKeeps ==
  ASSUME FormatsInv, Create
  PROVE  FormatsInv'
<1>1. /\ prep' = prep /\ size' = size /\ native' = native /\ answer' = answer
      /\ text' = text /\ number' = number /\ convert = "sized"
  BY DEF Create
<1>2. text = "none" /\ number = NotAsked /\ Seen /\ prep \in Preps /\ size \in Int
  BY <1>1 DEF FormatsInv
<1>3. CASE native = <<>>
  <2>1. convert' = "dropped" /\ param' = param
    BY <1>3 DEF Create
  <2>2. Seen'
    BY <1>1, <1>2, <2>1, SameShown DEF Seen
  <2> QED
    BY <1>1, <1>2, <1>3, <2>1, <2>2 DEF FormatsInv, ConvertPanicsOnly
<1>4. CASE native # <<>>
  <2>1. PICK p \in Presentations : native = <<p>>
    BY <1>4 DEF FormatsInv
  <2>2. Head(native) = p
    BY <2>1
  <2>3. PICK f : f = Format(p, size)
    OBVIOUS
  <2>4. f \in ShownKinds \cup {"none", "panic"} /\ (f = "panic" => size = 1 /\ p.scales = 1)
    BY <1>2, <2>3, FormatOf
  <2>5. \/ f = "none" /\ convert' = "dropped" /\ param' = param
        \/ f = "panic" /\ convert' = "panicked" /\ param' = param
        \/ PowerOverflows(p, size) /\ convert' = "panicked" /\ param' = param
        \/ /\ f \notin {"none", "panic"} /\ convert' = "done"
           /\ param' = [start |-> prep.bit, length |-> size, order |-> "big",
                        format |-> f, table |-> Head(native).table]
    BY <1>4, <2>2, <2>3 DEF Create
  <2>6. CASE convert' = "dropped" /\ param' = param
    <3>1. Seen'
      BY <1>1, <1>2, <2>6, SameShown DEF Seen
    <3> QED
      BY <1>1, <1>2, <2>1, <2>6, <3>1 DEF FormatsInv, ConvertPanicsOnly
  <2>7. CASE /\ convert' = "panicked" /\ param' = param
             /\ f = "panic" \/ PowerOverflows(p, size)
    <3>1. Seen'
      BY <1>1, <1>2, <2>7, SameShown DEF Seen
    <3>2. ConvertPanicsOnly'
      BY <1>1, <1>4, <2>2, <2>4, <2>7 DEF ConvertPanicsOnly, PowerOverflows
    <3> QED
      BY <1>1, <1>2, <2>1, <2>7, <3>1, <3>2 DEF FormatsInv
  <2>8. CASE /\ f \in ShownKinds /\ convert' = "done"
             /\ param' = [start |-> prep.bit, length |-> size, order |-> "big",
                          format |-> f, table |-> Head(native).table]
    <3>1. prep.bit \in Nat
      BY <1>2, FormatsAssumption
    <3>2. ParamTyped' /\ param'.length = size /\ param'.format = f
      BY <1>2, <2>8, <3>1 DEF ParamTyped
    <3>3. Seen'
      BY <1>1, <1>2, <3>2 DEF Seen
    <3>4. ConvertPanicsOnly'
      BY <2>8 DEF ConvertPanicsOnly
    <3> QED
      BY <1>1, <1>2, <2>1, <2>8, <3>2, <3>3, <3>4 DEF FormatsInv
  <2> QED
    BY <2>4, <2>5, <2>6, <2>7, <2>8
<1> QED
  BY <1>3, <1>4

LEMMA DecodeKeeps ==
  ASSUME FormatsInv, Decode
  PROVE  FormatsInv'
<1>1. prep' = prep /\ size' = size /\ native' = native /\ convert' = convert /\ convert = "done"
  BY DEF Decode
<1>2. param' = param
  BY DEF Decode, DecodeNext, Show, Plot
<1>3. Seen'
  BY SeenStep DEF FormatsInv, Decode
<1> QED
  BY <1>1, <1>2, <1>3 DEF FormatsInv, ConvertPanicsOnly

LEMMA FormatsInvUsable ==
  ASSUME FormatsInv
  PROVE  FormatsUsable
<1>1. AnswersShown /\ ConvertPanicsOnly /\ Seen
  BY SeenShown DEF FormatsInv
<1>2. FormatsTypeOK
  BY DEF FormatsTypeOK, FormatsInv, ShownKinds, Formats
<1>3. ConvertedIsShown
  <2> SUFFICES ASSUME convert = "done", text # "none", InAnswer(param.start, param.length)
               PROVE  \/ text \in {"ok", "undefined"}
                      \/ text = "out of range" /\ (size \in 17..24 \/ size > 32)
    BY DEF ConvertedIsShown
  <2>0. param.length > 0
    BY DEF InAnswer
  <2>5. ~EndPanics
    <3>1. PICK n \in Int : n = param.length
      BY <1>1 DEF Seen, ParamTyped
    <3>2. ~(n < 0)
      BY <2>0, <3>1
    <3> QED
      BY <3>1, <3>2 DEF EndPanics, EndOverflows
  <2>1. text = DecodeToString /\ answer \in Seq(Octets) /\ ParamTyped
    BY <1>1, <2>5 DEF Seen
  <2>2. param.format \notin {"Utf16"} \cup Unimplemented /\ param.length = size /\ size \in Int
    BY DEF FormatsInv, ShownKinds, Unimplemented
  <2>3. text \in {"ok", "undefined"} \/ (text = "out of range" /\ ~Readable)
    BY <2>1, <2>2, TextOf
  <2>4. ~Readable => size \in 17..24 \/ size > 32
    BY <2>0, <2>2 DEF Readable
  <2> QED
    BY <2>3, <2>4
<1> QED
  BY <1>1, <1>2, <1>3 DEF FormatsUsable

(* A file is converted to what the program can show, and what it shows of  *)
(* any parameter is the parameter's value: for every preparation and every *)
(* list of presentations, whatever is answered.                            *)
THEOREM FormatsAreUsable == FormatsSpec => []FormatsUsable
<1>1. FormatsInit => FormatsInv
  <2> SUFFICES ASSUME FormatsInit
               PROVE  FormatsInv
    OBVIOUS
  <2>1. answer \in Seq(Octets) /\ param = NoParam
    BY DecodeAssumption DEF FormatsInit, Octets
  <2>2. ParamTyped
    BY <2>1 DEF NoParam, ParamTyped
  <2>3. Seen
    BY <2>1, <2>2 DEF FormatsInit, Seen
  <2> QED
    BY <2>3 DEF FormatsInit, FormatsInv, ConvertPanicsOnly
<1>2. FormatsInv /\ [FormatsNext]_formatVars => FormatsInv'
  <2>1. ASSUME FormatsInv, UNCHANGED formatVars
        PROVE  FormatsInv'
    <3>1. /\ prep' = prep /\ size' = size /\ native' = native /\ convert' = convert
          /\ param' = param /\ answer' = answer /\ text' = text /\ number' = number
      BY <2>1 DEF formatVars, decodeVars
    <3>2. Seen'
      BY <2>1, <3>1, SameShown DEF FormatsInv, Seen
    <3>3. ConvertPanicsOnly'
      BY <2>1, <3>1 DEF FormatsInv, ConvertPanicsOnly, BytesLeft, Pool
    <3> QED
      BY <2>1, <3>1, <3>2, <3>3 DEF FormatsInv
  <2> QED
    BY <2>1, RetrieveKeeps, NativeKeeps, SystemKeeps, CreateKeeps, DecodeKeeps DEF FormatsNext
<1>3. FormatsInv => FormatsUsable
  BY FormatsInvUsable
<1> QED
  BY <1>1, <1>2, <1>3, PTL DEF FormatsSpec

-----------------------------------------------------------------------------
(* What a variant is linked to.  Lists are made by keeping some places of a *)
(* list (Kept), so the proof is about how many of a set's places come up to *)
(* one of them; an output is counted by the places it has, which gathering  *)
(* moves one to one.                                                        *)

LEMMA SameSize ==
  ASSUME NEW S, NEW T, IsFiniteSet(S), NEW f \in [S -> T],
         \A x, y \in S : f[x] = f[y] => x = y,
         \A t \in T : \E x \in S : f[x] = t
  PROVE  IsFiniteSet(T) /\ Cardinality(T) = Cardinality(S)
<1>1. f \in Bijection(S, T)
  BY DEF Bijection, Injection, Surjection, IsInjective
<1> QED
  BY <1>1, FS_Bijection DEF ExistsBijection

\* Of any two of S one is below the other, with all that is below it.
Nests(S, below) ==
  /\ below \in [S -> SUBSET S]
  /\ \A i \in S : i \notin below[i]
  /\ \A i, j \in S : i # j =>
       \/ i \in below[j] /\ below[i] \subseteq below[j]
       \/ j \in below[i] /\ below[j] \subseteq below[i]

\* How many of S are below a member tells its place among the n.
Ranked(S, below, n) ==
  /\ \A i \in S : Cardinality(below[i]) \in 0..n - 1
  /\ \A i, j \in S : Cardinality(below[i]) = Cardinality(below[j]) => i = j
  /\ \A i, j \in S : i \in below[j] => Cardinality(below[i]) < Cardinality(below[j])
  /\ \A k \in 1..n : \E i \in S : Cardinality(below[i]) = k - 1

\* Where each of S comes after those below it, there is one at every place.
LEMMA RankIs ==
  ASSUME NEW S, IsFiniteSet(S), NEW below, Nests(S, below)
  PROVE  Cardinality(S) \in Nat /\ Ranked(S, below, Cardinality(S))
<1> DEFINE n == Cardinality(S)
           rank == [i \in S |-> Cardinality(below[i]) + 1]
<1>0. /\ below \in [S -> SUBSET S]
      /\ \A i \in S : i \notin below[i]
      /\ \A i, j \in S : i # j =>
           \/ i \in below[j] /\ below[i] \subseteq below[j]
           \/ j \in below[i] /\ below[j] \subseteq below[i]
  BY DEF Nests
<1>1. n \in Nat
  BY FS_CardinalityType
<1>2. \A i \in S : IsFiniteSet(below[i]) /\ Cardinality(below[i]) \in Nat
  BY <1>0, FS_Subset, FS_CardinalityType
<1>3. ASSUME NEW i \in S PROVE Cardinality(below[i]) \in 0..n - 1
  <2>1. Cardinality(below[i]) <= n /\ (n = Cardinality(below[i]) => S = below[i])
    BY <1>0, FS_Subset
  <2>2. Cardinality(below[i]) # n
    BY <1>0, <2>1
  <2> QED
    BY <1>1, <1>2, <2>1, <2>2
<1>4. ASSUME NEW i \in S, NEW j \in S, i \in below[j], i # j
      PROVE Cardinality(below[i]) < Cardinality(below[j])
  <2>1. below[i] \subseteq below[j]
    BY <1>0, <1>4
  <2>2. /\ Cardinality(below[i]) <= Cardinality(below[j])
        /\ Cardinality(below[j]) = Cardinality(below[i]) => below[j] = below[i]
    BY <1>2, <2>1, FS_Subset
  <2> QED
    BY <1>0, <1>2, <1>4, <2>2
<1>5. ASSUME NEW i \in S, NEW j \in S, Cardinality(below[i]) = Cardinality(below[j])
      PROVE i = j
  <2> SUFFICES ASSUME i # j PROVE FALSE
    OBVIOUS
  <2>1. i \in below[j] \/ j \in below[i]
    BY <1>0
  <2> QED
    BY <1>2, <1>4, <1>5, <2>1
<1>6. rank \in [S -> 1..n]
  BY <1>1, <1>3
<1>7. rank \in Injection(S, 1..n)
  BY <1>2, <1>5, <1>6 DEF Injection, IsInjective
<1>8. IsFiniteSet(1..n) /\ Cardinality(1..n) = n
  BY <1>1, FS_Interval
<1>9. rank \in Surjection(S, 1..n)
  <2> HIDE DEF rank
  <2> QED
    BY <1>7, <1>8, FS_Injection
<1>10. ASSUME NEW k \in 1..n PROVE \E i \in S : Cardinality(below[i]) = k - 1
  <2>1. PICK i \in S : rank[i] = k
    BY <1>9 DEF Surjection
  <2> QED
    BY <1>2, <2>1
<1>11. \A i, j \in S : i \in below[j] => i # j
  BY <1>0
<1> QED
  BY <1>1, <1>3, <1>4, <1>5, <1>10, <1>11 DEF Ranked

LEMMA UpTo1 ==
  ASSUME NEW n \in Nat
  PROVE  IsFiniteSet(1..n) /\ Cardinality(1..n) = n
<1>1. IsFiniteSet(1..n) /\ Cardinality(1..n) = IF 1 > n THEN 0 ELSE n - 1 + 1
  BY FS_Interval
<1> QED
  BY <1>1

\* How many of "places" are before p.
Before(places, p) == Cardinality({q \in places : q < p})

LEMMA InOrderIs ==
  ASSUME NEW P, P \subseteq Nat, IsFiniteSet(P)
  PROVE  /\ Cardinality(P) \in Nat
         /\ InOrder(P) \in [1..Cardinality(P) -> P]
         /\ \A p \in P : Place(P, p) \in 1..Cardinality(P) /\ InOrder(P)[Place(P, p)] = p
         /\ \A k \in 1..Cardinality(P) : Place(P, InOrder(P)[k]) = k
         /\ \A p, q \in P : p < q => Place(P, p) < Place(P, q)
<1> DEFINE below == [p \in P |-> {q \in P : q < p}]
<1>1. \A p \in P : below[p] = {q \in P : q < p}
  OBVIOUS
<1>2. below \in [P -> SUBSET P]
  OBVIOUS
<1>3. \A p \in P : p \notin below[p]
  OBVIOUS
<1>4. \A p, q \in P : p # q =>
        \/ p \in below[q] /\ below[p] \subseteq below[q]
        \/ q \in below[p] /\ below[q] \subseteq below[p]
  <2>1. ASSUME NEW p \in P, NEW q \in P, p < q
        PROVE  p \in below[q] /\ below[p] \subseteq below[q]
    <3>1. \A r \in P : r < p => r < q
      BY <2>1
    <3> QED
      BY <1>1, <2>1, <3>1
  <2>2. \A p, q \in P : p # q => p < q \/ q < p
    OBVIOUS
  <2> HIDE DEF below
  <2> QED
    BY <2>1, <2>2
<1>5. PICK n \in Nat : n = Cardinality(P)
  BY FS_CardinalityType
<1>6. \A p \in P : Before(P, p) = Cardinality(below[p])
  BY <1>1 DEF Before
<1> HIDE DEF below
<1>7. Ranked(P, below, n)
  <2>1. Nests(P, below)
    BY <1>2, <1>3, <1>4 DEF Nests
  <2> QED
    BY <1>5, <2>1, RankIs
<1>8. /\ \A p \in P : Before(P, p) \in 0..n - 1
      /\ \A p, q \in P : Before(P, p) = Before(P, q) => p = q
      /\ \A p, q \in P : p < q => Before(P, p) < Before(P, q)
      /\ \A k \in 1..n : \E p \in P : Before(P, p) = k - 1
  BY <1>1, <1>6, <1>7 DEF Ranked
<1>9. ASSUME NEW p \in P PROVE Place(P, p) = Before(P, p) + 1
  <2>1. \A q \in P : q <= p <=> q < p \/ q = p
    OBVIOUS
  <2> DEFINE B == {q \in P : q < p}
  <2>2. {q \in P : q <= p} = B \cup {p}
    BY <2>1
  <2>3. p \notin B /\ IsFiniteSet(B)
    BY FS_Subset
  <2> HIDE DEF B
  <2>4. Cardinality(B \cup {p}) = Cardinality(B) + 1
    BY <2>3, FS_AddElement
  <2> QED
    BY <2>2, <2>4 DEF Place, Before, B
<1>10. ASSUME NEW k \in 1..n PROVE InOrder(P)[k] \in P /\ Before(P, InOrder(P)[k]) = k - 1
  <2> DEFINE Here(p) == Before(P, p) = k - 1
  <2>1. InOrder(P)[k] = CHOOSE p \in P : Here(p)
    BY <1>5 DEF InOrder, Before
  <2>2. \E p \in P : Here(p)
    BY <1>8
  <2> HIDE DEF Here
  <2>3. InOrder(P)[k] \in P /\ Here(InOrder(P)[k])
    BY <2>1, <2>2
  <2> QED
    BY <2>3 DEF Here
<1>11. InOrder(P) \in [1..n -> P]
  <2>1. InOrder(P) = [k \in 1..n |-> InOrder(P)[k]]
    BY <1>5 DEF InOrder
  <2> QED
    BY <1>10, <2>1
<1>12. ASSUME NEW p \in P PROVE Place(P, p) \in 1..n /\ InOrder(P)[Place(P, p)] = p
  <2>1. PICK k \in 1..n : k = Place(P, p) /\ k - 1 = Before(P, p)
    BY <1>8, <1>9
  <2> QED
    BY <1>8, <1>10, <2>1
<1>13. ASSUME NEW k \in 1..n PROVE Place(P, InOrder(P)[k]) = k
  <2>1. InOrder(P)[k] \in P /\ Before(P, InOrder(P)[k]) = k - 1
    BY <1>10
  <2>2. Place(P, InOrder(P)[k]) = Before(P, InOrder(P)[k]) + 1
    BY <1>9, <2>1
  <2> QED
    BY <2>1, <2>2
<1>14. ASSUME NEW p \in P, NEW q \in P, p < q PROVE Place(P, p) < Place(P, q)
  BY <1>8, <1>9, <1>14
<1> QED
  BY <1>5, <1>11, <1>12, <1>13, <1>14

\* kept has what the list has at P, the n places in their order.
Holds(list, P, kept, n) ==
  /\ Len(kept) = n
  /\ \A p \in P : Place(P, p) \in 1..n /\ kept[Place(P, p)] = list[p]
  /\ \A k \in 1..n : InOrder(P)[k] \in P /\ kept[k] = list[InOrder(P)[k]]

LEMMA KeptIs ==
  ASSUME NEW T, NEW list \in Seq(T), NEW P, P \subseteq 1..Len(list)
  PROVE  /\ IsFiniteSet(P) /\ P \subseteq Nat
         /\ Cardinality(P) \in Nat /\ Cardinality(P) <= Len(list)
         /\ Kept(list, P) \in Seq(T)
         /\ Holds(list, P, Kept(list, P), Cardinality(P))
<1>1. PICK m \in Nat : m = Len(list)
  OBVIOUS
<1>2. \A p \in 1..m : list[p] \in T
  BY <1>1
<1>3. P \subseteq 1..m
  BY <1>1
<1>4. IsFiniteSet(P) /\ P \subseteq Nat /\ Cardinality(P) <= m
  <2>1. IsFiniteSet(1..m) /\ Cardinality(1..m) = m
    BY UpTo1
  <2>2. IsFiniteSet(P) /\ Cardinality(P) <= Cardinality(1..m)
    BY <1>3, <2>1, FS_Subset
  <2> QED
    BY <1>3, <2>1, <2>2
<1>5. /\ Cardinality(P) \in Nat
      /\ InOrder(P) \in [1..Cardinality(P) -> P]
      /\ \A p \in P : Place(P, p) \in 1..Cardinality(P) /\ InOrder(P)[Place(P, p)] = p
  BY <1>4, InOrderIs
<1>6. PICK n \in Nat : n = Cardinality(P)
  BY <1>5
<1>7. Kept(list, P) = [k \in 1..n |-> list[InOrder(P)[k]]]
  BY <1>6 DEF Kept
<1>8. \A k \in 1..n : InOrder(P)[k] \in P /\ list[InOrder(P)[k]] \in T
  BY <1>2, <1>3, <1>5, <1>6
<1>9. Kept(list, P) \in Seq(T) /\ Len(Kept(list, P)) = n
  <2> DEFINE e(k) == list[InOrder(P)[k]]
  <2>1. \A k \in 1..n : e(k) \in T
    BY <1>8
  <2> HIDE DEF e
  <2>2. [k \in 1..n |-> e(k)] \in Seq(T) /\ Len([k \in 1..n |-> e(k)]) = n
    BY <2>1, IsASeq
  <2> QED
    BY <1>7, <2>2 DEF e
<1>10. \A k \in 1..n : Kept(list, P)[k] = list[InOrder(P)[k]]
  BY <1>7
<1>11. ASSUME NEW p \in P PROVE Place(P, p) \in 1..n /\ Kept(list, P)[Place(P, p)] = list[p]
  BY <1>5, <1>6, <1>10
<1> QED
  BY <1>1, <1>4, <1>5, <1>6, <1>8, <1>9, <1>10, <1>11 DEF Holds

LEMMA RangeKept ==
  ASSUME NEW T, NEW list \in Seq(T), NEW P, P \subseteq 1..Len(list)
  PROVE  Range(Kept(list, P)) = {list[p] : p \in P}
<1> DEFINE kept == Kept(list, P)
           n == Cardinality(P)
<1>1. kept \in Seq(T) /\ Holds(list, P, kept, n)
  BY KeptIs
<1> HIDE DEF kept, n
<1>2. DOMAIN kept = 1..n
  BY <1>1 DEF Holds
<1> DEFINE at == {list[p] : p \in P}
<1>3. Range(kept) = {kept[k] : k \in 1..n}
  BY <1>2 DEF Range
<1>4. ASSUME NEW k \in 1..n PROVE kept[k] \in at
  BY <1>1 DEF Holds
<1>5. ASSUME NEW p \in P PROVE list[p] \in {kept[k] : k \in 1..n}
  BY <1>1 DEF Holds
<1>6. Range(kept) \subseteq at
  BY <1>3, <1>4
<1>7. at \subseteq Range(kept)
  BY <1>3, <1>5
<1> QED
  BY <1>6, <1>7 DEF kept

LEMMA RangeConcat ==
  ASSUME NEW T, NEW a \in Seq(T), NEW b \in Seq(T)
  PROVE  Range(a \o b) = Range(a) \cup Range(b)
<1>1. PICK m, n \in Nat : m = Len(a) /\ DOMAIN a = 1..m /\ n = Len(b) /\ DOMAIN b = 1..n
  OBVIOUS
<1>2. /\ DOMAIN (a \o b) = 1..m + n
      /\ \A i \in 1..m + n : (a \o b)[i] = IF i <= m THEN a[i] ELSE b[i - m]
  BY <1>1, ConcatProperties
<1> DEFINE s == a \o b
<1> HIDE DEF s
<1>3. /\ DOMAIN s = 1..m + n
      /\ \A i \in 1..m : s[i] = a[i]
      /\ \A i \in 1..n : s[m + i] = b[i]
  <2>1. ASSUME NEW i \in 1..m PROVE s[i] = a[i]
    BY <1>2 DEF s
  <2>2. ASSUME NEW i \in 1..n PROVE s[m + i] = b[i]
    <3>1. m + i \in 1..m + n /\ ~(m + i <= m) /\ (m + i) - m = i
      OBVIOUS
    <3> QED
      BY <1>2, <3>1 DEF s
  <2> QED
    BY <1>2, <2>1, <2>2 DEF s
<1>4. \A i \in 1..m + n : i \in 1..m \/ \E j \in 1..n : i = m + j
  <2> SUFFICES ASSUME NEW i \in 1..m + n, i \notin 1..m PROVE \E j \in 1..n : i = m + j
    OBVIOUS
  <2>1. i - m \in 1..n /\ i = m + (i - m)
    OBVIOUS
  <2> QED
    BY <2>1
<1> DEFINE A == {a[i] : i \in 1..m}
           B == {b[i] : i \in 1..n}
           S == {s[i] : i \in 1..m + n}
<1>5. \A x \in S : x \in A \cup B
  <2> SUFFICES ASSUME NEW i \in 1..m + n PROVE s[i] \in A \cup B
    OBVIOUS
  <2>1. CASE i \in 1..m
    BY <1>3, <2>1
  <2>2. CASE i \notin 1..m
    <3>1. PICK j \in 1..n : i = m + j
      BY <1>4, <2>2
    <3>2. s[i] = b[j]
      BY <1>3, <3>1
    <3> QED
      BY <3>2
  <2> QED
    BY <2>1, <2>2
<1>6. \A x \in A \cup B : x \in S
  <2>1. \A i \in 1..m : i \in 1..m + n
    OBVIOUS
  <2>2. \A i \in 1..n : m + i \in 1..m + n
    OBVIOUS
  <2> QED
    BY <1>3, <2>1, <2>2
<1>7. Range(s) = S /\ Range(a) = A /\ Range(b) = B
  BY <1>1, <1>3 DEF Range
<1> QED
  BY <1>5, <1>6, <1>7 DEF s

\* All of a list is kept.
LEMMA KeptAll ==
  ASSUME NEW T, NEW list \in Seq(T)
  PROVE  Kept(list, DOMAIN list) = list
<1> DEFINE P == DOMAIN list
           kept == Kept(list, P)
<1>1. PICK m \in Nat : m = Len(list) /\ P = 1..m
  OBVIOUS
<1>2. kept \in Seq(T) /\ Holds(list, P, kept, Cardinality(P))
  BY <1>1, KeptIs
<1>3. Cardinality(P) = m
  BY <1>1, UpTo1
<1> HIDE DEF P
<1>4. ASSUME NEW p \in 1..m PROVE Place(P, p) = p
  <2>1. {q \in P : q <= p} = 1..p
    BY <1>1
  <2>2. Cardinality(1..p) = p
    BY UpTo1, p \in Nat
  <2> QED
    BY <2>1, <2>2 DEF Place
<1> HIDE DEF kept
<1>5. Len(kept) = m /\ \A p \in 1..m : kept[p] = list[p]
  BY <1>1, <1>2, <1>3, <1>4 DEF Holds
<1>6. kept = list
  BY <1>1, <1>2, <1>5
<1> QED
  BY <1>6 DEF kept, P

\* One place less.
LEMMA PlaceWithout ==
  ASSUME NEW P, P \subseteq Nat, IsFiniteSet(P), NEW e \in P, NEW p \in P
  PROVE  /\ p < e => Place(P \ {e}, p) = Place(P, p)
         /\ p > e => Place(P \ {e}, p) = Place(P, p) - 1
<1> DEFINE S == {q \in P : q <= p}
<1>1. IsFiniteSet(S)
  BY FS_Subset
<1>2. {q \in P \ {e} : q <= p} = S \ {e}
  OBVIOUS
<1>3. e \in S <=> e <= p
  OBVIOUS
<1> HIDE DEF S
<1>4. Cardinality(S \ {e}) = IF e \in S THEN Cardinality(S) - 1 ELSE Cardinality(S)
  BY <1>1, FS_RemoveElement
<1> QED
  BY <1>2, <1>3, <1>4 DEF Place, S

\* Removing what stands at the place of e.
LEMMA RemoveKept ==
  ASSUME NEW T, NEW list \in Seq(T), NEW P, P \subseteq 1..Len(list), NEW e \in P
  PROVE  RemoveAt(Kept(list, P), Place(P, e)) = Kept(list, P \ {e})
<1> DEFINE kept == Kept(list, P)
           rest == P \ {e}
           fewer == Kept(list, rest)
<1>1. /\ IsFiniteSet(P) /\ P \subseteq Nat
      /\ kept \in Seq(T) /\ Holds(list, P, kept, Cardinality(P))
  BY KeptIs
<1>2. /\ IsFiniteSet(rest) /\ rest \subseteq Nat
      /\ fewer \in Seq(T) /\ Holds(list, rest, fewer, Cardinality(rest))
  BY KeptIs
<1>3. PICK n \in Nat : n = Cardinality(P)
  BY <1>1, FS_CardinalityType
<1>4. Cardinality(rest) = n - 1
  BY <1>1, <1>3, FS_RemoveElement
<1>5. PICK i \in 1..n : i = Place(P, e)
  BY <1>1, <1>3 DEF Holds
<1>6. \A p \in P : Place(P, p) \in 1..n /\ kept[Place(P, p)] = list[p]
  BY <1>1, <1>3 DEF Holds
<1>7. \A p, q \in P : p < q => Place(P, p) < Place(P, q)
  BY <1>1, InOrderIs
<1>8. Len(kept) = n /\ Len(fewer) = n - 1
  BY <1>1, <1>2, <1>3, <1>4 DEF Holds
<1>9. \A k \in 1..n - 1 : InOrder(rest)[k] \in rest /\ fewer[k] = list[InOrder(rest)[k]]
  BY <1>2, <1>4 DEF Holds
<1>10. \A k \in 1..n - 1 : Place(rest, InOrder(rest)[k]) = k
  BY <1>2, <1>4, InOrderIs
<1>11. \A p \in rest : /\ p < e => Place(rest, p) = Place(P, p)
                       /\ p > e => Place(rest, p) = Place(P, p) - 1
  BY <1>1, PlaceWithout
<1>14. \A p \in rest : p \in P /\ p # e /\ p \in Nat
  BY <1>1
<1>15. e \in Nat
  BY <1>1
<1> HIDE DEF kept, fewer, rest
<1>12. ASSUME NEW k \in 1..n - 1
       PROVE  fewer[k] = IF k < i THEN kept[k] ELSE kept[k + 1]
  <2>1. PICK q \in rest : q = InOrder(rest)[k]
    BY <1>9
  <2>2. Place(rest, q) = k /\ fewer[k] = list[q]
    BY <1>9, <1>10, <2>1
  <2>3. q \in Nat /\ e \in Nat /\ q # e /\ q \in P
    BY <1>14, <1>15
  <2>6. /\ q < e => Place(rest, q) = Place(P, q)
        /\ q > e => Place(rest, q) = Place(P, q) - 1
    BY <1>11
  <2>4. CASE q < e
    <3>1. Place(P, q) = k
      BY <2>2, <2>4, <2>6
    <3>2. k < i
      <4>1. Place(P, q) < Place(P, e)
        BY <1>7, <2>3, <2>4
      <4> QED
        BY <1>5, <3>1, <4>1
    <3> QED
      BY <1>6, <2>2, <2>3, <3>1, <3>2
  <2>5. CASE q > e
    <3>1. Place(P, q) \in 1..n
      BY <1>6, <2>3
    <3>2. Place(P, q) = k + 1
      BY <2>2, <2>5, <2>6, <3>1
    <3>3. i < k + 1
      BY <1>5, <1>7, <2>3, <2>5, <3>2
    <3> QED
      BY <1>6, <2>2, <2>3, <3>2, <3>3
  <2> QED
    BY <2>3, <2>4, <2>5
<1>13. RemoveAt(kept, i) = fewer
  <2> DEFINE a == SubSeq(kept, 1, i - 1)
             b == SubSeq(kept, i + 1, Len(kept))
  <2>1. a \in Seq(T) /\ Len(a) = i - 1 /\ \A k \in 1..i - 1 : a[k] = kept[k]
    BY <1>1, <1>8
  <2>2. b \in Seq(T) /\ Len(b) = n - i /\ \A k \in 1..n - i : b[k] = kept[k + i]
    BY <1>1, <1>8
  <2>3. i - 1 \in Nat /\ n - i \in Nat
    OBVIOUS
  <2> HIDE DEF a, b
  <2>4. /\ a \o b \in Seq(T)
        /\ Len(a \o b) = Len(a) + Len(b)
        /\ \A k \in 1..Len(a) + Len(b) :
             (a \o b)[k] = IF k <= Len(a) THEN a[k] ELSE b[k - Len(a)]
    BY <2>1, <2>2, ConcatProperties
  <2>5. Len(a \o b) = n - 1
    BY <2>1, <2>2, <2>3, <2>4
  <2>6. ASSUME NEW k \in 1..n - 1 PROVE (a \o b)[k] = fewer[k]
    <3>1. (a \o b)[k] = IF k <= i - 1 THEN a[k] ELSE b[k - (i - 1)]
      BY <2>1, <2>2, <2>4
    <3>2. CASE k <= i - 1
      <4>1. k \in 1..i - 1 /\ k < i
        BY <3>2
      <4> QED
        BY <1>12, <2>1, <3>1, <3>2, <4>1
    <3>3. CASE ~(k <= i - 1)
      <4>1. k - (i - 1) \in 1..n - i /\ ~(k < i)
        BY <3>3
      <4>2. b[k - (i - 1)] = kept[k + 1]
        BY <2>2, <4>1
      <4> QED
        BY <1>12, <3>1, <3>3, <4>1, <4>2
    <3> QED
      BY <3>2, <3>3
  <2>7. a \o b = fewer
    BY <1>2, <1>8, <2>4, <2>5, <2>6, SeqEqual
  <2> QED
    BY <2>7 DEF RemoveAt, a, b
<1> QED
  BY <1>5, <1>13 DEF kept, fewer, rest

\* The first r of the places D in their order.
First(D, r) == {InOrder(D)[k] : k \in 1..r}

LEMMA FirstIs ==
  ASSUME NEW D, D \subseteq Nat, IsFiniteSet(D), NEW r \in 0..Cardinality(D)
  PROVE  /\ First(D, r) \subseteq D
         /\ IsFiniteSet(First(D, r)) /\ Cardinality(First(D, r)) = r
         /\ \A p \in D : p \in First(D, r) <=> Place(D, p) <= r
<1>1. /\ Cardinality(D) \in Nat
      /\ InOrder(D) \in [1..Cardinality(D) -> D]
      /\ \A p \in D : Place(D, p) \in 1..Cardinality(D) /\ InOrder(D)[Place(D, p)] = p
      /\ \A k \in 1..Cardinality(D) : Place(D, InOrder(D)[k]) = k
  BY InOrderIs
<1>2. PICK n \in Nat : n = Cardinality(D)
  BY <1>1
<1>3. \A k \in 1..r : k \in 1..n
  BY <1>2
<1>4. First(D, r) \subseteq D
  BY <1>1, <1>2, <1>3 DEF First
<1>5. r \in Nat
  BY <1>2
<1>6. IsFiniteSet(First(D, r)) /\ Cardinality(First(D, r)) = r
  <2> DEFINE f == [k \in 1..r |-> InOrder(D)[k]]
  <2>1. IsFiniteSet(1..r) /\ Cardinality(1..r) = r
    BY <1>5, UpTo1
  <2>2. f \in [1..r -> First(D, r)]
    BY DEF First
  <2>3. \A k \in 1..r : f[k] = InOrder(D)[k]
    OBVIOUS
  <2>4. \A j, k \in 1..r : f[j] = f[k] => j = k
    BY <1>1, <1>2, <1>3, <2>3
  <2>5. \A p \in First(D, r) : \E k \in 1..r : f[k] = p
    BY <2>3 DEF First
  <2> HIDE DEF f
  <2> QED
    BY <2>1, <2>2, <2>4, <2>5, SameSize
<1>7. ASSUME NEW p \in D, p \in First(D, r) PROVE Place(D, p) <= r
  <2>1. PICK k \in 1..r : p = InOrder(D)[k]
    BY <1>7 DEF First
  <2> QED
    BY <1>1, <1>2, <1>3, <2>1
<1>8. ASSUME NEW p \in D, Place(D, p) <= r PROVE p \in First(D, r)
  <2>1. Place(D, p) \in 1..r /\ p = InOrder(D)[Place(D, p)]
    BY <1>1, <1>2, <1>8
  <2> QED
    BY <2>1 DEF First
<1> QED
  BY <1>4, <1>6, <1>7, <1>8

\* e is the next of D to go, from what is left of 1..m.
NextOf(m, D, r, e, stays) ==
  e \in stays /\ Place(stays, e) = e - r /\ stays \ {e} = 1..m \ First(D, r + 1)

\* It is moved by as many as were taken away before it.
LEMMA NextMoved ==
  ASSUME NEW m \in Nat, NEW D, D \subseteq 1..m, NEW r \in Nat, r < Cardinality(D)
  PROVE  NextOf(m, D, r, InOrder(D)[r + 1], 1..m \ First(D, r))
<1> DEFINE e == InOrder(D)[r + 1]
           gone == First(D, r)
           stays == 1..m \ gone
<1>1. D \subseteq Nat /\ IsFiniteSet(D)
  <2>1. IsFiniteSet(1..m)
    BY UpTo1
  <2>2. IsFiniteSet(D)
    BY <2>1, FS_Subset
  <2> QED
    BY <2>2
<1>2. /\ Cardinality(D) \in Nat
      /\ InOrder(D) \in [1..Cardinality(D) -> D]
      /\ \A p \in D : Place(D, p) \in 1..Cardinality(D) /\ InOrder(D)[Place(D, p)] = p
      /\ \A k \in 1..Cardinality(D) : Place(D, InOrder(D)[k]) = k
      /\ \A p, q \in D : p < q => Place(D, p) < Place(D, q)
  BY <1>1, InOrderIs
<1>3. r \in 0..Cardinality(D) /\ r + 1 \in 0..Cardinality(D) /\ r + 1 \in 1..Cardinality(D)
  BY <1>2
<1>4. e \in D /\ Place(D, e) = r + 1
  BY <1>2, <1>3
<1>5. /\ gone \subseteq D /\ IsFiniteSet(gone) /\ Cardinality(gone) = r
      /\ \A p \in D : p \in gone <=> Place(D, p) <= r
  BY <1>1, <1>3, FirstIs
<1>6. \A p \in D : p \in First(D, r + 1) <=> Place(D, p) <= r + 1
  BY <1>1, <1>3, FirstIs
<1>7. First(D, r + 1) \subseteq D
  BY <1>1, <1>3, FirstIs
<1> HIDE DEF e, gone
<1>8. e \in stays
  BY <1>4, <1>5
<1>9. ASSUME NEW p \in gone PROVE p \in 1..e /\ p # e
  <2>1. p \in D /\ Place(D, p) <= r /\ Place(D, p) \in Nat
    BY <1>2, <1>5
  <2>2. p \in Nat \ {0} /\ e \in Nat
    BY <1>4, <2>1
  <2>3. ~(p > e)
    <3>1. e < p => Place(D, e) < Place(D, p)
      BY <1>2, <1>4, <2>1
    <3> QED
      BY <1>4, <2>1, <2>2, <3>1
  <2>4. p # e
    BY <1>4, <2>1
  <2> QED
    BY <2>2, <2>3, <2>4
<1>10. Place(stays, e) = e - r
  <2>1. e \in 1..m
    BY <1>4
  <2>2. {q \in stays : q <= e} = 1..e \ gone
    BY <2>1
  <2>3. IsFiniteSet(1..e) /\ Cardinality(1..e) = e
    BY <2>1, UpTo1
  <2>4. Cardinality(1..e \ gone) = Cardinality(1..e) - Cardinality((1..e) \cap gone)
    BY <2>3, FS_Difference
  <2>5. (1..e) \cap gone = gone
    BY <1>9
  <2>6. Cardinality(1..e \ gone) = e - r
    BY <1>5, <2>3, <2>4, <2>5
  <2> QED
    BY <2>2, <2>6 DEF Place
<1>11. ASSUME NEW p \in D PROVE p \in First(D, r + 1) <=> p \in gone \/ p = e
  <2>1. Place(D, p) \in Nat /\ InOrder(D)[Place(D, p)] = p
    BY <1>2
  <2>2. Place(D, p) = r + 1 => p = e
    BY <2>1 DEF e
  <2> QED
    BY <1>4, <1>5, <1>6, <2>1, <2>2
<1>12. First(D, r + 1) = gone \cup {e}
  BY <1>4, <1>5, <1>7, <1>11
<1>13. stays \ {e} = 1..m \ First(D, r + 1)
  BY <1>12
<1> QED
  BY <1>8, <1>10, <1>13 DEF NextOf, e, gone
-----------------------------------------------------------------------------
Download == [payload : Seq(Byte8) \ {<<>>}, outputs : Seq(Nat)]

LEMMA DownloadAt ==
  ASSUME NEW ds \in Seq(Download), NEW i \in DOMAIN ds
  PROVE  /\ ds[i] \in Download
         /\ ds[i].outputs \in Seq(Nat) /\ Len(ds[i].outputs) \in Nat
         /\ DOMAIN ds[i].outputs = 1..Len(ds[i].outputs)
<1>1. ds[i] \in Download
  OBVIOUS
<1>2. ds[i].outputs \in Seq(Nat)
  BY <1>1 DEF Download
<1> QED
  BY <1>1, <1>2, LenProperties

\* Where the services of "at" have an output.
HitsIn(ds, at, output) ==
  {h \in OutputPlaces(ds) : h[1] \in at /\ ds[h[1]].outputs[h[2]] = output}

HitsFit(ds, at, output, hits) ==
  /\ \A h \in hits :
       /\ h[1] \in at /\ h[2] \in 1..Len(ds[h[1]].outputs)
       /\ h = <<h[1], h[2]>> /\ ds[h[1]].outputs[h[2]] = output
  /\ \A i \in at : \A j \in 1..Len(ds[i].outputs) :
       ds[i].outputs[j] = output => <<i, j>> \in hits

LEMMA HitsAre ==
  ASSUME NEW ds \in Seq(Download), NEW at, at \subseteq DOMAIN ds, NEW output
  PROVE  /\ IsFiniteSet(HitsIn(ds, at, output)) /\ Cardinality(HitsIn(ds, at, output)) \in Nat
         /\ HitsFit(ds, at, output, HitsIn(ds, at, output))
<1> DEFINE Of(i) == {i} \X DOMAIN ds[i].outputs
           all == {Of(i) : i \in DOMAIN ds}
           hits == HitsIn(ds, at, output)
<1>1. OutputPlaces(ds) = UNION all
  BY DEF OutputPlaces
<1>2. PICK n \in Nat : n = Len(ds) /\ DOMAIN ds = 1..n
  OBVIOUS
<1>3. \A i \in 1..n : ds[i].outputs \in Seq(Nat) /\ DOMAIN ds[i].outputs = 1..Len(ds[i].outputs)
  BY <1>2, DownloadAt
<1>4. IsFiniteSet(all)
  <2> DEFINE f == [i \in 1..n |-> Of(i)]
  <2>1. IsFiniteSet(1..n)
    BY UpTo1
  <2>2. f \in Surjection(1..n, all)
    BY <1>2 DEF Surjection
  <2> HIDE DEF f, all
  <2> QED
    BY <2>1, <2>2, FS_Surjection
<1>5. ASSUME NEW i \in 1..n PROVE IsFiniteSet(Of(i))
  <2>1. Len(ds[i].outputs) \in Nat
    BY <1>2, DownloadAt
  <2>2. IsFiniteSet(DOMAIN ds[i].outputs)
    BY <1>3, <2>1, UpTo1
  <2>3. IsFiniteSet({i})
    BY FS_Singleton
  <2> QED
    BY <2>2, <2>3, FS_Product
<1>6. IsFiniteSet(OutputPlaces(ds))
  <2>1. \A S \in all : IsFiniteSet(S)
    BY <1>2, <1>5
  <2> HIDE DEF all
  <2> QED
    BY <1>1, <1>4, <2>1, FS_UNION
<1>7. IsFiniteSet(hits) /\ Cardinality(hits) \in Nat
  <2>1. hits \subseteq OutputPlaces(ds)
    BY DEF HitsIn
  <2>2. IsFiniteSet(hits)
    BY <1>6, <2>1, FS_Subset
  <2> QED
    BY <2>2, FS_CardinalityType
<1>8. ASSUME NEW h \in hits
      PROVE  /\ h[1] \in at /\ h[2] \in 1..Len(ds[h[1]].outputs)
             /\ h = <<h[1], h[2]>> /\ ds[h[1]].outputs[h[2]] = output
  <2>1. h[1] \in at /\ ds[h[1]].outputs[h[2]] = output /\ h \in OutputPlaces(ds)
    BY DEF HitsIn
  <2>2. PICK i \in 1..n : h \in Of(i)
    BY <1>1, <1>2, <2>1
  <2>3. h = <<h[1], h[2]>> /\ h[1] = i /\ h[2] \in DOMAIN ds[i].outputs
    BY <2>2
  <2> QED
    BY <1>3, <2>1, <2>3
<1>9. ASSUME NEW i \in at, NEW j \in 1..Len(ds[i].outputs), ds[i].outputs[j] = output
      PROVE  <<i, j>> \in hits
  <2>1. i \in DOMAIN ds /\ j \in DOMAIN ds[i].outputs
    BY <1>2, <1>3
  <2>2. <<i, j>> \in Of(i)
    BY <2>1
  <2>3. <<i, j>> \in OutputPlaces(ds)
    BY <1>1, <2>1, <2>2
  <2> QED
    BY <1>9, <2>3 DEF HitsIn
<1> HIDE DEF hits
<1>10. HitsFit(ds, at, output, hits)
  BY <1>8, <1>9 DEF HitsFit
<1> QED
  BY <1>7, <1>10 DEF hits

\* Services with the same outputs, at other places.
Moves(ds, S, es, T, g) ==
  /\ S \subseteq DOMAIN ds /\ T \subseteq DOMAIN es /\ g \in [S -> T]
  /\ \A i, j \in S : g[i] = g[j] => i = j
  /\ \A k \in T : \E i \in S : g[i] = k
  /\ \A i \in S : es[g[i]].outputs = ds[i].outputs

LEMMA SameHits ==
  ASSUME NEW ds \in Seq(Download), NEW es \in Seq(Download), NEW output,
         NEW S, NEW T, NEW g, Moves(ds, S, es, T, g)
  PROVE  Cardinality(HitsIn(es, T, output)) = Cardinality(HitsIn(ds, S, output))
<1> DEFINE hits == HitsIn(ds, S, output)
           others == HitsIn(es, T, output)
           f == [h \in hits |-> <<g[h[1]], h[2]>>]
<1>1. /\ IsFiniteSet(hits)
      /\ \A h \in hits :
           /\ h[1] \in S /\ h[2] \in 1..Len(ds[h[1]].outputs)
           /\ h = <<h[1], h[2]>> /\ ds[h[1]].outputs[h[2]] = output
      /\ \A i \in S : \A j \in 1..Len(ds[i].outputs) :
           ds[i].outputs[j] = output => <<i, j>> \in hits
  BY HitsAre DEF Moves, HitsFit
<1>2. /\ \A h \in others :
           /\ h[1] \in T /\ h[2] \in 1..Len(es[h[1]].outputs)
           /\ h = <<h[1], h[2]>> /\ es[h[1]].outputs[h[2]] = output
      /\ \A i \in T : \A j \in 1..Len(es[i].outputs) :
           es[i].outputs[j] = output => <<i, j>> \in others
  BY HitsAre DEF Moves, HitsFit
<1> HIDE DEF hits, others
<1>3. f \in [hits -> others]
  <2> SUFFICES ASSUME NEW h \in hits PROVE <<g[h[1]], h[2]>> \in others
    OBVIOUS
  <2>1. h[1] \in S /\ h[2] \in 1..Len(ds[h[1]].outputs) /\ ds[h[1]].outputs[h[2]] = output
    BY <1>1
  <2>2. g[h[1]] \in T /\ es[g[h[1]]].outputs = ds[h[1]].outputs
    BY <2>1 DEF Moves
  <2> QED
    BY <1>2, <2>1, <2>2
<1>4. \A h \in hits : f[h] = <<g[h[1]], h[2]>>
  OBVIOUS
<1> HIDE DEF f
<1>5. ASSUME NEW h \in hits, NEW k \in hits, f[h] = f[k] PROVE h = k
  <2>1. g[h[1]] = g[k[1]] /\ h[2] = k[2]
    BY <1>4, <1>5
  <2>2. h[1] \in S /\ k[1] \in S /\ h = <<h[1], h[2]>> /\ k = <<k[1], k[2]>>
    BY <1>1
  <2>3. h[1] = k[1]
    BY <2>1, <2>2 DEF Moves
  <2> QED
    BY <2>1, <2>2, <2>3
<1>6. ASSUME NEW k \in others PROVE \E h \in hits : f[h] = k
  <2>1. PICK a, b : a = k[1] /\ b = k[2] /\ k = <<a, b>>
    BY <1>2
  <2>2. a \in T /\ b \in 1..Len(es[a].outputs) /\ es[a].outputs[b] = output
    BY <1>2, <2>1
  <2>3. PICK i \in S : g[i] = a
    BY <2>2 DEF Moves
  <2>4. es[a].outputs = ds[i].outputs
    BY <2>3 DEF Moves
  <2>5. <<i, b>> \in hits
    BY <1>1, <2>2, <2>3, <2>4
  <2>6. f[<<i, b>>] = <<a, b>>
    BY <1>4, <2>3, <2>5
  <2> QED
    BY <2>1, <2>5, <2>6
<1>7. Cardinality(others) = Cardinality(hits)
  BY <1>1, <1>3, <1>5, <1>6, SameSize
<1> QED
  BY <1>7 DEF hits, others

\* Services apart from one another.
LEMMA HitsApart ==
  ASSUME NEW ds \in Seq(Download), NEW output, NEW S, NEW T,
         S \subseteq DOMAIN ds, T \subseteq DOMAIN ds, S \cap T = {}
  PROVE  Cardinality(HitsIn(ds, S \cup T, output)) =
           Cardinality(HitsIn(ds, S, output)) + Cardinality(HitsIn(ds, T, output))
<1> DEFINE a == HitsIn(ds, S, output)
           b == HitsIn(ds, T, output)
<1>1. IsFiniteSet(a) /\ IsFiniteSet(b) /\ Cardinality(a) \in Nat /\ Cardinality(b) \in Nat
  BY HitsAre
<1>2. HitsIn(ds, S \cup T, output) = a \cup b
  BY DEF HitsIn
<1>3. a \cap b = {}
  BY DEF HitsIn
<1> HIDE DEF a, b
<1>4. Cardinality(a \cup b) = Cardinality(a) + Cardinality(b) - Cardinality(a \cap b)
  BY <1>1, FS_Union
<1>5. Cardinality({}) = 0
  BY FS_EmptySet
<1>6. Cardinality(a \cup b) = Cardinality(a) + Cardinality(b)
  <2>1. Cardinality(a \cup b) = Cardinality(a) + Cardinality(b) - 0
    BY <1>3, <1>4, <1>5
  <2>2. PICK x, y \in Nat : x = Cardinality(a) /\ y = Cardinality(b)
    BY <1>1
  <2> QED
    BY <2>1, <2>2
<1> QED
  BY <1>2, <1>6 DEF a, b

LEMMA TimesAre ==
  ASSUME NEW ds \in Seq(Download), NEW output
  PROVE  Times(ds, output) = Cardinality(HitsIn(ds, DOMAIN ds, output))
<1>1. \A h \in OutputPlaces(ds) : h[1] \in DOMAIN ds
  BY DEF OutputPlaces
<1> QED
  BY <1>1 DEF Times, HitsIn

LEMMA TimesConcat ==
  ASSUME NEW a \in Seq(Download), NEW b \in Seq(Download), NEW output
  PROVE  /\ a \o b \in Seq(Download)
         /\ Times(a \o b, output) = Times(a, output) + Times(b, output)
<1> DEFINE ds == a \o b
<1>1. PICK m \in Nat : m = Len(a) /\ DOMAIN a = 1..m
  OBVIOUS
<1>2. PICK n \in Nat : n = Len(b) /\ DOMAIN b = 1..n
  OBVIOUS
<1>3. /\ ds \in Seq(Download) /\ DOMAIN ds = 1..m + n
      /\ \A i \in 1..m + n : ds[i] = IF i <= m THEN a[i] ELSE b[i - m]
  BY <1>1, <1>2, ConcatProperties
<1> HIDE DEF ds
<1> DEFINE S == 1..m
           T == m + 1..m + n
<1>4. S \subseteq DOMAIN ds /\ T \subseteq DOMAIN ds /\ S \cap T = {} /\ S \cup T = DOMAIN ds
  BY <1>3
<1>5. Cardinality(HitsIn(ds, S, output)) = Cardinality(HitsIn(a, DOMAIN a, output))
  <2> DEFINE g == [i \in 1..m |-> i]
  <2>1. g \in [1..m -> S] /\ \A i \in 1..m : g[i] = i
    OBVIOUS
  <2>2. \A i \in 1..m : ds[g[i]].outputs = a[i].outputs
    BY <1>3, <2>1
  <2>3. S \subseteq DOMAIN ds /\ 1..m \subseteq DOMAIN a
    BY <1>1, <1>4
  <2>4. /\ \A i, j \in 1..m : g[i] = g[j] => i = j
        /\ \A k \in S : \E i \in 1..m : g[i] = k
    BY <2>1
  <2> HIDE DEF g, S
  <2>5. Cardinality(HitsIn(ds, S, output)) = Cardinality(HitsIn(a, 1..m, output))
    <3>1. Moves(a, 1..m, ds, S, g)
      BY <2>1, <2>2, <2>3, <2>4 DEF Moves
    <3> QED
      BY <1>3, <3>1, SameHits
  <2> QED
    BY <1>1, <2>5
<1>6. Cardinality(HitsIn(ds, T, output)) = Cardinality(HitsIn(b, DOMAIN b, output))
  <2> DEFINE g == [i \in 1..n |-> m + i]
  <2>1. g \in [1..n -> T] /\ \A i \in 1..n : g[i] = m + i
    OBVIOUS
  <2>2. \A i \in 1..n : ds[g[i]].outputs = b[i].outputs
    <3> SUFFICES ASSUME NEW i \in 1..n PROVE ds[m + i].outputs = b[i].outputs
      BY <2>1
    <3>1. m + i \in 1..m + n /\ ~(m + i <= m) /\ (m + i) - m = i
      OBVIOUS
    <3> QED
      BY <1>3, <3>1
  <2>3. T \subseteq DOMAIN ds /\ 1..n \subseteq DOMAIN b
    BY <1>2, <1>4
  <2>4. \A i, j \in 1..n : g[i] = g[j] => i = j
    BY <2>1
  <2>5. \A k \in T : \E i \in 1..n : g[i] = k
    <3> SUFFICES ASSUME NEW k \in T PROVE \E i \in 1..n : g[i] = k
      OBVIOUS
    <3>1. k - m \in 1..n /\ m + (k - m) = k
      OBVIOUS
    <3> QED
      BY <2>1, <3>1
  <2> HIDE DEF g, T
  <2>6. Cardinality(HitsIn(ds, T, output)) = Cardinality(HitsIn(b, 1..n, output))
    <3>1. Moves(b, 1..n, ds, T, g)
      BY <2>1, <2>2, <2>3, <2>4, <2>5 DEF Moves
    <3> QED
      BY <1>3, <3>1, SameHits
  <2> QED
    BY <1>2, <2>6
<1> HIDE DEF S, T
<1>9. Cardinality(HitsIn(ds, S \cup T, output)) =
        Cardinality(HitsIn(ds, S, output)) + Cardinality(HitsIn(ds, T, output))
  BY <1>3, <1>4, HitsApart
<1>7. Cardinality(HitsIn(ds, DOMAIN ds, output)) =
        Cardinality(HitsIn(ds, S, output)) + Cardinality(HitsIn(ds, T, output))
  BY <1>4, <1>9
<1>8. Times(ds, output) = Times(a, output) + Times(b, output)
  BY <1>3, <1>5, <1>6, <1>7, TimesAre
<1> QED
  BY <1>3, <1>8 DEF ds

LEMMA TimesKept ==
  ASSUME NEW ds \in Seq(Download), NEW at, at \subseteq DOMAIN ds, NEW output
  PROVE  /\ Kept(ds, at) \in Seq(Download)
         /\ Times(Kept(ds, at), output) = Cardinality(HitsIn(ds, at, output))
<1> DEFINE kept == Kept(ds, at)
           n == Cardinality(at)
           g == [i \in at |-> Place(at, i)]
<1>1. at \subseteq 1..Len(ds)
  OBVIOUS
<1>2. IsFiniteSet(at) /\ at \subseteq Nat /\ n \in Nat /\ kept \in Seq(Download) /\ Holds(ds, at, kept, n)
  BY <1>1, KeptIs
<1>3. /\ \A i \in at : Place(at, i) \in 1..n /\ InOrder(at)[Place(at, i)] = i
      /\ \A k \in 1..n : Place(at, InOrder(at)[k]) = k
  BY <1>2, InOrderIs
<1> HIDE DEF kept, n
<1>4. DOMAIN kept = 1..n
  BY <1>2 DEF Holds
<1>5. g \in [at -> 1..n] /\ \A i \in at : g[i] = Place(at, i)
  BY <1>3
<1> HIDE DEF g
<1>6. \A i, j \in at : g[i] = g[j] => i = j
  BY <1>3, <1>5
<1>7. ASSUME NEW k \in 1..n PROVE \E i \in at : g[i] = k
  <2>1. InOrder(at)[k] \in at
    BY <1>2 DEF Holds
  <2>2. g[InOrder(at)[k]] = k
    BY <1>3, <1>5, <2>1
  <2> QED
    BY <2>1, <2>2
<1>8. \A i \in at : kept[g[i]].outputs = ds[i].outputs
  BY <1>2, <1>5 DEF Holds
<1>9. Cardinality(HitsIn(kept, 1..n, output)) = Cardinality(HitsIn(ds, at, output))
  <2>1. Moves(ds, at, kept, 1..n, g)
    BY <1>4, <1>5, <1>6, <1>7, <1>8 DEF Moves
  <2> QED
    BY <1>2, <2>1, SameHits
<1>10. Times(kept, output) = Cardinality(HitsIn(ds, at, output))
  BY <1>2, <1>4, <1>9, TimesAre
<1> QED
  BY <1>2, <1>10 DEF kept

\* The first of a group with the outputs of those that have one.
Chief(ds, G, T) ==
  [ds[Root(G)] EXCEPT !.outputs =
     @ \o [k \in 1..Cardinality(T) |-> Head(ds[InOrder(T)[k]].outputs)]]

LEMMA TimesChief ==
  ASSUME NEW ds \in Seq(Download), NEW G, G \subseteq DOMAIN ds, Root(G) \in G,
         NEW T, T \subseteq G \ {Root(G)}, \A i \in T : Len(ds[i].outputs) = 1,
         NEW output
  PROVE  /\ Chief(ds, G, T) \in Download
         /\ Times(<<Chief(ds, G, T)>>, output) =
              Cardinality(HitsIn(ds, {Root(G)} \cup T, output))
<1> DEFINE root == Root(G)
           at == {root} \cup T
           outs == ds[root].outputs
           tail == [k \in 1..Cardinality(T) |-> Head(ds[InOrder(T)[k]].outputs)]
           chief == Chief(ds, G, T)
           es == <<chief>>
           hits == HitsIn(ds, at, output)
           others == HitsIn(es, {1}, output)
<1>1. T \subseteq DOMAIN ds /\ root \in DOMAIN ds /\ root \notin T /\ at \subseteq DOMAIN ds
  OBVIOUS
<1>2. ds[root] \in Download /\ outs \in Seq(Nat) /\ Len(outs) \in Nat /\ DOMAIN outs = 1..Len(outs)
  BY <1>1, DownloadAt
<1>3. PICK l \in Nat : l = Len(outs)
  BY <1>2
<1>4. T \subseteq 1..Len(ds)
  BY <1>1
<1>5. IsFiniteSet(T) /\ T \subseteq Nat /\ Cardinality(T) \in Nat
  BY <1>4, KeptIs
<1>6. PICK n \in Nat : n = Cardinality(T)
  BY <1>5
<1>7. /\ \A k \in 1..n : InOrder(T)[k] \in T /\ Place(T, InOrder(T)[k]) = k
      /\ \A i \in T : Place(T, i) \in 1..n /\ InOrder(T)[Place(T, i)] = i
  <2>1. /\ InOrder(T) \in [1..Cardinality(T) -> T]
        /\ \A i \in T : Place(T, i) \in 1..Cardinality(T) /\ InOrder(T)[Place(T, i)] = i
        /\ \A k \in 1..Cardinality(T) : Place(T, InOrder(T)[k]) = k
    BY <1>5, InOrderIs
  <2> QED
    BY <1>6, <2>1
<1>8. \A i \in T : /\ Head(ds[i].outputs) = ds[i].outputs[1]
                   /\ Head(ds[i].outputs) \in Nat
  <2> SUFFICES ASSUME NEW i \in T
               PROVE  /\ Head(ds[i].outputs) = ds[i].outputs[1]
                      /\ Head(ds[i].outputs) \in Nat
    OBVIOUS
  <2>1. ds[i].outputs \in Seq(Nat) /\ Len(ds[i].outputs) = 1
    BY <1>1, DownloadAt
  <2> QED
    BY <2>1
<1>9. /\ tail \in Seq(Nat) /\ Len(tail) = n
      /\ \A k \in 1..n : tail[k] = ds[InOrder(T)[k]].outputs[1]
  <2> DEFINE e(k) == Head(ds[InOrder(T)[k]].outputs)
  <2>1. \A k \in 1..n : e(k) \in Nat /\ e(k) = ds[InOrder(T)[k]].outputs[1]
    BY <1>7, <1>8
  <2>2. tail = [k \in 1..n |-> e(k)]
    BY <1>6
  <2> HIDE DEF e, tail
  <2>3. [k \in 1..n |-> e(k)] \in Seq(Nat) /\ Len([k \in 1..n |-> e(k)]) = n
    BY <2>1, IsASeq
  <2>4. \A k \in 1..n : [j \in 1..n |-> e(j)][k] = e(k)
    OBVIOUS
  <2> QED
    BY <2>1, <2>2, <2>3, <2>4
<1> HIDE DEF tail
<1>10. chief.outputs = outs \o tail /\ chief.payload = ds[root].payload
  BY <1>2 DEF Chief, Download, tail
<1>11. /\ outs \o tail \in Seq(Nat) /\ Len(outs \o tail) = l + n
       /\ \A j \in 1..l + n : (outs \o tail)[j] = IF j <= l THEN outs[j] ELSE tail[j - l]
  <2> HIDE DEF outs, root, at, es, chief, hits, others
  <2>2. outs \in Seq(Nat) /\ tail \in Seq(Nat)
    BY <1>2, <1>9
  <2>1. /\ outs \o tail \in Seq(Nat) /\ Len(outs \o tail) = Len(outs) + Len(tail)
        /\ \A j \in 1..Len(outs) + Len(tail) :
             (outs \o tail)[j] = IF j <= Len(outs) THEN outs[j] ELSE tail[j - Len(outs)]
    BY <2>2, ConcatProperties
  <2> QED
    BY <1>3, <1>9, <2>1
<1>12. chief \in Download
  <2>1. outs \o tail \in Seq(Nat)
    BY <1>11
  <2> HIDE DEF outs
  <2>2. chief = [ds[root] EXCEPT !.outputs = outs \o tail]
    BY DEF Chief, tail, outs
  <2> QED
    BY <1>2, <2>1, <2>2 DEF Download
<1>13. es \in Seq(Download) /\ DOMAIN es = {1} /\ es[1] = chief
  BY <1>12
<1>14. /\ IsFiniteSet(hits)
       /\ \A h \in hits :
            /\ h[1] \in at /\ h[2] \in 1..Len(ds[h[1]].outputs)
            /\ h = <<h[1], h[2]>> /\ ds[h[1]].outputs[h[2]] = output
       /\ \A i \in at : \A j \in 1..Len(ds[i].outputs) :
            ds[i].outputs[j] = output => <<i, j>> \in hits
  <2>1. IsFiniteSet(hits) /\ HitsFit(ds, at, output, hits)
    BY <1>1, HitsAre
  <2> HIDE DEF hits, at
  <2> QED
    BY <2>1 DEF HitsFit
<1> HIDE DEF es
<1>15. /\ \A h \in others :
            /\ h[1] \in {1} /\ h[2] \in 1..Len(es[h[1]].outputs)
            /\ h = <<h[1], h[2]>> /\ es[h[1]].outputs[h[2]] = output
       /\ \A i \in {1} : \A j \in 1..Len(es[i].outputs) :
            es[i].outputs[j] = output => <<i, j>> \in others
  <2>1. HitsFit(es, {1}, output, others)
    BY <1>13, HitsAre
  <2> HIDE DEF others
  <2> QED
    BY <2>1 DEF HitsFit
<1> HIDE DEF chief, hits, others, outs
<1>16. es[1].outputs = outs \o tail
  BY <1>10, <1>13
<1>17. /\ \A h \in others : /\ h[2] \in 1..l + n /\ h = <<1, h[2]>>
                           /\ (outs \o tail)[h[2]] = output
       /\ \A j \in 1..l + n : (outs \o tail)[j] = output => <<1, j>> \in others
  BY <1>11, <1>15, <1>16
<1> DEFINE spot(h) == IF h[1] = root THEN h[2] ELSE l + Place(T, h[1])
           f == [h \in hits |-> <<1, spot(h)>>]
<1>18. ASSUME NEW h \in hits
       PROVE  /\ h = <<h[1], h[2]>>
              /\ h[1] = root => spot(h) \in 1..l /\ spot(h) = h[2]
              /\ h[1] # root => /\ h[1] \in T /\ h[2] = 1
                                /\ spot(h) \in l + 1..l + n /\ spot(h) = l + Place(T, h[1])
              /\ (outs \o tail)[spot(h)] = output
  <2>1. /\ h[1] \in at /\ h[2] \in 1..Len(ds[h[1]].outputs)
        /\ h = <<h[1], h[2]>> /\ ds[h[1]].outputs[h[2]] = output
    BY <1>14
  <2>2. CASE h[1] = root
    <3>1. spot(h) = h[2] /\ h[2] \in 1..l /\ outs[h[2]] = output
      BY <1>3, <2>1, <2>2 DEF outs
    <3>2. h[2] \in 1..l + n /\ h[2] <= l
      BY <3>1
    <3>3. (outs \o tail)[h[2]] = outs[h[2]]
      BY <1>11, <3>2
    <3> QED
      BY <2>1, <2>2, <3>1, <3>3
  <2>3. CASE h[1] # root
    <3>1. h[1] \in T /\ spot(h) = l + Place(T, h[1])
      BY <2>1, <2>3
    <3>2. h[2] = 1
      BY <2>1, <3>1
    <3>3. PICK k \in 1..n : k = Place(T, h[1]) /\ InOrder(T)[k] = h[1]
      BY <1>7, <3>1
    <3>4. tail[k] = output
      BY <1>9, <2>1, <3>2, <3>3
    <3>5. l + k \in l + 1..l + n /\ l + k \in 1..l + n /\ ~(l + k <= l) /\ (l + k) - l = k
      OBVIOUS
    <3>6. (outs \o tail)[l + k] = tail[k]
      BY <1>11, <3>5
    <3> QED
      BY <2>1, <2>3, <3>1, <3>2, <3>3, <3>4, <3>5, <3>6
  <2> QED
    BY <2>2, <2>3
<1>19. \A h \in hits : f[h] = <<1, spot(h)>> /\ f[h][2] = spot(h)
  OBVIOUS
<1>20. f \in [hits -> others]
  <2> SUFFICES ASSUME NEW h \in hits PROVE <<1, spot(h)>> \in others
    OBVIOUS
  <2>1. spot(h) \in 1..l \/ spot(h) \in l + 1..l + n
    BY <1>18
  <2>2. spot(h) \in 1..l + n
    BY <2>1
  <2>3. (outs \o tail)[spot(h)] = output
    BY <1>18
  <2> HIDE DEF spot
  <2> QED
    BY <1>17, <2>2, <2>3
<1> HIDE DEF f, spot
<1>21. ASSUME NEW h \in hits, NEW k \in hits, f[h] = f[k] PROVE h = k
  <2>1. spot(h) = spot(k)
    BY <1>19, <1>21
  <2>2. h = <<h[1], h[2]>> /\ k = <<k[1], k[2]>>
    BY <1>18
  <2>3. CASE h[1] = root
    <3>1. spot(h) \in 1..l /\ spot(h) = h[2]
      BY <1>18, <2>3
    <3>2. k[1] = root
      <4>1. k[1] # root => spot(k) \in l + 1..l + n
        BY <1>18
      <4> QED
        BY <2>1, <3>1, <4>1
    <3>3. spot(k) = k[2]
      BY <1>18, <3>2
    <3> QED
      BY <2>1, <2>2, <2>3, <3>1, <3>2, <3>3
  <2>4. CASE h[1] # root
    <3>1. h[1] \in T /\ h[2] = 1 /\ spot(h) \in l + 1..l + n /\ spot(h) = l + Place(T, h[1])
      BY <1>18, <2>4
    <3>2. k[1] # root
      <4>1. k[1] = root => spot(k) \in 1..l
        BY <1>18
      <4> QED
        BY <2>1, <3>1, <4>1
    <3>3. k[1] \in T /\ k[2] = 1 /\ spot(k) = l + Place(T, k[1])
      BY <1>18, <3>2
    <3>4. Place(T, h[1]) = Place(T, k[1])
      <4>1. PICK a, b \in 1..n : a = Place(T, h[1]) /\ b = Place(T, k[1])
        BY <1>7, <3>1, <3>3
      <4>2. l + a = l + b
        BY <2>1, <3>1, <3>3, <4>1
      <4>3. a = b
        BY <4>2
      <4> QED
        BY <4>1, <4>3
    <3>5. h[1] = k[1]
      BY <1>7, <3>1, <3>3, <3>4
    <3> QED
      BY <2>2, <3>1, <3>3, <3>5
  <2> QED
    BY <2>3, <2>4
<1>22. ASSUME NEW h \in others PROVE \E k \in hits : f[k] = h
  <2>1. PICK j \in 1..l + n : h = <<1, j>> /\ (outs \o tail)[j] = output
    BY <1>17
  <2>2. CASE j <= l
    <3>1. j \in 1..Len(ds[root].outputs) /\ ds[root].outputs[j] = output
      BY <1>3, <1>11, <2>1, <2>2 DEF outs
    <3>2. <<root, j>> \in hits
      BY <1>14, <3>1
    <3>3. spot(<<root, j>>) = j
      BY DEF spot
    <3> QED
      BY <1>19, <2>1, <3>2, <3>3
  <2>3. CASE ~(j <= l)
    <3>1. PICK k \in 1..n : k = j - l
      BY <2>3
    <3>2. InOrder(T)[k] \in T /\ Place(T, InOrder(T)[k]) = k
      BY <1>7
    <3>3. PICK i \in T : i = InOrder(T)[k] /\ Place(T, i) = k
      BY <3>2
    <3>4. tail[k] = output
      BY <1>11, <2>1, <2>3, <3>1
    <3>5. 1 \in 1..Len(ds[i].outputs) /\ ds[i].outputs[1] = output
      BY <1>9, <3>3, <3>4
    <3>6. <<i, 1>> \in hits
      BY <1>14, <3>5
    <3>7. i # root
      BY <1>1
    <3>8. spot(<<i, 1>>) = l + k
      BY <3>3, <3>7 DEF spot
    <3>9. l + k = j
      BY <3>1
    <3> QED
      BY <1>19, <2>1, <3>6, <3>8, <3>9
  <2> QED
    BY <2>2, <2>3
<1>23. Cardinality(others) = Cardinality(hits)
  BY <1>14, <1>20, <1>21, <1>22, SameSize
<1>24. Times(es, output) = Cardinality(others)
  BY <1>13, TimesAre DEF others
<1> QED
  BY <1>12, <1>23, <1>24 DEF chief, es, hits
-----------------------------------------------------------------------------
PoolEntry == [index : I32, from : I32, count : I32]
Code == [index : I32, from : I32, count : I32, envs : Seq(I32)]
Input == [start : Nat, bits : Nat, dump : Seq(Byte8)]
Steps == {"services", "dtcs", "envs", "inputs", "downloads", "done", "panicked"}

Repeats == {i \in DOMAIN cbf.inputs : Repeated(cbf.inputs[i])}
Taken == {i \in DOMAIN cbf.downloads : cbf.downloads[i].payload \notin map}

FileInv ==
  /\ cbf \in Files /\ step \in Steps
  /\ \A i \in DOMAIN services : services[i] \in 0..cbf.services - 1 \cup {Nobody}

CodesInv == dtcs \in Seq(Code) /\ DtcsAsPooled /\ EnvsAsReferenced

\* What delete_input_params has left is what it has not come to.
InputsInv ==
  /\ removed \in Nat /\ removed <= Cardinality(Repeats)
  /\ step \in {"downloads", "done"} => removed = Cardinality(Repeats)
  /\ inputs = Kept(cbf.inputs, 1..Len(cbf.inputs) \ First(Repeats, removed))

\* The outputs gathered are those of the payloads that are done.
DownloadsInv ==
  /\ map \subseteq Payloads /\ (step = "done" => map = {})
  /\ downloads \in Seq(Download)
  /\ \A output \in Nat :
       Times(downloads, output) = Cardinality(HitsIn(cbf.downloads, Taken, output))

LinksInv == FileInv /\ CodesInv /\ InputsInv /\ DownloadsInv

\* What was read.
LEMMA FileIs ==
  ASSUME cbf \in Files
  PROVE  /\ cbf.services \in Nat /\ cbf.dtcs \in Nat /\ cbf.envs \in Nat
         /\ cbf.servicePool \in Seq(I32) /\ cbf.envPool \in Seq(I32) /\ cbf.xrefs \in Seq(I32)
         /\ cbf.dtcPool \in Seq(PoolEntry) /\ cbf.inputs \in Seq(Input)
         /\ cbf.downloads \in Seq(Download)
<1>1. IsFile(cbf)
  BY FilesAssumption
<1> QED
  BY <1>1 DEF IsFile, PoolEntry, Input, Download

LEMMA WithinInt == Highest \in Nat /\ \A x \in I32 : x \in Int
<1>1. Highest \in Nat
  BY SMT DEF Highest
<1> QED
  BY <1>1, SMT DEF I32

LEMMA PoolAt ==
  ASSUME cbf \in Files, NEW i \in DOMAIN cbf.dtcPool
  PROVE  /\ cbf.dtcPool[i] \in PoolEntry
         /\ cbf.dtcPool[i].index \in Int /\ cbf.dtcPool[i].index \in I32
         /\ cbf.dtcPool[i].from \in I32 /\ cbf.dtcPool[i].count \in I32
<1>1. cbf.dtcPool[i] \in PoolEntry
  BY FileIs
<1>2. cbf.dtcPool[i].index \in I32
  BY <1>1 DEF PoolEntry
<1>3. cbf.dtcPool[i].index \in Int
  BY <1>2, WithinInt
<1> QED
  BY <1>1, <1>2, <1>3 DEF PoolEntry

\* pool.sort_by leaves the entries of the pool.
LEMMA SortedIs ==
  ASSUME cbf \in Files, NEW k \in DOMAIN cbf.dtcPool
  PROVE  Sorted(k) \in PoolEntry
<1> DEFINE S == DOMAIN cbf.dtcPool
           below == [i \in S |-> Smaller(i)]
<1>1. PICK n \in Nat : n = Len(cbf.dtcPool) /\ S = 1..n
  BY FileIs
<1>2. IsFiniteSet(S) /\ Cardinality(S) = n
  BY <1>1, UpTo1
<1>3. below \in [S -> SUBSET S] /\ \A i \in S : below[i] = Smaller(i)
  BY DEF Smaller
<1> DEFINE index(i) == cbf.dtcPool[i].index
<1>4. \A i \in S : index(i) \in Int /\ i \in Int
  BY <1>1, PoolAt
<1>5. \A i, j \in S : j \in below[i] <=> index(j) < index(i) \/ (index(j) = index(i) /\ j < i)
  BY <1>3 DEF Smaller
<1> HIDE DEF S, below, index
<1>6. \A i \in S : i \notin below[i]
  BY <1>4, <1>5
<1>7. ASSUME NEW i \in S, NEW j \in S, i \in below[j] PROVE below[i] \subseteq below[j]
  <2> SUFFICES ASSUME NEW r \in S, r \in below[i] PROVE r \in below[j]
    BY <1>3
  <2> QED
    BY <1>4, <1>5, <1>7
<1>8. \A i, j \in S : i # j => i \in below[j] \/ j \in below[i]
  BY <1>4, <1>5
<1>9. \A r \in 1..Cardinality(S) : \E i \in S : Cardinality(below[i]) = r - 1
  <2>1. \A i, j \in S : i # j =>
          \/ i \in below[j] /\ below[i] \subseteq below[j]
          \/ j \in below[i] /\ below[j] \subseteq below[i]
    BY <1>7, <1>8
  <2>2. Nests(S, below)
    BY <1>3, <1>6, <2>1 DEF Nests
  <2> QED
    BY <1>2, <2>2, RankIs DEF Ranked
<1>10. \E i \in S : Cardinality(below[i]) = k - 1
  BY <1>1, <1>2, <1>9 DEF S
<1>11. \E i \in DOMAIN cbf.dtcPool : Cardinality(Smaller(i)) = k - 1
  BY <1>3, <1>10 DEF S
<1>12. PICK i \in DOMAIN cbf.dtcPool : Sorted(k) = cbf.dtcPool[i]
  BY <1>11 DEF Sorted
<1> QED
  BY <1>12, PoolAt

LEMMA LinkIs ==
  ASSUME NEW entry \in PoolEntry
  PROVE  Link(entry) \in Code
<1>1. <<>> \in Seq(I32)
  OBVIOUS
<1> QED
  BY <1>1 DEF Link, PoolEntry, Code

LEMMA InputsStay ==
  ASSUME InputsInv, UNCHANGED <<cbf, inputs, removed>>, step' \notin {"downloads", "done"}
  PROVE  InputsInv'
<1>1. Repeats' = Repeats
  BY DEF Repeats, Repeated
<1> QED
  BY <1>1 DEF InputsInv

LEMMA DownloadsStay ==
  ASSUME DownloadsInv, UNCHANGED <<cbf, map, downloads>>, step' # "done"
  PROVE  DownloadsInv'
<1>1. Taken' = Taken /\ Payloads' = Payloads
  BY DEF Taken, Payloads
<1> QED
  BY <1>1 DEF DownloadsInv

LEMMA CodesStay ==
  ASSUME CodesInv, UNCHANGED <<cbf, dtcs>>,
         step' # "envs",
         step' \in {"inputs", "downloads", "done"} => step \in {"inputs", "downloads", "done"}
  PROVE  CodesInv'
<1>1. DtcsAsPooled'
  BY DEF DtcsAsPooled
<1>2. ASSUME NEW d PROVE Referenced(d)' = Referenced(d) /\ Overlong(d)' = Overlong(d)
  BY DEF Referenced, Overlong
<1>3. EnvsAsReferenced'
  BY <1>2 DEF CodesInv, EnvsAsReferenced
<1> QED
  BY <1>1, <1>3 DEF CodesInv

LEMMA PanicKeeps ==
  ASSUME LinksInv, Panic
  PROVE  LinksInv'
<1>1. UNCHANGED <<cbf, services, dtcs, inputs, removed, map, downloads>> /\ step' = "panicked"
  BY DEF Panic
<1>2. FileInv'
  BY <1>1 DEF LinksInv, FileInv, Steps
<1>3. CodesInv'
  BY <1>1, CodesStay DEF LinksInv
<1>4. InputsInv' /\ DownloadsInv'
  BY <1>1, InputsStay, DownloadsStay DEF LinksInv
<1> QED
  BY <1>2, <1>3, <1>4 DEF LinksInv

LEMMA ServicesKeep ==
  ASSUME LinksInv, LinkServices
  PROVE  LinksInv'
<1>1. step' = "dtcs" /\ UNCHANGED <<cbf, dtcs, inputs, removed, map, downloads>>
  BY DEF LinkServices
<1>2. \A i \in DOMAIN services' : services'[i] \in 0..cbf.services - 1 \cup {Nobody}
  BY DEF LinkServices
<1>3. FileInv'
  BY <1>1, <1>2 DEF LinksInv, FileInv, Steps
<1>4. CodesInv' /\ InputsInv' /\ DownloadsInv'
  BY <1>1, CodesStay, InputsStay, DownloadsStay DEF LinksInv
<1> QED
  BY <1>3, <1>4 DEF LinksInv

LEMMA DtcsKeep ==
  ASSUME LinksInv, LinkDtcs
  PROVE  LinksInv'
<1> DEFINE pool == cbf.dtcPool
           links == [i \in DOMAIN pool |-> Link(LinkDtc(i))]
           known == {i \in DOMAIN pool : Known(LinkDtc(i))}
<1>1. step' = "envs" /\ UNCHANGED <<cbf, services, inputs, removed, map, downloads>>
  BY DEF LinkDtcs
<1>2. dtcs' = Kept(links, known)
  BY DEF LinkDtcs
<1>3. cbf \in Files
  BY DEF LinksInv, FileInv
<1>4. FileInv' /\ InputsInv' /\ DownloadsInv'
  BY <1>1, InputsStay, DownloadsStay DEF LinksInv, FileInv, Steps
<1>5. PICK n \in Nat : n = Len(pool) /\ DOMAIN pool = 1..n
  BY <1>3, FileIs
<1>6. links \in Seq(Code) /\ Len(links) = n /\ \A i \in 1..n : links[i] = Link(LinkDtc(i))
  <2> DEFINE e(i) == Link(LinkDtc(i))
  <2>1. \A i \in 1..n : e(i) \in Code
    BY <1>3, <1>5, PoolAt, SortedIs, LinkIs DEF LinkDtc
  <2>2. links = [i \in 1..n |-> e(i)]
    BY <1>5
  <2> HIDE DEF e, links
  <2>3. [i \in 1..n |-> e(i)] \in Seq(Code) /\ Len([i \in 1..n |-> e(i)]) = n
    BY <2>1, IsASeq
  <2>4. \A i \in 1..n : [j \in 1..n |-> e(j)][i] = e(i)
    OBVIOUS
  <2> QED
    BY <2>2, <2>3, <2>4 DEF e
<1>7. known \subseteq 1..n
  BY <1>5
<1>8. \A i \in 1..n : Known(pool[i]) => i \in known /\ links[i] = Link(pool[i])
  BY <1>5, <1>6 DEF LinkDtc
<1> HIDE DEF links, known
<1>9. dtcs' \in Seq(Code) /\ Range(dtcs') = {links[i] : i \in known}
  BY <1>2, <1>6, <1>7, KeptIs, RangeKept
<1>10. \A i \in 1..n : Known(pool[i]) => Link(pool[i]) \in Range(dtcs')
  BY <1>8, <1>9
<1>11. ASSUME \A i \in 1..n : Known(pool[i])
       PROVE  dtcs' = [i \in DOMAIN pool |-> Link(pool[i])]
  <2>5. DOMAIN links = 1..n
    BY <1>6
  <2>6. \A i \in 1..n : i \in known
    BY <1>8, <1>11
  <2>1. known = DOMAIN links
    BY <1>7, <2>5, <2>6
  <2>2. dtcs' = links
    BY <1>2, <1>6, <2>1, KeptAll
  <2>3. \A i \in 1..n : links[i] = Link(pool[i])
    BY <1>8, <1>11
  <2>4. links = [i \in 1..n |-> Link(pool[i])]
    BY <1>6, <2>3
  <2> QED
    BY <1>5, <2>2, <2>4
<1>12. DtcsAsPooled'
  <2>1. (\A i \in DOMAIN cbf.dtcPool :
           Known(cbf.dtcPool[i]) => Link(cbf.dtcPool[i]) \in Range(dtcs))'
    BY <1>1, <1>5, <1>10 DEF Known, Link
  <2>2. ((\A i \in DOMAIN cbf.dtcPool : Known(cbf.dtcPool[i])) =>
           dtcs = [i \in DOMAIN cbf.dtcPool |-> Link(cbf.dtcPool[i])])'
    BY <1>1, <1>5, <1>11 DEF Known, Link
  <2> QED
    BY <2>1, <2>2 DEF DtcsAsPooled
<1>13. EnvsAsReferenced'
  BY <1>1 DEF EnvsAsReferenced
<1> QED
  BY <1>4, <1>9, <1>12, <1>13 DEF LinksInv, CodesInv

\* An environment is listed if the pool names one; those at their own place
\* are listed already.
LEMMA EnvsAre ==
  ASSUME cbf \in Files, \A i \in OwnPlaces : i <= cbf.envs
  PROVE  Range(Envs) = Range(cbf.envPool) \cap 0..cbf.envs - 1
<1> DEFINE pool == cbf.envPool
           valid == {i \in DOMAIN pool : pool[i] \in 0..cbf.envs - 1}
           a == Kept(pool, valid)
           b == Kept(pool, OwnPlaces)
<1>1. PICK n \in Nat : n = Len(pool) /\ DOMAIN pool = 1..n
  BY FileIs
<1>2. pool \in Seq(I32) /\ cbf.envs \in Nat
  BY FileIs
<1>3. valid \subseteq 1..Len(pool) /\ OwnPlaces \subseteq 1..Len(pool)
  BY <1>1 DEF OwnPlaces
<1>4. ASSUME NEW i \in OwnPlaces PROVE i \in valid
  <2>1. i \in 1..n /\ pool[i] = i - 1 /\ i <= cbf.envs
    BY <1>1 DEF OwnPlaces
  <2> QED
    BY <1>1, <1>2, <2>1
<1> HIDE DEF pool
<1>5. /\ a \in Seq(I32) /\ Range(a) = {pool[i] : i \in valid}
      /\ b \in Seq(I32) /\ Range(b) = {pool[i] : i \in OwnPlaces}
  <2> HIDE DEF valid
  <2> QED
    BY <1>2, <1>3, KeptIs, RangeKept
<1>6. Range(pool) = {pool[i] : i \in 1..n}
  BY <1>1 DEF Range, pool
<1>7. Range(a) = Range(pool) \cap 0..cbf.envs - 1
  <2>1. {pool[i] : i \in valid} = {pool[i] : i \in 1..n} \cap 0..cbf.envs - 1
    BY <1>1 DEF pool
  <2> QED
    BY <1>5, <1>6, <2>1
<1>8. Range(b) \subseteq Range(a)
  BY <1>4, <1>5
<1> HIDE DEF a, b, valid
<1>9. Range(a \o b) = Range(a) \cup Range(b)
  BY <1>5, RangeConcat
<1>10. Envs = a \o b
  BY DEF Envs, a, b, pool, valid
<1> QED
  BY <1>7, <1>8, <1>9, <1>10 DEF pool

LEMMA EnvsOfIs ==
  ASSUME cbf \in Files, \A i \in OwnPlaces : i <= cbf.envs, NEW d \in Code
  PROVE  /\ EnvsOf(d) \in Seq(I32)
         /\ ~Overlong(d) => Holds(cbf.xrefs, Referenced(d), EnvsOf(d), Cardinality(Referenced(d)))
<1> DEFINE at == {p \in DOMAIN cbf.xrefs : p \in XrefsOf(d) /\ cbf.xrefs[p] \in Range(Envs)}
<1>1. cbf.xrefs \in Seq(I32) /\ at \subseteq 1..Len(cbf.xrefs)
  BY FileIs
<1>2. EnvsOf(d) = Kept(cbf.xrefs, at)
  BY DEF EnvsOf
<1>3. ASSUME ~Overlong(d) PROVE at = Referenced(d)
  <2>1. d.from \in Int /\ d.count \in Int
    BY WithinInt DEF Code
  <2>2. XrefsOf(d) = d.from + 1..d.from + d.count
    BY <1>3 DEF XrefsOf
  <2>3. ASSUME NEW p \in 1..Len(cbf.xrefs)
        PROVE  p \in XrefsOf(d) <=> p - d.from \in 1..d.count
    <3>1. p \in Int
      OBVIOUS
    <3> QED
      BY <2>1, <2>2, <3>1
  <2>4. DOMAIN cbf.xrefs = 1..Len(cbf.xrefs)
    BY <1>1
  <2> QED
    BY <2>3, <2>4, EnvsAre DEF Referenced
<1> HIDE DEF at
<1>4. EnvsOf(d) \in Seq(I32) /\ Holds(cbf.xrefs, at, EnvsOf(d), Cardinality(at))
  BY <1>1, <1>2, KeptIs
<1> QED
  BY <1>3, <1>4

LEMMA EnvsKeep ==
  ASSUME LinksInv, LinkEnvs
  PROVE  LinksInv'
<1>1. CASE Panic
  BY <1>1, PanicKeeps
<1>2. CASE ~Panic
  <2>1. /\ step' = "inputs" /\ UNCHANGED <<cbf, services, inputs, removed, map, downloads>>
        /\ dtcs' = [i \in DOMAIN dtcs |-> [dtcs[i] EXCEPT !.envs = EnvsOf(dtcs[i])]]
    BY <1>2 DEF LinkEnvs
  <2>2. cbf \in Files /\ dtcs \in Seq(Code)
    BY DEF LinksInv, FileInv, CodesInv
  <2>3. \A i \in OwnPlaces : i <= cbf.envs
    <3>1. \A i \in OwnPlaces : ~(i > cbf.envs)
      BY <1>2 DEF LinkEnvs
    <3>2. \A i \in OwnPlaces : i \in Nat /\ cbf.envs \in Nat
      <4>1. cbf.envPool \in Seq(I32) /\ cbf.envs \in Nat
        BY <2>2, FileIs
      <4>2. DOMAIN cbf.envPool = 1..Len(cbf.envPool) /\ Len(cbf.envPool) \in Nat
        BY <4>1
      <4> QED
        BY <4>1, <4>2 DEF OwnPlaces
    <3> QED
      BY <3>1, <3>2
  <2>4. FileInv' /\ InputsInv' /\ DownloadsInv'
    BY <2>1, InputsStay, DownloadsStay DEF LinksInv, FileInv, Steps
  <2>5. PICK n \in Nat : n = Len(dtcs) /\ DOMAIN dtcs = 1..n
    BY <2>2
  <2>6. \A i \in 1..n : dtcs[i] \in Code
    BY <2>2, <2>5
  <2> DEFINE e(i) == [dtcs[i] EXCEPT !.envs = EnvsOf(dtcs[i])]
  <2>7. ASSUME NEW i \in 1..n
        PROVE  /\ e(i) \in Code /\ e(i).envs = EnvsOf(dtcs[i])
               /\ e(i).from = dtcs[i].from /\ e(i).count = dtcs[i].count
    <3>1. dtcs[i] \in Code /\ EnvsOf(dtcs[i]) \in Seq(I32)
      BY <2>2, <2>3, <2>6, EnvsOfIs
    <3> QED
      BY <3>1 DEF Code
  <2>8. dtcs' = [i \in 1..n |-> e(i)]
    BY <2>1, <2>5
  <2> HIDE DEF e
  <2>9. dtcs' \in Seq(Code) /\ DOMAIN dtcs' = 1..n /\ \A i \in 1..n : dtcs'[i] = e(i)
    <3>1. [i \in 1..n |-> e(i)] \in Seq(Code)
      BY <2>7, IsASeq
    <3> QED
      BY <2>8, <3>1
  <2>10. ASSUME NEW i \in 1..n, ~Overlong(e(i))
         PROVE  Holds(cbf.xrefs, Referenced(e(i)), e(i).envs, Cardinality(Referenced(e(i))))
    <3>1. ~Overlong(dtcs[i]) /\ Referenced(e(i)) = Referenced(dtcs[i])
      BY <2>7, <2>10 DEF Overlong, Referenced
    <3>2. dtcs[i] \in Code
      BY <2>6
    <3>3. Holds(cbf.xrefs, Referenced(dtcs[i]), EnvsOf(dtcs[i]), Cardinality(Referenced(dtcs[i])))
      BY <2>2, <2>3, <3>1, <3>2, EnvsOfIs
    <3> QED
      BY <2>7, <3>1, <3>3
  <2>11. EnvsAsReferenced'
    <3>1. ASSUME NEW d PROVE Referenced(d)' = Referenced(d) /\ Overlong(d)' = Overlong(d)
      BY <2>1 DEF Referenced, Overlong
    <3> DEFINE fits(d) == /\ Len(d.envs) = Cardinality(Referenced(d))
                          /\ \A p \in Referenced(d) : d.envs[Place(Referenced(d), p)] = cbf.xrefs[p]
    <3>2. \A i \in 1..n : ~Overlong(dtcs'[i]) => fits(dtcs'[i])
      BY <2>9, <2>10 DEF Holds
    <3>3. \A i \in DOMAIN dtcs' : ~Overlong(dtcs'[i]) => fits(dtcs'[i])
      BY <2>9, <3>2
    <3> QED
      BY <2>1, <3>1, <3>3 DEF EnvsAsReferenced
  <2>12. DtcsAsPooled'
    BY <2>1 DEF DtcsAsPooled
  <2> QED
    BY <2>4, <2>9, <2>11, <2>12 DEF LinksInv, CodesInv
<1> QED
  BY <1>1, <1>2

LEMMA ToDeleteIs ==
  ASSUME cbf \in Files
  PROVE  /\ Repeats \subseteq 1..Len(cbf.inputs) /\ cbf.inputs \in Seq(Input)
         /\ IsFiniteSet(Repeats) /\ Repeats \subseteq Nat
         /\ Cardinality(Repeats) \in Nat /\ Cardinality(Repeats) <= Len(cbf.inputs)
         /\ ToDelete = InOrder(Repeats) /\ Len(ToDelete) = Cardinality(Repeats)
<1>1. cbf.inputs \in Seq(Input)
  BY FileIs
<1>2. Repeats \subseteq 1..Len(cbf.inputs)
  BY <1>1 DEF Repeats
<1>3. /\ IsFiniteSet(Repeats) /\ Repeats \subseteq Nat
      /\ Cardinality(Repeats) \in Nat /\ Cardinality(Repeats) <= Len(cbf.inputs)
  BY <1>1, <1>2, KeptIs
<1>4. ToDelete = InOrder(Repeats)
  BY DEF ToDelete, Repeats
<1>5. PICK n \in Nat : n = Cardinality(Repeats)
  BY <1>3
<1>6. InOrder(Repeats) \in [1..n -> Repeats]
  BY <1>3, <1>5, InOrderIs
<1>7. Len(InOrder(Repeats)) = n
  <2> DEFINE s == InOrder(Repeats)
  <2>1. s \in Seq(Repeats) /\ DOMAIN s = 1..n
    BY <1>6
  <2> HIDE DEF s
  <2> QED
    BY <2>1 DEF s
<1> QED
  BY <1>1, <1>2, <1>3, <1>4, <1>5, <1>7

LEMMA InputKeeps ==
  ASSUME LinksInv, DeleteInput
  PROVE  LinksInv'
<1>1. /\ step = "inputs" /\ step' = "inputs" /\ removed < Len(ToDelete)
      /\ inputs' = RemoveAt(inputs, ToDelete[removed + 1] - removed)
      /\ removed' = removed + 1
      /\ UNCHANGED <<cbf, services, dtcs, map, downloads>>
  BY DEF DeleteInput
<1>2. cbf \in Files
  BY DEF LinksInv, FileInv
<1>3. FileInv' /\ CodesInv' /\ DownloadsInv'
  BY <1>1, CodesStay, DownloadsStay DEF LinksInv, FileInv
<1>4. PICK m \in Nat : m = Len(cbf.inputs)
  BY <1>2, FileIs
<1> DEFINE D == Repeats
           stays == 1..m \ First(D, removed)
           e == InOrder(D)[removed + 1]
<1>5. /\ D \subseteq 1..m /\ cbf.inputs \in Seq(Input) /\ Cardinality(D) \in Nat
      /\ ToDelete = InOrder(D) /\ Len(ToDelete) = Cardinality(D)
  BY <1>2, <1>4, ToDeleteIs
<1>6. removed \in Nat /\ inputs = Kept(cbf.inputs, stays)
  BY <1>4 DEF LinksInv, InputsInv
<1> HIDE DEF D
<1>7. removed < Cardinality(D)
  BY <1>1, <1>5
<1>8. e \in stays /\ Place(stays, e) = e - removed /\ stays \ {e} = 1..m \ First(D, removed + 1)
  <2>1. D \subseteq 1..m /\ removed \in Nat /\ removed < Cardinality(D)
    BY <1>5, <1>6, <1>7
  <2>2. NextOf(m, D, removed, e, stays)
    BY <2>1, NextMoved
  <2> QED
    BY <2>2 DEF NextOf
<1>9. stays \subseteq 1..Len(cbf.inputs)
  BY <1>4
<1>10. inputs' = RemoveAt(Kept(cbf.inputs, stays), Place(stays, e))
  BY <1>1, <1>5, <1>6, <1>8
<1> HIDE DEF stays, e
<1>11. inputs' = Kept(cbf.inputs, stays \ {e})
  BY <1>5, <1>8, <1>9, <1>10, RemoveKept
<1>12. Repeats' = D
  BY <1>1 DEF D, Repeats, Repeated
<1>13. InputsInv'
  <2>1. removed' \in Nat /\ removed' <= Cardinality(D)
    BY <1>1, <1>5, <1>6, <1>7
  <2> QED
    BY <1>1, <1>4, <1>8, <1>11, <1>12, <2>1 DEF InputsInv
<1> QED
  BY <1>3, <1>13 DEF LinksInv

LEMMA InputsDeletedKeep ==
  ASSUME LinksInv, InputsDeleted
  PROVE  LinksInv'
<1>1. /\ step = "inputs" /\ step' = "downloads" /\ removed = Len(ToDelete)
      /\ UNCHANGED <<cbf, services, dtcs, inputs, removed, map, downloads>>
  BY DEF InputsDeleted
<1>2. FileInv' /\ CodesInv' /\ DownloadsInv'
  BY <1>1, CodesStay, DownloadsStay DEF LinksInv, FileInv, Steps
<1>3. removed = Cardinality(Repeats)
  BY <1>1, ToDeleteIs DEF LinksInv, FileInv
<1>4. Repeats' = Repeats
  BY <1>1 DEF Repeats, Repeated
<1>5. InputsInv'
  BY <1>1, <1>3, <1>4 DEF LinksInv, InputsInv
<1> QED
  BY <1>2, <1>5 DEF LinksInv

\* A group is gathered without losing an output or doubling one.
LEMMA TimesGathered ==
  ASSUME cbf \in Files, NEW p \in Payloads, NEW output
  PROVE  /\ Gathered(SamePayload(p)) \in Seq(Download)
         /\ Times(Gathered(SamePayload(p)), output) =
              Cardinality(HitsIn(cbf.downloads, SamePayload(p), output))
<1> DEFINE ds == cbf.downloads
           G == SamePayload(p)
           T == Singles(G)
           chief == Chief(ds, G, T)
           rest == G \ ({Root(G)} \cup T)
<1>1. ds \in Seq(Download)
  BY FileIs
<1>2. G \subseteq DOMAIN ds /\ G # {}
  BY DEF SamePayload, Payloads
<1>3. G \subseteq 1..Len(ds)
  BY <1>1, <1>2
<1>4. Root(G) \in G
  <2>1. IsFiniteSet(G) /\ G \subseteq Nat /\ Cardinality(G) \in Nat
    BY <1>1, <1>3, KeptIs
  <2>2. Cardinality(G) # 0
    BY <1>2, <2>1, FS_EmptySet
  <2>3. InOrder(G) \in [1..Cardinality(G) -> G]
    BY <2>1, InOrderIs
  <2>4. 1 \in 1..Cardinality(G)
    BY <2>1, <2>2
  <2> QED
    BY <2>3, <2>4 DEF Root
<1>5. T \subseteq G \ {Root(G)} /\ \A i \in T : Len(ds[i].outputs) = 1
  BY DEF Singles
<1>6. Gathered(G) = Kept(ds, rest) \o <<chief>>
  BY DEF Gathered, Chief
<1> HIDE DEF G, T
<1>7. chief \in Download
  BY <1>1, <1>2, <1>4, <1>5, TimesChief
<1>8. Times(<<chief>>, output) = Cardinality(HitsIn(ds, {Root(G)} \cup T, output))
  BY <1>1, <1>2, <1>4, <1>5, TimesChief
<1>9. /\ rest \subseteq DOMAIN ds /\ {Root(G)} \cup T \subseteq DOMAIN ds
      /\ rest \cap ({Root(G)} \cup T) = {} /\ rest \cup ({Root(G)} \cup T) = G
  BY <1>2, <1>4, <1>5
<1> DEFINE first == {Root(G)} \cup T
<1> HIDE DEF chief, rest, first, ds
<1>10. Kept(ds, rest) \in Seq(Download) /\ Times(Kept(ds, rest), output) = Cardinality(HitsIn(ds, rest, output))
  BY <1>1, <1>9, TimesKept
<1>11. <<chief>> \in Seq(Download)
  BY <1>7
<1> DEFINE kept == Kept(ds, rest)
           last == <<chief>>
<1> HIDE DEF kept, last
<1>12. /\ kept \o last \in Seq(Download)
       /\ Times(kept \o last, output) = Times(kept, output) + Times(last, output)
  BY <1>10, <1>11, TimesConcat DEF kept, last
<1>13. Cardinality(HitsIn(ds, rest \cup first, output)) =
         Cardinality(HitsIn(ds, rest, output)) + Cardinality(HitsIn(ds, first, output))
  BY <1>1, <1>9, HitsApart DEF first
<1>14. rest \cup first = G
  BY <1>9 DEF first
<1>15. Times(last, output) = Cardinality(HitsIn(ds, first, output))
  BY <1>8 DEF last, first
<1>16. Times(kept, output) = Cardinality(HitsIn(ds, rest, output))
  BY <1>10 DEF kept
<1>17. Gathered(G) = kept \o last
  BY <1>6 DEF kept, last
<1> QED
  BY <1>12, <1>13, <1>14, <1>15, <1>16, <1>17 DEF G, ds

LEMMA GatherKeeps ==
  ASSUME LinksInv, GatherDownloads
  PROVE  LinksInv'
<1>1. CASE Panic
  BY <1>1, PanicKeeps
<1>2. CASE ~Panic
  <2>1. PICK p \in map :
          /\ downloads' = downloads \o Gathered(SamePayload(p)) /\ map' = map \ {p}
          /\ UNCHANGED <<cbf, step, services, dtcs, inputs, removed>>
    BY <1>2 DEF GatherDownloads
  <2>2. step = "downloads" /\ step' = "downloads"
    BY <2>1 DEF GatherDownloads
  <2>3. cbf \in Files /\ p \in Payloads /\ downloads \in Seq(Download) /\ map \subseteq Payloads
    BY DEF LinksInv, FileInv, DownloadsInv
  <2>4. FileInv' /\ CodesInv'
    BY <2>1, <2>2, CodesStay DEF LinksInv, FileInv
  <2>5. InputsInv'
    <3>1. Repeats' = Repeats
      BY <2>1 DEF Repeats, Repeated
    <3> QED
      BY <2>1, <2>2, <3>1 DEF LinksInv, InputsInv
  <2> DEFINE ds == cbf.downloads
             G == SamePayload(p)
             done == Taken
  <2>6. ds \in Seq(Download) /\ G \subseteq DOMAIN ds /\ done \subseteq DOMAIN ds
    BY <2>3, FileIs DEF SamePayload, Taken
  <2>7. Taken' = done \cup G
    <3>1. Taken' = {i \in DOMAIN ds : ds[i].payload \notin map \ {p}}
      BY <2>1 DEF Taken
    <3> QED
      BY <3>1 DEF Taken, SamePayload
  <2>8. done \cap G = {}
    BY DEF Taken, SamePayload
  <2>9. Gathered(G) \in Seq(Download)
    BY <2>3, TimesGathered
  <2>10. downloads' \in Seq(Download)
    BY <2>1, <2>3, <2>9, ConcatProperties
  <2>11. ASSUME NEW output \in Nat
         PROVE  Times(downloads', output) = Cardinality(HitsIn(ds, done \cup G, output))
    <3>1. Times(downloads', output) = Times(downloads, output) + Times(Gathered(G), output)
      BY <2>1, <2>3, <2>9, TimesConcat
    <3>2. Times(downloads, output) = Cardinality(HitsIn(ds, done, output))
      BY DEF LinksInv, DownloadsInv
    <3>3. Times(Gathered(G), output) = Cardinality(HitsIn(ds, G, output))
      BY <2>3, TimesGathered
    <3> HIDE DEF ds, G, done
    <3>4. Cardinality(HitsIn(ds, done \cup G, output)) =
            Cardinality(HitsIn(ds, done, output)) + Cardinality(HitsIn(ds, G, output))
      BY <2>6, <2>8, HitsApart
    <3> QED
      BY <3>1, <3>2, <3>3, <3>4
  <2>12. DownloadsInv'
    <3>1. Payloads' = Payloads /\ map' \subseteq Payloads
      BY <2>1, <2>3 DEF Payloads
    <3> HIDE DEF G, done
    <3>2. (\A output \in Nat :
             Times(downloads, output) = Cardinality(HitsIn(cbf.downloads, Taken, output)))'
      BY <2>1, <2>7, <2>11
    <3> QED
      BY <2>2, <2>10, <3>1, <3>2 DEF DownloadsInv
  <2> QED
    BY <2>4, <2>5, <2>12 DEF LinksInv
<1> QED
  BY <1>1, <1>2

LEMMA GatheredKeep ==
  ASSUME LinksInv, DownloadsGathered
  PROVE  LinksInv'
<1>1. /\ step = "downloads" /\ step' = "done" /\ map = {}
      /\ UNCHANGED <<cbf, services, dtcs, inputs, removed, map, downloads>>
  BY DEF DownloadsGathered
<1>2. FileInv' /\ CodesInv'
  BY <1>1, CodesStay DEF LinksInv, FileInv, Steps
<1>3. Repeats' = Repeats /\ Taken' = Taken /\ Payloads' = Payloads
  BY <1>1 DEF Repeats, Repeated, Taken, Payloads
<1>4. InputsInv' /\ DownloadsInv'
  BY <1>1, <1>3 DEF LinksInv, InputsInv, DownloadsInv
<1> QED
  BY <1>2, <1>4 DEF LinksInv

LEMMA LinksStart ==
  ASSUME LinksInit
  PROVE  LinksInv
<1>1. /\ cbf \in Files /\ step = "services" /\ services = <<>> /\ dtcs = <<>>
      /\ inputs = cbf.inputs /\ removed = 0 /\ map = Payloads /\ downloads = <<>>
  BY DEF LinksInit
<1>2. FileInv
  BY <1>1 DEF FileInv, Steps
<1>3. CodesInv
  <2>1. <<>> \in Seq(Code)
    OBVIOUS
  <2> QED
    BY <1>1, <2>1 DEF CodesInv, DtcsAsPooled, EnvsAsReferenced
<1>4. InputsInv
  <2>1. /\ Repeats \subseteq 1..Len(cbf.inputs) /\ cbf.inputs \in Seq(Input)
        /\ Cardinality(Repeats) \in Nat
    BY <1>1, ToDeleteIs
  <2>2. First(Repeats, 0) = {}
    BY DEF First
  <2>3. 1..Len(cbf.inputs) \ First(Repeats, 0) = DOMAIN cbf.inputs
    BY <2>1, <2>2
  <2>4. Kept(cbf.inputs, DOMAIN cbf.inputs) = cbf.inputs
    BY <2>1, KeptAll
  <2>5. inputs = Kept(cbf.inputs, 1..Len(cbf.inputs) \ First(Repeats, removed))
    BY <1>1, <2>3, <2>4
  <2>6. removed \in Nat /\ removed <= Cardinality(Repeats)
    BY <1>1, <2>1
  <2> QED
    BY <1>1, <2>5, <2>6 DEF InputsInv
<1>5. DownloadsInv
  <2>1. Taken = {}
    BY <1>1 DEF Taken, Payloads
  <2>2. <<>> \in Seq(Download)
    OBVIOUS
  <2>3. ASSUME NEW output PROVE Times(<<>>, output) = 0
    <3>1. HitsIn(<<>>, DOMAIN <<>>, output) = {}
      BY DEF HitsIn, OutputPlaces
    <3> QED
      BY <2>2, <3>1, TimesAre, FS_EmptySet
  <2>4. ASSUME NEW output PROVE Cardinality(HitsIn(cbf.downloads, {}, output)) = 0
    <3>1. HitsIn(cbf.downloads, {}, output) = {}
      BY DEF HitsIn
    <3> QED
      BY <3>1, FS_EmptySet
  <2> QED
    BY <1>1, <2>1, <2>2, <2>3, <2>4 DEF DownloadsInv
<1> QED
  BY <1>2, <1>3, <1>4, <1>5 DEF LinksInv

LEMMA LinksSteps ==
  ASSUME LinksInv, [LinksNext]_linkVars
  PROVE  LinksInv'
<1>1. CASE LinksNext
  BY <1>1, ServicesKeep, DtcsKeep, EnvsKeep, InputKeeps, InputsDeletedKeep, GatherKeeps, GatheredKeep
     DEF LinksNext
<1>2. CASE UNCHANGED linkVars
  <2>1. UNCHANGED <<cbf, step, services, dtcs, inputs, removed, map, downloads>>
    BY <1>2 DEF linkVars
  <2>2. FileInv'
    BY <2>1 DEF LinksInv, FileInv
  <2>3. CodesInv'
    <3>1. CASE step # "envs"
      BY <2>1, <3>1, CodesStay DEF LinksInv
    <3>2. CASE step = "envs"
      <4>1. (\A i \in DOMAIN cbf.dtcPool :
               Known(cbf.dtcPool[i]) => Link(cbf.dtcPool[i]) \in Range(dtcs))'
        BY <2>1, <3>2 DEF LinksInv, CodesInv, DtcsAsPooled, Known, Link
      <4>2. ((\A i \in DOMAIN cbf.dtcPool : Known(cbf.dtcPool[i])) =>
               dtcs = [i \in DOMAIN cbf.dtcPool |-> Link(cbf.dtcPool[i])])'
        BY <2>1, <3>2 DEF LinksInv, CodesInv, DtcsAsPooled, Known, Link
      <4>3. DtcsAsPooled' /\ EnvsAsReferenced'
        BY <2>1, <3>2, <4>1, <4>2 DEF DtcsAsPooled, EnvsAsReferenced
      <4> QED
        BY <2>1, <4>3 DEF LinksInv, CodesInv
    <3> QED
      BY <3>1, <3>2
  <2>4. Repeats' = Repeats /\ Taken' = Taken /\ Payloads' = Payloads
    BY <2>1 DEF Repeats, Repeated, Taken, Payloads
  <2>5. InputsInv' /\ DownloadsInv'
    BY <2>1, <2>4 DEF LinksInv, InputsInv, DownloadsInv
  <2> QED
    BY <2>2, <2>3, <2>5 DEF LinksInv
<1> QED
  BY <1>1, <1>2

LEMMA LinksTell ==
  ASSUME LinksInv
  PROVE  LinksKept
<1>1. cbf \in Files
  BY DEF LinksInv, FileInv
<1>2. /\ Repeats \subseteq 1..Len(cbf.inputs) /\ cbf.inputs \in Seq(Input)
      /\ IsFiniteSet(Repeats) /\ Repeats \subseteq Nat
      /\ Cardinality(Repeats) \in Nat /\ Cardinality(Repeats) <= Len(cbf.inputs)
  BY <1>1, ToDeleteIs
<1>3. LinksTypeOK
  <2>1. removed \in 0..Len(cbf.inputs)
    <3>1. Len(cbf.inputs) \in Nat
      BY <1>2
    <3> QED
      BY <1>2, <3>1 DEF LinksInv, InputsInv
  <2> QED
    BY <2>1 DEF LinksInv, FileInv, DownloadsInv, LinksTypeOK, Steps
<1>4. InputsNotRepeated
  <2> SUFFICES ASSUME step \in {"downloads", "done"}
               PROVE  LET wanted == {i \in DOMAIN cbf.inputs : ~Repeated(cbf.inputs[i])} IN
                        /\ Len(inputs) = Cardinality(wanted)
                        /\ \A i \in wanted : inputs[Place(wanted, i)] = cbf.inputs[i]
    BY DEF InputsNotRepeated
  <2> DEFINE wanted == {i \in DOMAIN cbf.inputs : ~Repeated(cbf.inputs[i])}
  <2>1. removed = Cardinality(Repeats) /\ inputs = Kept(cbf.inputs, 1..Len(cbf.inputs) \ First(Repeats, removed))
    BY DEF LinksInv, InputsInv
  <2>2. First(Repeats, removed) = Repeats
    <3>1. removed \in 0..Cardinality(Repeats)
      BY <1>2, <2>1
    <3>2. First(Repeats, removed) \subseteq Repeats
      BY <1>2, <3>1, FirstIs
    <3>3. Cardinality(First(Repeats, removed)) = Cardinality(Repeats)
      BY <1>2, <2>1, <3>1, FirstIs
    <3> QED
      BY <1>2, <3>2, <3>3, FS_Subset
  <2>3. wanted = 1..Len(cbf.inputs) \ Repeats
    BY <1>2 DEF Repeats
  <2>4. wanted \subseteq 1..Len(cbf.inputs)
    BY <2>3
  <2> HIDE DEF wanted
  <2>5. inputs = Kept(cbf.inputs, wanted)
    BY <2>1, <2>2, <2>3
  <2>6. Holds(cbf.inputs, wanted, inputs, Cardinality(wanted))
    BY <1>2, <2>4, <2>5, KeptIs
  <2> QED
    BY <2>6 DEF Holds, wanted
<1>5. OutputsKept
  <2> SUFFICES ASSUME step = "done",
                      NEW output \in Outputs(downloads) \cup Outputs(cbf.downloads)
               PROVE  Times(downloads, output) = Times(cbf.downloads, output)
    BY DEF OutputsKept
  <2>1. map = {} /\ downloads \in Seq(Download)
    BY DEF LinksInv, DownloadsInv
  <2>2. Taken = DOMAIN cbf.downloads
    BY <2>1 DEF Taken
  <2>3. ASSUME NEW ds \in Seq(Download), NEW o \in Outputs(ds) PROVE o \in Nat
    <3>1. PICK i \in DOMAIN ds : o \in Range(ds[i].outputs)
      BY <2>3 DEF Outputs
    <3>2. ds[i].outputs \in Seq(Nat)
      BY DownloadAt
    <3> QED
      BY <3>1, <3>2 DEF Range
  <2>4. output \in Nat
    BY <1>1, <2>1, <2>3, FileIs
  <2>5. Times(downloads, output) = Cardinality(HitsIn(cbf.downloads, DOMAIN cbf.downloads, output))
    BY <2>2, <2>4 DEF LinksInv, DownloadsInv
  <2>6. cbf.downloads \in Seq(Download)
    BY <1>1, FileIs
  <2> QED
    BY <2>5, <2>6, TimesAre
<1> QED
  BY <1>3, <1>4, <1>5 DEF LinksInv, CodesInv, LinksKept

(* What a variant is linked to is what its file names, for every file:     *)
(* trouble codes with their ranges, environments in the order they are     *)
(* referenced in, the inputs its payload does not hold, and every output   *)
(* as often as the file has it (LinksKept).                                *)
THEOREM LinksAreKept == LinksSpec => []LinksKept
<1>1. LinksInit => LinksInv
  BY LinksStart
<1>2. LinksInv /\ [LinksNext]_linkVars => LinksInv'
  BY LinksSteps
<1>3. LinksInv => LinksKept
  BY LinksTell
<1> QED
  BY <1>1, <1>2, <1>3, PTL DEF LinksSpec
==============================================================================
