------------------------------ MODULE DiagScanner ------------------------------
(***************************************************************************)
(* The search for ECUs (struct DiagScanner): six stages, driven by the     *)
(* messages the page posts to itself.                                      *)
(*                                                                         *)
(* Stage 1 listens to idle traffic; stage 2 sends a fake ISO-TP first      *)
(* frame to every identifier, 100 ms each, and notes who answers with a    *)
(* flow control; stage 3 asks again with the filter set to that answer;    *)
(* stages 5 and 6 try a KWP2000 and a UDS session on every pair found.     *)
(* The adapter's CAN interface and the ECUs are external.  What two        *)
(* sessions do to each other is module SessionHandover's subject.          *)
(***************************************************************************)
EXTENDS Integers, Sequences, FiniteSets

CONSTANTS
  LastId,     \* 0x7FF
  ObdId,      \* 0x7DF, which is not scanned
  Networks,   \* cars: ecus (where each listens and answers), who of them knows
              \* KWP2000 and UDS, and chatter (other senders: what a frame looks like)
  MaxRx, MaxNoted  \* bounds: frames waiting in the adapter, times one sender is noted

\* What a frame is to the scan: a flow control, one without data, another.
Shapes == {"fc", "empty", "other"}

\* On CAN an identifier has one sender, and no ECU sends with the tester's.
ASSUME ScannerAssumption ==
  /\ LastId \in Nat /\ ObdId \in 1..LastId /\ MaxRx \in Nat /\ MaxNoted \in Nat
  /\ \A car \in Networks :
       /\ car.ecus \in [DOMAIN car.ecus -> Nat \ (DOMAIN car.chatter \cup {ObdId})]
       /\ \A s, t \in DOMAIN car.ecus : car.ecus[s] = car.ecus[t] => s = t
       /\ DOMAIN car.ecus \subseteq 0..LastId
       /\ car.chatter \in [DOMAIN car.chatter -> Shapes] /\ DOMAIN car.chatter \subseteq Nat

VARIABLES
  curr_stage, curr_scan_id,
  next,             \* the message under way, "none", or "panicked"
  expired,          \* the stage's time on the clock has passed
  can_traffic_id_list, stage2_results, stage3_results, stage4_results,
  keys,             \* stage2_results in the order its HashMap lists it
  filters, rx,      \* the adapter: identifiers that pass, frames that wait
  unfiltered,       \* without a filter it passes everything (SLCAN) or nothing
  bus,              \* identifiers asked whose flow control is under way
  network,
  trouble           \* history: "unheard" traffic, "refused" calls, answers that were
                    \* "late" and those that were late when asked for "again"

scanVars == <<curr_stage, curr_scan_id, next, expired, can_traffic_id_list,
              stage2_results, stage3_results, stage4_results, keys>>
adapterVars == <<filters, rx>>
vars == <<scanVars, adapterVars, unfiltered, bus, network, trouble>>
-----------------------------------------------------------------------------
None == [i \in {} |-> 0]
Ecus == network.ecus
Chatter == network.chatter
Anything == -1                                  \* the filter that passes everything

Passes(id) == IF filters = {} THEN unfiltered ELSE Anything \in filters \/ id \in filters
FlowControl(id) == [id |-> id, shape |-> "fc"]
Heard(frames) == {frames[i] : i \in 1..Len(frames)}
Listings(S) ==                                  \* every member once
  {list \in [1..Cardinality(S) -> S] :
     /\ \A s \in S : \E i \in DOMAIN list : list[i] = s
     /\ \A i, j \in DOMAIN list : list[i] = list[j] => i = j}

Init ==
  /\ curr_stage = 0 /\ curr_scan_id = 0 /\ next = "none" /\ expired = FALSE
  /\ can_traffic_id_list = {} /\ stage2_results = None
  /\ stage3_results = <<>> /\ stage4_results = <<>> /\ keys = <<>>
  /\ filters = {} /\ rx = <<>> /\ bus = {} /\ trouble = {}
  /\ unfiltered \in BOOLEAN /\ network \in Networks
-----------------------------------------------------------------------------
\* The bus.
Receive(frame) ==
  /\ curr_stage \in 1..3 /\ Len(rx) < MaxRx
  /\ rx' = IF Passes(frame.id) THEN Append(rx, frame) ELSE rx
  /\ UNCHANGED <<scanVars, filters, unfiltered, network, trouble>>

Answer == \E s \in bus : Receive(FlowControl(Ecus[s])) /\ bus' = bus \ {s}

\* (Bound: a sender is noted at most MaxNoted times.)
TimesNoted(c) ==
  Cardinality({i \in DOMAIN stage3_results : stage3_results[i].recv_id = c})
    + Cardinality({s \in DOMAIN stage2_results : c \in Heard(stage2_results[s])})
Chat ==
  \E c \in DOMAIN Chatter :
    /\ TimesNoted(c) < MaxNoted /\ (curr_scan_id \in DOMAIN stage2_results =>
                                   c \notin Heard(stage2_results[curr_scan_id]))
    /\ Receive([id |-> c, shape |-> Chatter[c]]) /\ UNCHANGED bus

\* The time of the stage passes; what is still under way then is late.
Elapse ==
  /\ curr_stage \in 1..4 /\ ~expired /\ expired' = TRUE
  /\ trouble' = trouble \cup
       IF curr_stage \in {2, 3} /\ (bus # {} \/ \E f \in Heard(rx) : f.id \notin DOMAIN Chatter)
       THEN {"late"} \cup IF curr_stage = 3 /\ curr_scan_id > 0 /\ keys[curr_scan_id] \in bus
                          THEN {"again"} ELSE {}
       ELSE {}
  /\ UNCHANGED <<curr_stage, curr_scan_id, next, can_traffic_id_list, stage2_results,
                 stage3_results, stage4_results, keys, adapterVars, unfiltered, bus, network>>

\* The fake first frame; the result of sending is ignored.
Sent(id) == bus' = bus \cup ({id} \cap DOMAIN Ecus)
CallRefused == trouble' = trouble \cup {"refused"}
Send(id) ==
  \/ Sent(id) /\ UNCHANGED trouble
  \/ UNCHANGED bus /\ CallRefused
-----------------------------------------------------------------------------
\* increment_stage; a stage of its own each.  An error posts no message.
Stay == UNCHANGED <<curr_stage, curr_scan_id, next, expired, can_traffic_id_list>>

\* The button of stage 0: battery, interface, filter and wake-up in turn.
Start ==
  /\ curr_stage = 0
  /\ \/ /\ curr_stage' = 1 /\ next' = "ScanPoll" /\ expired' = FALSE
        /\ can_traffic_id_list' = {} /\ filters' = {Anything}
        /\ UNCHANGED curr_scan_id
     \/ Stay /\ UNCHANGED filters
  /\ UNCHANGED <<stage2_results, stage3_results, stage4_results, keys, rx,
                 unfiltered, bus, network, trouble>>

IncrementStage(n) == next = "IncrementStage" /\ curr_stage = n
Advance == curr_stage' = curr_stage + 1 /\ curr_scan_id' = 0

EndListening ==
  /\ IncrementStage(1) /\ Advance
  /\ can_traffic_id_list' = can_traffic_id_list \cup {ObdId}
  /\ trouble' = trouble \cup IF DOMAIN Chatter \subseteq can_traffic_id_list THEN {} ELSE {"unheard"}
  /\ \/ next' = "ScanPoll" /\ rx' = <<>>
     \/ next' = "none" /\ UNCHANGED rx
  /\ UNCHANGED <<expired, stage2_results, stage3_results, stage4_results, keys, filters,
                 unfiltered, bus, network>>

\* Fault: the interface of stage 2 goes on being used.
BeginVerifying_KeepsFilter ==
  /\ IncrementStage(2)
  /\ Advance /\ next' = "ScanPoll"
  /\ keys' \in [1..Cardinality(DOMAIN stage2_results) -> DOMAIN stage2_results]
  /\ UNCHANGED <<expired, can_traffic_id_list, stage2_results, stage3_results, stage4_results,
                 adapterVars, unfiltered, bus, network, trouble>>

\* The interface is closed, with its filters and frames, and opened anew.
BeginVerifying ==
  /\ IncrementStage(2)
  /\ \/ /\ Advance /\ next' \in {"ScanPoll", "none"}
        /\ filters' = {} /\ rx' = <<>>
        /\ keys' \in Listings(DOMAIN stage2_results)
        /\ UNCHANGED <<expired, can_traffic_id_list>>
     \/ next' = "none" /\ UNCHANGED <<curr_stage, curr_scan_id, expired, can_traffic_id_list,
                                      keys, adapterVars>>
  /\ UNCHANGED <<stage2_results, stage3_results, stage4_results, unfiltered, bus, network, trouble>>

\* Closes the interface once more; cool down, KWP2000, UDS, done.
CoolDown ==
  /\ IncrementStage(3)
  /\ \/ Advance /\ next' = "ScanPoll" /\ expired' = FALSE
     \/ next' = "none" /\ UNCHANGED <<curr_stage, curr_scan_id, expired>>
  /\ UNCHANGED <<can_traffic_id_list, stage2_results, stage3_results, stage4_results, keys,
                 adapterVars, unfiltered, bus, network, trouble>>

LaterStage ==
  /\ \/ IncrementStage(4) /\ next' = "ScanPoll" /\ Advance
     \/ IncrementStage(5) /\ next' = "ScanPoll" /\ Advance
     \/ IncrementStage(6) /\ next' = "none" /\ curr_stage' = 7 /\ UNCHANGED curr_scan_id
  /\ UNCHANGED <<expired, can_traffic_id_list, stage2_results, stage3_results, stage4_results,
                 keys, adapterVars, unfiltered, bus, network, trouble>>
-----------------------------------------------------------------------------
ScanPoll(n) == next = "ScanPoll" /\ curr_stage = n

\* Stages 1 and 4 wait; stage 1 notes who talks.
PollWaiting ==
  /\ ScanPoll(1) \/ ScanPoll(4)
  /\ IF expired THEN next' = "IncrementStage" /\ UNCHANGED <<can_traffic_id_list, rx>>
     ELSE /\ can_traffic_id_list' =
               can_traffic_id_list \cup IF curr_stage = 1 THEN {f.id : f \in Heard(rx)} ELSE {}
          /\ rx' = <<>> /\ UNCHANGED next
  /\ UNCHANGED <<curr_stage, curr_scan_id, expired, stage2_results, stage3_results,
                 stage4_results, keys, filters, unfiltered, bus, network, trouble>>

\* get_next_canid.
NextId == CHOOSE n \in curr_scan_id + 1 .. curr_scan_id + 1 + Cardinality(can_traffic_id_list) :
  /\ n \notin can_traffic_id_list
  /\ \A m \in curr_scan_id + 1 .. n - 1 : m \in can_traffic_id_list

\* Fault: the end is looked for where skipping can step over it.
ScannedAll_Exactly == curr_scan_id = LastId

ScannedAll == curr_scan_id >= LastId

PollStage2Ends ==
  /\ ScanPoll(2) /\ ScannedAll
  /\ next' = "IncrementStage"
  /\ UNCHANGED <<curr_stage, curr_scan_id, expired, can_traffic_id_list, stage2_results,
                 stage3_results, stage4_results, keys, adapterVars, unfiltered, bus, network, trouble>>

\* Fault: the clock goes on from the identifier before.
PollStage2Sends_KeepsClock ==
  /\ ScanPoll(2) /\ ~ScannedAll /\ expired /\ curr_scan_id <= LastId
  /\ curr_scan_id' = NextId /\ rx' = <<>> /\ Send(NextId)
  /\ UNCHANGED <<curr_stage, next, expired, can_traffic_id_list, stage2_results, stage3_results,
                 stage4_results, keys, filters, unfiltered, network>>

\* (The bound on curr_scan_id never binds: scanning ends first.)
PollStage2Sends ==
  /\ ScanPoll(2) /\ ~ScannedAll /\ expired /\ curr_scan_id <= LastId
  /\ curr_scan_id' = NextId /\ rx' = <<>> /\ Send(NextId) /\ expired' = FALSE
  /\ UNCHANGED <<curr_stage, next, can_traffic_id_list, stage2_results, stage3_results,
                 stage4_results, keys, filters, unfiltered, network>>

\* The loop over the frames read, by their places; payload[0] of a frame
\* without data panics.
Read == DOMAIN rx
NewIds == {i \in Read : rx[i].id \notin can_traffic_id_list}
Panics(places) == \E i \in places : rx[i].shape = "empty"
RecvIds(places) ==
  {[i \in DOMAIN at |-> rx[at[i]].id] :
     at \in {list \in Listings({p \in places : rx[p].shape = "fc"}) :
              \A i, j \in DOMAIN list : i < j => list[i] < list[j]}}

\* Fault: a poll that finds nothing notes the identifier all the same.
Noted_Always(found) ==
  [s \in DOMAIN stage2_results \cup {curr_scan_id} |->
     (IF s \in DOMAIN stage2_results THEN stage2_results[s] ELSE <<>>)
       \o (IF s = curr_scan_id THEN found ELSE <<>>)]

Noted(found) ==
  IF found = <<>> THEN stage2_results
  ELSE [s \in DOMAIN stage2_results \cup {curr_scan_id} |->
          (IF s \in DOMAIN stage2_results THEN stage2_results[s] ELSE <<>>)
            \o (IF s = curr_scan_id THEN found ELSE <<>>)]

PollStage2Listens ==
  /\ ScanPoll(2) /\ ~ScannedAll /\ ~expired
  /\ IF Panics(NewIds) THEN next' = "panicked" /\ UNCHANGED stage2_results
     ELSE (\E found \in RecvIds(NewIds) : stage2_results' = Noted(found)) /\ UNCHANGED next
  /\ rx' = <<>>
  /\ UNCHANGED <<curr_stage, curr_scan_id, expired, can_traffic_id_list, stage3_results,
                 stage4_results, keys, filters, unfiltered, bus, network, trouble>>

\* Removing a filter may fail, which is ignored, like clearing.
Verified == curr_scan_id >= Len(keys)

PollStage3Ends ==
  /\ ScanPoll(3) /\ expired /\ Verified
  /\ next' = "IncrementStage" /\ filters' = {} /\ rx' = <<>>
  /\ UNCHANGED <<curr_stage, curr_scan_id, expired, can_traffic_id_list, stage2_results,
                 stage3_results, stage4_results, keys, unfiltered, bus, network, trouble>>

\* Fault: the filter is left as it is.
PollStage3Sends_Unfiltered ==
  /\ ScanPoll(3) /\ expired /\ ~Verified
  /\ filters' = {Anything} /\ rx' = <<>> /\ expired' = FALSE
  /\ Send(keys[curr_scan_id + 1]) /\ curr_scan_id' = curr_scan_id + 1
  /\ UNCHANGED <<curr_stage, next, can_traffic_id_list, stage2_results, stage3_results,
                 stage4_results, keys, unfiltered, network>>

\* The filter of the first answer noted; a failure to set it is todo!().
PollStage3Sends ==
  /\ ScanPoll(3) /\ expired /\ ~Verified
  /\ LET asked == keys[curr_scan_id + 1]  wanted == Head(stage2_results[asked]) IN
       \/ /\ filters' = {wanted} /\ rx' = <<>> /\ expired' = FALSE
          /\ Send(asked) /\ curr_scan_id' = curr_scan_id + 1
          /\ UNCHANGED next
       \/ /\ filters # {} /\ filters' = filters \cup {wanted} /\ rx' = <<>> /\ expired' = FALSE
          /\ (Sent(asked) \/ UNCHANGED bus) /\ CallRefused /\ curr_scan_id' = curr_scan_id + 1
          /\ UNCHANGED next
       \/ /\ next' = "panicked" /\ CallRefused
          /\ UNCHANGED <<filters, rx, expired, bus, curr_scan_id>>
  /\ UNCHANGED <<curr_stage, can_traffic_id_list, stage2_results, stage3_results,
                 stage4_results, keys, unfiltered, network>>

\* Without a filter set yet, keys.get(curr_scan_id - 1) underflows.
PollStage3Listens ==
  /\ ScanPoll(3) /\ ~expired
  /\ \E found \in RecvIds(Read) :
     IF Panics(Read) \/ (found # <<>> /\ curr_scan_id = 0)
     THEN next' = "panicked" /\ UNCHANGED stage3_results
     ELSE /\ stage3_results' = stage3_results \o
               [i \in DOMAIN found |-> [send_id |-> keys[curr_scan_id], recv_id |-> found[i]]]
          /\ UNCHANGED next
  /\ rx' = <<>>
  /\ UNCHANGED <<curr_stage, curr_scan_id, expired, can_traffic_id_list, stage2_results,
                 stage4_results, keys, filters, unfiltered, bus, network, trouble>>

\* Fault: the index is moved before the result is stored.
Place_Moved == curr_scan_id + 2

Place == curr_scan_id + 1

\* One session per pair; whether one is entered is up to the ECU.
PollSession ==
  /\ ScanPoll(5) \/ ScanPoll(6)
  /\ IF curr_scan_id >= Len(stage3_results)
     THEN next' = "IncrementStage" /\ UNCHANGED <<curr_scan_id, stage4_results>>
     ELSE \E ok \in BOOLEAN :
       LET ecu == stage3_results[curr_scan_id + 1] IN
       /\ ok => ecu.send_id \in IF curr_stage = 5 THEN network.kwp ELSE network.uds
       /\ curr_scan_id' = curr_scan_id + 1
       /\ IF curr_stage = 5
          THEN stage4_results' = Append(stage4_results, [send_id |-> ecu.send_id,
                                   recv_id |-> ecu.recv_id, kwp |-> ok, uds |-> FALSE])
               /\ UNCHANGED next
          ELSE IF ~ok THEN UNCHANGED <<stage4_results, next>>
          ELSE IF Place \in DOMAIN stage4_results
          THEN stage4_results' = [stage4_results EXCEPT ![Place].uds = TRUE] /\ UNCHANGED next
          ELSE next' = "panicked" /\ UNCHANGED stage4_results
  /\ UNCHANGED <<curr_stage, expired, can_traffic_id_list, stage2_results, stage3_results,
                 keys, adapterVars, unfiltered, bus, network, trouble>>
-----------------------------------------------------------------------------
Poll ==
  \/ PollWaiting \/ PollStage2Ends \/ PollStage2Sends \/ PollStage2Listens
  \/ PollStage3Ends \/ PollStage3Sends \/ PollStage3Listens \/ PollSession

Increment == EndListening \/ BeginVerifying \/ CoolDown \/ LaterStage

Next == Start \/ Increment \/ Poll \/ Answer \/ Chat \/ Elapse

Spec == Init /\ [][Next]_vars

(* Messages the page posts are handled, and time passes; the user need not *)
(* start the scan, and nobody need answer it.                              *)
ScanFairness == WF_vars(Increment) /\ SF_vars(Poll) /\ WF_vars(Elapse)
FairSpec == Spec /\ ScanFairness
-----------------------------------------------------------------------------
TypeOK ==
  /\ curr_stage \in 0..7 /\ expired \in BOOLEAN
  /\ curr_scan_id \in 0..(CASE curr_stage < 3 -> LastId + Cardinality(can_traffic_id_list)
                            [] curr_stage = 3 -> Len(keys)
                            [] OTHER -> Len(stage3_results))
  /\ next \in {"none", "panicked", "ScanPoll", "IncrementStage"}
  /\ DOMAIN stage2_results \subseteq 1..LastId - 1
  /\ \A s \in DOMAIN stage2_results : stage2_results[s] # <<>>
  /\ DOMAIN keys \subseteq 1..Cardinality(DOMAIN stage2_results)
  /\ Len(stage4_results) <= Len(stage3_results)
  /\ bus \subseteq DOMAIN Ecus /\ trouble \subseteq {"late", "again", "unheard", "refused"}

(* "It might pick up multiple IDs during the scan, we filter it later on": *)
(* a pair that comes out of stage 3 is an ECU's, even if flow controls     *)
(* came late and were noted for the next identifier, unless the ECU is     *)
(* late again when stage 3 asks.                                           *)
PairsAreReal ==
  trouble \subseteq {"late"} =>
    \A i \in DOMAIN stage3_results :
      LET p == stage3_results[i] IN p.send_id \in DOMAIN Ecus /\ p.recv_id = Ecus[p.send_id]

(* In a scan without trouble every ECU is found, except at the first       *)
(* identifier, which is not asked, at the last, whose answer nobody waits  *)
(* for, or at one that itself sends.                                       *)
NoEcuMissed ==
  trouble = {} /\ curr_stage >= 4 /\ next # "panicked" =>
    \A s \in DOMAIN Ecus \ (can_traffic_id_list \cup {0, LastId}) :
      \E i \in DOMAIN stage3_results : stage3_results[i].send_id = s

(* What is saved about an ECU is about that ECU: stage 6 finds stage 5's   *)
(* entry of the same pair.                                                 *)
SupportIsTheEcus ==
  \A i \in DOMAIN stage4_results :
    LET e == stage4_results[i] IN
      /\ stage3_results[i] = [send_id |-> e.send_id, recv_id |-> e.recv_id]
      /\ e.kwp => e.send_id \in network.kwp
      /\ e.uds => e.send_id \in network.uds

(* The scan does not panic on an adapter that reads nothing before a       *)
(* filter is set, unless a filter is refused or a frame has no data.       *)
NoPanicWhenFiltered ==
  ~unfiltered /\ "refused" \notin trouble /\ (\A c \in DOMAIN Chatter : Chatter[c] # "empty") =>
    next # "panicked"

(* What is noted, sorted out and saved in seven stages are the car's ECUs. *)
ScanFindsEcus ==
  /\ TypeOK
  /\ PairsAreReal /\ NoEcuMissed /\ SupportIsTheEcus /\ NoPanicWhenFiltered

(* A scan that began comes to its end, or an error leaves no message.      *)
ScanEnds == curr_stage = 1 ~> next \in {"none", "panicked"}
=============================================================================
