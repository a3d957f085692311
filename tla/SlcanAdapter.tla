----------------------------- MODULE SlcanAdapter -----------------------------
(***************************************************************************)
(* The host side of an SLCAN adapter (commapi/slcan_api.rs): the CAN       *)
(* channel, its command/reply dialogue over the serial link, and the two   *)
(* receive queues.                                                         *)
(*                                                                         *)
(* Every clone of SlcanApi shares one SlcanInner behind a mutex.  A call   *)
(* holds the mutex for all the commands it sends; open_iso15765_interface  *)
(* and close_device take it twice.  A command waits at most one second for *)
(* its reply, and whatever reply is read meanwhile decides it.  The        *)
(* adapter (external) follows SLCAN_PROTOCOL_SPEC.md; it may reject any    *)
(* command, answer late, and report bus frames at any time while open.     *)
(***************************************************************************)
EXTENDS Naturals, Sequences, FiniteSets

CONSTANTS
  Clients,    \* the holders of a clone of the SlcanApi
  Ids,        \* CAN identifiers, as far as the filters tell them apart
  Slots,      \* indices of SlcanInner::filters (0..9 in the code)
  MaxFrames,  \* bound: frames the bus carries in a behaviour
  MaxLate     \* bound: commands the adapter holds unexecuted; more get lost

ASSUME AdapterAssumption ==
  /\ "none" \notin Clients
  /\ Slots \subseteq Nat
  /\ MaxFrames \in Nat
  /\ MaxLate \in Nat \ {0}

VARIABLES
  port, can_open, iso_tp_open,     \* SlcanInner, as in the code
  filters, iso_tp_filter,          \* iso_tp_filter: is_some()
  receive_queue, iso_receive_queue,
  holder,    \* who holds the mutex while waiting for a reply
  op, cmd,   \* the holder's call and the command it waits for
  resume,    \* per client: the call whose second half is still to come
  toDevice, toHost,      \* the serial link
  devOpen, nextFrame,    \* the adapter and the bus
  late,      \* history: some command timed out
  decidedBy  \* history: whose reply decided the last command

innerVars  == <<port, can_open, iso_tp_open, filters, iso_tp_filter,
                receive_queue, iso_receive_queue>>
callVars   == <<holder, op, cmd, resume>>
deviceVars == <<devOpen, nextFrame>>
vars == <<innerVars, callVars, toDevice, toHost, deviceVars, late, decidedBy>>
-----------------------------------------------------------------------------
Command == [letter : {"C", "S", "O", "t"}, own : BOOLEAN]

\* SlcanEvent: replies, which answer a command, and frames, which do not.
Event == [kind : {"ack", "nack", "accepted", "frame"}, own : BOOLEAN,
          n : Nat, id : Ids \cup {"none"}]

Reply(kind, own) == [kind |-> kind, own |-> own, n |-> 0, id |-> "none"]
BusFrame(n, id)  == [kind |-> "frame", own |-> TRUE, n |-> n, id |-> id]

\* Some of the messages, in their order.
InOrder(S) ==
  CHOOSE at \in [1..Cardinality(S) -> S] :
    /\ \A s \in S : \E i \in DOMAIN at : at[i] = s
    /\ \A i, j \in DOMAIN at : i < j => at[i] < at[j]
Kept(messages, places) ==
  [i \in 1..Cardinality(places) |-> messages[InOrder(places)[i]]]

IsFrame(event) == event.kind = "frame"
Frames(events) == Kept(events, {i \in DOMAIN events : IsFrame(events[i])})

\* Once the next command is written, whatever is under way belongs to others.
Foreign(messages) ==
  [i \in DOMAIN messages |-> [messages[i] EXCEPT !.own = FALSE]]

Filter == [kind : {"pass", "block"}, id : Ids]
NoFilter == [kind |-> "none", id |-> "none"]

\* frame_is_allowed
Allowed(frame) ==
  LET installed == {filters[s] : s \in Slots} \ {NoFilter}
      passing == {f \in installed : f.kind = "pass"}
  IN /\ ~\E f \in installed : f.kind = "block" /\ f.id = frame.id
     /\ passing # {} => \E f \in passing : f.id = frame.id

Passing(frames) == Kept(frames, {i \in DOMAIN frames : Allowed(frames[i])})

\* poll_events reads the first k events of the link and queues their frames.
Batch(k) == SubSeq(toHost, 1, k)
Rest(k)  == SubSeq(toHost, k + 1, Len(toHost))
\* Fault: new frames go to the front of the queue.
CanQueueAfter_Front(k) == Passing(Frames(Batch(k))) \o receive_queue
CanQueueAfter(k) == receive_queue \o Passing(Frames(Batch(k)))
IsoQueueAfter(k) == IF iso_tp_open THEN iso_receive_queue \o Frames(Batch(k))
                    ELSE iso_receive_queue
-----------------------------------------------------------------------------
Init ==
  /\ port = TRUE /\ can_open = FALSE /\ iso_tp_open = FALSE
  /\ filters = [s \in Slots |-> NoFilter] /\ iso_tp_filter = FALSE
  /\ receive_queue = <<>> /\ iso_receive_queue = <<>>
  /\ holder = "none" /\ op = "none" /\ cmd = "none"
  /\ resume = [c \in Clients |-> "none"]
  /\ toDevice = <<>> /\ toHost = <<>>
  /\ devOpen \in BOOLEAN   \* a prior client may have left the channel open
  /\ nextFrame = 1
  /\ late = FALSE /\ decidedBy = "none"
-----------------------------------------------------------------------------
(* send_command.  "C?" is the close that takes a NACK for an answer too.   *)

Letter(command) == IF command = "C?" THEN "C" ELSE command

Accepts(command) ==
  CASE command = "t"  -> {"accepted"}
    [] command = "C?" -> {"ack", "nack"}
    [] OTHER          -> {"ack"}

\* Write a command after "unread", what is still to be read from the link.
Write(command, unread) ==
  /\ cmd' = command
  /\ toDevice' = IF Len(toDevice) < MaxLate
                 THEN Append(Foreign(toDevice),
                             [letter |-> Letter(command), own |-> TRUE])
                 ELSE Foreign(toDevice)
  /\ toHost' = Foreign(unread)

\* Fault: the mutex is given up while the reply is still awaited.
Release_Early == holder' = "none" /\ op' = "none" /\ UNCHANGED cmd

\* The call returns: the mutex is free again.
Release ==
  /\ holder' = "none" /\ op' = "none" /\ cmd' = "none"

\* The positions of a batch that decide the command: its reply, or a NACK.
Deciding(k) == {i \in 1..k : toHost[i].kind \in Accepts(cmd) \cup {"nack"}}
FirstDeciding(k) == CHOOSE i \in Deciding(k) : \A j \in Deciding(k) : i <= j

\* The batch of k events ends the command with a reply it accepts, or not.
Decides(k) ==
  /\ Deciding(k) # {}
  /\ decidedBy' = IF toHost[FirstDeciding(k)].own THEN "own" ELSE "foreign"
Succeeds(k) == Decides(k) /\ toHost[FirstDeciding(k)].kind \in Accepts(cmd)
Fails(k)    == Decides(k) /\ toHost[FirstDeciding(k)].kind \notin Accepts(cmd)

\* Fault: frames behind the deciding reply are dropped with the other events.
QueueFrames_UpToReply(k) ==
  LET read == IF Deciding(k) = {} THEN k ELSE FirstDeciding(k)
  IN /\ receive_queue' = CanQueueAfter(read)
     /\ iso_receive_queue' = IsoQueueAfter(read)

QueueFrames(k) ==
  /\ receive_queue' = CanQueueAfter(k)
  /\ iso_receive_queue' = IsoQueueAfter(k)
-----------------------------------------------------------------------------
(* The calls of ComServer that talk to the adapter.                        *)

Free(c) == holder = "none" /\ resume[c] = "none"

Begin(c, call, command) ==
  /\ Free(c) /\ port
  /\ holder' = c /\ op' = call
  /\ Write(command, toHost)
  /\ UNCHANGED <<innerVars, resume, deviceVars, late, decidedBy>>

\* open_can_interface, by itself or as the first half of the ISO-TP open.
BeginOpen(c) ==
  \E call \in {"open_can", "open_iso"} :
    Begin(c, call, IF can_open THEN "C" ELSE "C?")

\* Fault: close_device drops the port without closing the channel first.
BeginClose_DropPort(c) ==
  /\ can_open /\ Free(c) /\ port
  /\ port' = FALSE
  /\ UNCHANGED <<can_open, iso_tp_open, filters, iso_tp_filter, receive_queue,
                 iso_receive_queue, callVars, toDevice, toHost, deviceVars,
                 late, decidedBy>>

\* close_can_interface, by itself or as the first half of close_device.
BeginClose(c) ==
  /\ can_open
  /\ \E call \in {"close_can", "close_device"} : Begin(c, call, "C")

\* Fault: a frame is written without waiting for its reply.
BeginSend_Unconfirmed(c) ==
  /\ can_open \/ (iso_tp_open /\ iso_tp_filter)
  /\ Free(c) /\ port /\ Len(toDevice) < MaxLate
  /\ toDevice' = Append(toDevice, [letter |-> "t", own |-> TRUE])
  /\ UNCHANGED <<innerVars, callVars, toHost, deviceVars, late, decidedBy>>

\* One frame of send_can_packets, of send_iso15765_data, or the flow control
\* read_iso15765_packets answers a first frame with.  A call of several frames
\* is several of these: other calls may get in between, here.
BeginSend(c) ==
  /\ can_open \/ (iso_tp_open /\ iso_tp_filter)
  /\ Begin(c, "send", "t")

\* Events that decide nothing: keep waiting.
PollMore ==
  /\ cmd # "none"
  /\ \E k \in 1..Len(toHost) :
       /\ Deciding(k) = {}
       /\ QueueFrames(k)
       /\ toHost' = Rest(k)
  /\ UNCHANGED <<port, can_open, iso_tp_open, filters, iso_tp_filter, callVars,
                 toDevice, deviceVars, late, decidedBy>>

\* Fault: the ISO-TP filter outlives the channel it was set on.
OpenClosed_KeepsFilter ==
  /\ op \in {"open_can", "open_iso"} /\ cmd \in {"C", "C?"}
  /\ \E k \in 1..Len(toHost) :
       /\ Succeeds(k)
       /\ receive_queue' = CanQueueAfter(k)
       /\ Write("S", Rest(k))
  /\ can_open' = FALSE
  /\ iso_tp_open' = FALSE
  /\ iso_receive_queue' = <<>>
  /\ UNCHANGED <<port, filters, iso_tp_filter, holder, op, resume, deviceVars,
                 late>>

\* open_can_interface: the channel is closed, its ISO-TP state goes, set rate.
OpenClosed ==
  /\ op \in {"open_can", "open_iso"} /\ cmd \in {"C", "C?"}
  /\ \E k \in 1..Len(toHost) :
       /\ Succeeds(k)
       /\ receive_queue' = CanQueueAfter(k)
       /\ Write("S", Rest(k))
  /\ can_open' = FALSE
  /\ iso_tp_open' = FALSE /\ iso_tp_filter' = FALSE
  /\ iso_receive_queue' = <<>>
  /\ UNCHANGED <<port, filters, holder, op, resume, deviceVars, late>>

\* Fault: the channel counts as open once the rate is set.
OpenRateSet_AlreadyOpen ==
  /\ cmd = "S"
  /\ \E k \in 1..Len(toHost) :
       /\ Succeeds(k)
       /\ QueueFrames(k)
       /\ Write("O", Rest(k))
  /\ can_open' = TRUE
  /\ UNCHANGED <<port, iso_tp_open, filters, iso_tp_filter, holder,
                 op, resume, deviceVars, late>>

OpenRateSet ==
  /\ cmd = "S"
  /\ \E k \in 1..Len(toHost) :
       /\ Succeeds(k)
       /\ QueueFrames(k)
       /\ Write("O", Rest(k))
  /\ UNCHANGED <<port, can_open, iso_tp_open, filters, iso_tp_filter, holder,
                 op, resume, deviceVars, late>>

OpenDone ==
  /\ cmd = "O"
  /\ \E k \in 1..Len(toHost) :
       /\ Succeeds(k)
       /\ QueueFrames(k)
       /\ toHost' = Rest(k)
  /\ can_open' = TRUE
  /\ resume' = IF op = "open_iso" THEN [resume EXCEPT ![holder] = op] ELSE resume
  /\ Release
  /\ UNCHANGED <<port, iso_tp_open, filters, iso_tp_filter, toDevice,
                 deviceVars, late>>

Reset ==
  /\ can_open' = FALSE /\ iso_tp_open' = FALSE
  /\ filters' = [s \in Slots |-> NoFilter] /\ iso_tp_filter' = FALSE
  /\ receive_queue' = <<>> /\ iso_receive_queue' = <<>>

CloseDone ==
  /\ op \in {"close_can", "close_device"} /\ cmd = "C"
  /\ \E k \in 1..Len(toHost) : Succeeds(k) /\ toHost' = Rest(k)
  /\ Reset
  /\ resume' = IF op = "close_device" THEN [resume EXCEPT ![holder] = op]
               ELSE resume
  /\ Release
  /\ UNCHANGED <<port, toDevice, deviceVars, late>>

SendDone ==
  /\ cmd = "t"
  /\ \E k \in 1..Len(toHost) :
       /\ Succeeds(k)
       /\ QueueFrames(k)
       /\ toHost' = Rest(k)
  /\ Release
  /\ UNCHANGED <<port, can_open, iso_tp_open, filters, iso_tp_filter, resume,
                 toDevice, deviceVars, late>>

\* A NACK: the call returns error 2 and leaves the rest undone.
CommandRejected ==
  /\ cmd # "none"
  /\ \E k \in 1..Len(toHost) :
       /\ Fails(k)
       /\ QueueFrames(k)
       /\ toHost' = Rest(k)
  /\ Release
  /\ UNCHANGED <<port, can_open, iso_tp_open, filters, iso_tp_filter, resume,
                 toDevice, deviceVars, late>>

\* Fault: after its second the call waits on, until a reply does come.
CommandTimeout_Never == FALSE /\ UNCHANGED vars

\* COMMAND_TIMEOUT, or the serial port fails: the call returns error 3 or the
\* port's.  What it wrote may still be executed and answered, to whoever reads
\* next.  (A reply that lies unread at that moment is as good as a late one.)
CommandTimeout ==
  /\ cmd # "none" /\ toHost = <<>>
  /\ late' = TRUE
  /\ Release
  /\ UNCHANGED <<innerVars, resume, toDevice, toHost, deviceVars, decidedBy>>
-----------------------------------------------------------------------------
(* Second halves, and the calls that need no reply.                        *)

ResumeOpenIso(c) ==
  /\ holder = "none" /\ resume[c] = "open_iso"
  /\ resume' = [resume EXCEPT ![c] = "none"]
  /\ iso_tp_open' = TRUE
  /\ iso_receive_queue' = <<>>
  /\ UNCHANGED <<port, can_open, filters, iso_tp_filter, receive_queue, holder,
                 op, cmd, toDevice, toHost, deviceVars, late, decidedBy>>

\* The port goes, with the bytes nobody read.
ResumeCloseDevice(c) ==
  /\ holder = "none" /\ resume[c] = "close_device"
  /\ resume' = [resume EXCEPT ![c] = "none"]
  /\ port' = FALSE
  /\ receive_queue' = <<>>
  /\ toHost' = <<>>
  /\ UNCHANGED <<can_open, iso_tp_open, filters, iso_tp_filter,
                 iso_receive_queue, holder, op, cmd, toDevice, deviceVars,
                 late, decidedBy>>

OpenDevice(c) ==
  /\ Free(c) /\ ~port
  /\ port' = TRUE
  /\ UNCHANGED <<can_open, iso_tp_open, filters, iso_tp_filter, receive_queue,
                 iso_receive_queue, callVars, toDevice, toHost, deviceVars,
                 late, decidedBy>>

\* close_can_interface and close_device when there is nothing to send.
CloseUnopened(c) ==
  /\ Free(c) /\ ~(can_open /\ port)
  /\ Reset
  /\ resume' \in {resume, [resume EXCEPT ![c] = "close_device"]}
  /\ UNCHANGED <<port, holder, op, cmd, toDevice, toHost, deviceVars, late,
                 decidedBy>>

CloseIso(c) ==
  /\ Free(c)
  /\ iso_tp_open' = FALSE /\ iso_tp_filter' = FALSE
  /\ iso_receive_queue' = <<>>
  /\ UNCHANGED <<port, can_open, filters, receive_queue, callVars, toDevice,
                 toHost, deviceVars, late, decidedBy>>

AddIsoFilter(c) ==
  /\ Free(c) /\ iso_tp_open
  /\ iso_tp_filter' = TRUE
  /\ UNCHANGED <<port, can_open, iso_tp_open, filters, receive_queue,
                 iso_receive_queue, callVars, toDevice, toHost, deviceVars,
                 late, decidedBy>>

RemIsoFilter(c) ==
  /\ Free(c)
  /\ iso_tp_filter' = FALSE
  /\ UNCHANGED <<port, can_open, iso_tp_open, filters, receive_queue,
                 iso_receive_queue, callVars, toDevice, toHost, deviceVars,
                 late, decidedBy>>

\* add_can_filter takes the first free slot; rem_can_filter frees any.
ChangeFilters(c) ==
  /\ Free(c)
  /\ \/ \E s \in Slots, f \in Filter :
          /\ filters[s] = NoFilter
          /\ \A t \in Slots : filters[t] = NoFilter => s <= t
          /\ filters' = [filters EXCEPT ![s] = f]
     \/ \E s \in Slots : filters' = [filters EXCEPT ![s] = NoFilter]
  /\ UNCHANGED <<port, can_open, iso_tp_open, iso_tp_filter, receive_queue,
                 iso_receive_queue, callVars, toDevice, toHost, deviceVars,
                 late, decidedBy>>

\* read_can_packets: poll, then drain up to max_msgs frames.
ReadCan(c) ==
  /\ Free(c) /\ port /\ can_open
  /\ \E k \in 0..Len(toHost) :
       /\ \E m \in 0..Len(CanQueueAfter(k)) :
            receive_queue' = SubSeq(CanQueueAfter(k), m + 1, Len(CanQueueAfter(k)))
       /\ iso_receive_queue' = IsoQueueAfter(k)
       /\ toHost' = Rest(k)
  /\ UNCHANGED <<port, can_open, iso_tp_open, filters, iso_tp_filter, callVars,
                 toDevice, deviceVars, late, decidedBy>>

\* read_iso15765_packets and receive_flow_control: poll, then take frames until
\* a payload or a flow control is complete, or has to be answered.
ReadIso(c) ==
  /\ Free(c) /\ port /\ iso_tp_open
  /\ \E k \in 0..Len(toHost) :
       /\ \E m \in 0..Len(IsoQueueAfter(k)) :
            iso_receive_queue' = SubSeq(IsoQueueAfter(k), m + 1,
                                        Len(IsoQueueAfter(k)))
       /\ receive_queue' = CanQueueAfter(k)
       /\ toHost' = Rest(k)
  /\ UNCHANGED <<port, can_open, iso_tp_open, filters, iso_tp_filter, callVars,
                 toDevice, deviceVars, late, decidedBy>>

\* clear_can_rx_buffer and clear_iso15765_rx_buffer: poll, then drop one queue.
ClearRxBuffer(c) ==
  /\ Free(c) /\ port
  /\ \E k \in 0..Len(toHost) :
       /\ \/ receive_queue' = <<>> /\ iso_receive_queue' = IsoQueueAfter(k)
          \/ receive_queue' = CanQueueAfter(k) /\ iso_receive_queue' = <<>>
       /\ toHost' = Rest(k)
  /\ UNCHANGED <<port, can_open, iso_tp_open, filters, iso_tp_filter, callVars,
                 toDevice, deviceVars, late, decidedBy>>
-----------------------------------------------------------------------------
(* The adapter (external).                                                 *)

Valid(letter) == IF letter \in {"C", "t"} THEN devOpen ELSE ~devOpen

DeviceExecutes ==
  /\ toDevice # <<>>
  /\ LET command == Head(toDevice)
         answers(kind) == IF port THEN Append(toHost, Reply(kind, command.own))
                          ELSE toHost
     IN \/ /\ Valid(command.letter)
           /\ devOpen' = CASE command.letter = "O" -> TRUE
                           [] command.letter = "C" -> FALSE
                           [] OTHER -> devOpen
           /\ toHost' = answers(IF command.letter = "t" THEN "accepted" ELSE "ack")
        \/ \* wrong state, or the CAN driver rejects the operation
           /\ toHost' = answers("nack")
           /\ UNCHANGED devOpen
  /\ toDevice' = Tail(toDevice)
  /\ UNCHANGED <<innerVars, callVars, nextFrame, late, decidedBy>>

DeviceReceives ==
  /\ devOpen /\ port /\ nextFrame <= MaxFrames
  /\ \E id \in Ids : toHost' = Append(toHost, BusFrame(nextFrame, id))
  /\ nextFrame' = nextFrame + 1
  /\ UNCHANGED <<innerVars, callVars, toDevice, devOpen, late, decidedBy>>
-----------------------------------------------------------------------------
Calls(c) ==
  \/ BeginOpen(c) \/ BeginClose(c) \/ BeginSend(c)
  \/ OpenDevice(c) \/ CloseUnopened(c) \/ CloseIso(c)
  \/ AddIsoFilter(c) \/ RemIsoFilter(c) \/ ChangeFilters(c)
  \/ ReadCan(c) \/ ReadIso(c) \/ ClearRxBuffer(c)

Resume(c) == ResumeOpenIso(c) \/ ResumeCloseDevice(c)

Host == PollMore \/ OpenClosed \/ OpenRateSet \/ OpenDone \/ CloseDone
          \/ SendDone \/ CommandRejected \/ CommandTimeout

Device == DeviceExecutes \/ DeviceReceives

Next == (\E c \in Clients : Calls(c) \/ Resume(c)) \/ Host \/ Device

Spec == Init /\ [][Next]_vars

(* send_command polls until its deadline: the holder of the mutex keeps    *)
(* running.  Nothing obliges the adapter to execute or to answer.          *)
FairSpec == Spec /\ WF_vars(Host)
-----------------------------------------------------------------------------
CallsTypeOK ==
  /\ port \in BOOLEAN /\ can_open \in BOOLEAN
  /\ iso_tp_open \in BOOLEAN /\ iso_tp_filter \in BOOLEAN
  /\ holder \in Clients \cup {"none"}
  /\ op \in {"none", "open_can", "open_iso", "close_can", "close_device", "send"}
  /\ cmd \in {"none", "C", "C?", "S", "O", "t"}
  /\ (holder = "none") <=> (cmd = "none")
  /\ resume \in [Clients -> {"none", "open_iso", "close_device"}]
  /\ toDevice \in Seq(Command) /\ toHost \in Seq(Event)
  /\ devOpen \in BOOLEAN /\ nextFrame \in 1..MaxFrames + 1
  /\ late \in BOOLEAN /\ decidedBy \in {"none", "own", "foreign"}

QueuesTypeOK ==
  /\ filters \in [Slots -> Filter \cup {NoFilter}]
  /\ \A q \in {receive_queue, iso_receive_queue} : \A i \in DOMAIN q :
       q[i] \in Event /\ IsFrame(q[i])

TypeOK == CallsTypeOK /\ QueuesTypeOK

(* The host takes the channel for open only if the adapter has it open,    *)
(* through every partly failed open and close and for every number of      *)
(* clones, as long as no command timed out.                                *)
OpenOnBothSides ==
  ~late /\ holder = "none" /\ can_open => devOpen

Consecutive(frames) ==
  \A i \in 1..(Len(frames) - 1) : frames[i + 1].n = frames[i].n + 1

(* "The device can send received CAN-frame lines at any time, including    *)
(* while a command response is pending": while ISO-TP is open every frame  *)
(* read from the link is queued once, in bus order, whatever command was   *)
(* waiting for its reply.                                                  *)
NoFrameLost ==
  iso_tp_open /\ port => Consecutive(iso_receive_queue \o Frames(toHost))

(* Filters may thin out the CAN queue but never reorder or repeat frames.  *)
CanQueueInOrder ==
  \A i \in 1..(Len(receive_queue) - 1) :
    receive_queue[i].n < receive_queue[i + 1].n

(* Whatever is interleaved with commands, the two queues hold the bus's    *)
(* frames in the bus's order.                                              *)
FramesKept == NoFrameLost /\ CanQueueInOrder

(* A filter for ISO-TP answers exists only on an open ISO-TP interface: no *)
(* partly failed reopen leaves one behind.                                 *)
IsoFilterNeedsIso == iso_tp_filter => iso_tp_open

(* With one client, between calls ISO-TP is open only on an open channel,  *)
(* and a channel is open only on an open port.                             *)
LayersNest ==
  holder = "none" /\ (\A c \in Clients : resume[c] = "none") =>
    (iso_tp_open => can_open) /\ (can_open => port)

(* Filter, ISO-TP channel, CAN channel and port are opened and closed as   *)
(* the layers they are, though each step of it may fail.                   *)
LayersAndFilterNest == LayersNest /\ IsoFilterNeedsIso

(* "Serialize host writes and correlate replies with the command that      *)
(* produced them" (SLCAN_PROTOCOL_SPEC.md).  Without timeouts every command*)
(* is decided by its own reply, although the code never looks: each command*)
(* has exactly one reply.                                                  *)
RepliesCorrelatedInTime == ~late => decidedBy # "foreign"

(* A call never holds the mutex for good, whatever the adapter does.       *)
CallsReturn == holder # "none" ~> holder = "none"
=============================================================================
