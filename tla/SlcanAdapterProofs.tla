-------------------------- MODULE SlcanAdapterProofs --------------------------
(***************************************************************************)
(* Proofs about the SLCAN adapter, for any number of clones of the API and *)
(* any behaviour of the adapter and the bus.                               *)
(*                                                                         *)
(* The dialogue is correct as long as no command times out because then a  *)
(* command meets an empty link: either it is still on its way, or the one  *)
(* reply under way to the host is its own.  What the host and the adapter  *)
(* take for open may differ only while that reply is under way.            *)
(***************************************************************************)
EXTENDS SlcanAdapter, SequenceTheorems, FiniteSetTheorems, WellFoundedInduction,
        TLAPS

OnlyFrames(events) == \A i \in 1..Len(events) : IsFrame(events[i])

\* The replies the adapter may give to the command waited for.
RepliesTo(command) == {"nack", IF command = "t" THEN "accepted" ELSE "ack"}

OneReply(events) ==
  \E i \in 1..Len(events) :
    /\ events[i].own /\ events[i].kind \in RepliesTo(cmd)
    /\ \A j \in 1..Len(events) : j # i => IsFrame(events[j])

Quiet == toDevice = <<>> /\ OnlyFrames(toHost)

Underway ==
  /\ toDevice = <<[letter |-> Letter(cmd), own |-> TRUE]>>
  /\ OnlyFrames(toHost)

Answered == toDevice = <<>> /\ OneReply(toHost)

Acknowledged == toDevice = <<>> /\ \E i \in 1..Len(toHost) : toHost[i].kind = "ack"

(* One command at a time, and only its own reply on the link.              *)
Correlated ==
  /\ decidedBy # "foreign"
  /\ IF cmd = "none" THEN Quiet ELSE Underway \/ Answered

(* Host and adapter differ about the channel only until a reply is read.   *)
Agreed ==
  /\ cmd \in {"C?", "S", "O"} => ~can_open
  /\ cmd = "O" /\ Acknowledged => devOpen
  /\ can_open /\ ~devOpen => cmd = "C" /\ Acknowledged

Mutual == Correlated /\ Agreed

PortHeld == cmd # "none" => port

Typed == CallsTypeOK /\ PortHeld

DInv == Typed /\ (~late => Mutual)

(* With one clone, nothing comes between the two halves of a call.         *)
Nested(c) ==
  /\ (iso_tp_open => can_open) /\ (can_open => port)
  /\ resume[c] # "none" => cmd = "none"
  /\ resume[c] = "open_iso" => can_open
  /\ resume[c] = "close_device" => ~can_open

LInv(c) == Typed /\ Nested(c) /\ IsoFilterNeedsIso
-----------------------------------------------------------------------------
(* The link.                                                               *)

LEMMA AppendToEmpty == \A x : Append(<<>>, x) = <<x>>
<1> SUFFICES ASSUME NEW x PROVE Append(<<>>, x) = <<x>>
  OBVIOUS
<1>1. <<>> \in Seq({x}) /\ Len(<<>>) = 0
  OBVIOUS
<1>2. Append(<<>>, x) \in Seq({x}) /\ Len(Append(<<>>, x)) = 1 /\ Append(<<>>, x)[1] = x
  BY <1>1, AppendProperties
<1> QED
  BY <1>2

LEMMA ForeignKeeps ==
  ASSUME NEW events \in Seq(Event)
  PROVE  /\ Foreign(events) \in Seq(Event)
         /\ OnlyFrames(events) => OnlyFrames(Foreign(events))
<1>1. /\ DOMAIN events = 1..Len(events) /\ Len(events) \in Nat
      /\ \A i \in 1..Len(events) : events[i] \in Event
  OBVIOUS
<1>2. Foreign(events) = [i \in 1..Len(events) |-> [events[i] EXCEPT !.own = FALSE]]
  BY <1>1 DEF Foreign
<1>3. \A i \in 1..Len(events) :
        /\ [events[i] EXCEPT !.own = FALSE] \in Event
        /\ [events[i] EXCEPT !.own = FALSE].kind = events[i].kind
  BY <1>1 DEF Event
<1>4. Foreign(events) \in Seq(Event) /\ Len(Foreign(events)) = Len(events)
  BY <1>1, <1>2, <1>3, IsASeq
<1> QED
  BY <1>2, <1>3, <1>4 DEF OnlyFrames, IsFrame

LEMMA ForeignCommands ==
  ASSUME NEW commands \in Seq(Command)
  PROVE  /\ Foreign(commands) \in Seq(Command) /\ Len(Foreign(commands)) = Len(commands)
         /\ commands = <<>> => Foreign(commands) = <<>>
<1>1. /\ DOMAIN commands = 1..Len(commands) /\ Len(commands) \in Nat
      /\ \A i \in 1..Len(commands) : commands[i] \in Command
  OBVIOUS
<1>2. Foreign(commands) = [i \in 1..Len(commands) |-> [commands[i] EXCEPT !.own = FALSE]]
  BY <1>1 DEF Foreign
<1>3. \A i \in 1..Len(commands) : [commands[i] EXCEPT !.own = FALSE] \in Command
  BY <1>1 DEF Command
<1>4. Foreign(commands) \in Seq(Command) /\ Len(Foreign(commands)) = Len(commands)
  BY <1>1, <1>2, <1>3, IsASeq
<1> QED
  BY <1>4, EmptySeq

LEMMA RestOfLink ==
  ASSUME toHost \in Seq(Event), NEW k \in 0..Len(toHost)
  PROVE  /\ Rest(k) \in Seq(Event) /\ Len(Rest(k)) = Len(toHost) - k
         /\ \A i \in 1..Len(Rest(k)) : Rest(k)[i] = toHost[k + i]
         /\ OnlyFrames(toHost) => OnlyFrames(Rest(k))
<1>1. /\ Rest(k) \in Seq(Event) /\ Len(Rest(k)) = Len(toHost) - k
      /\ \A i \in 1..Len(Rest(k)) : Rest(k)[i] = toHost[k + i]
  BY SubSeqProperties DEF Rest
<1> QED
  BY <1>1 DEF OnlyFrames

(* What writing a command does to the link; on an empty one, the command   *)
(* is all there is.                                                        *)
LEMMA Written ==
  ASSUME CallsTypeOK, NEW command \in {"C", "C?", "S", "O", "t"},
         NEW unread \in Seq(Event), Write(command, unread)
  PROVE  /\ cmd' = command /\ toDevice' \in Seq(Command) /\ toHost' \in Seq(Event)
         /\ toDevice = <<>> /\ OnlyFrames(unread) => Underway'
<1> DEFINE own == [letter |-> Letter(command), own |-> TRUE]
<1>1. own \in Command /\ Len(toDevice) \in Nat
  BY DEF Command, Letter, CallsTypeOK
<1>2. Foreign(toDevice) \in Seq(Command) /\ (toDevice = <<>> => Foreign(toDevice) = <<>>)
  BY ForeignCommands DEF CallsTypeOK
<1>3. toDevice' = Append(Foreign(toDevice), own) \/ toDevice' = Foreign(toDevice)
  BY DEF Write
<1>4. toDevice' \in Seq(Command) /\ toHost' \in Seq(Event)
  BY <1>1, <1>2, <1>3, ForeignKeeps DEF Write
<1>5. ASSUME toDevice = <<>>, OnlyFrames(unread) PROVE Underway'
  <2>1. Len(toDevice) < MaxLate
    BY <1>5, AdapterAssumption
  <2>2. toDevice' = Append(Foreign(toDevice), own)
    BY <2>1 DEF Write
  <2>4. toDevice' = <<own>>
    BY <1>2, <1>5, <2>2, AppendToEmpty
  <2>3. OnlyFrames(toHost)'
    BY <1>5, ForeignKeeps DEF Write, OnlyFrames
  <2> QED
    BY <2>3, <2>4 DEF Underway, Write
<1> QED
  BY <1>4, <1>5 DEF Write

(* Unless something is late, a batch that decides holds the command's own  *)
(* reply, and leaves nothing but frames behind.                            *)
LEMMA OwnReplyDecides ==
  ASSUME CallsTypeOK, Correlated, cmd # "none", NEW k \in 1..Len(toHost), Decides(k)
  PROVE  /\ toDevice = <<>> /\ decidedBy' = "own"
         /\ OnlyFrames(Rest(k))
         /\ toHost[FirstDeciding(k)].kind \in RepliesTo(cmd)
         /\ FirstDeciding(k) \in 1..Len(toHost)
         /\ toHost[FirstDeciding(k)].kind = "ack" <=> Acknowledged
<1>0. toHost \in Seq(Event) /\ Len(toHost) \in Nat /\ cmd \in {"C", "C?", "S", "O", "t"}
  BY DEF CallsTypeOK
<1>1. "frame" \notin Accepts(cmd) \cup {"nack"}
  BY <1>0 DEF Accepts
<1>2. Answered
  <2>1. CASE OnlyFrames(toHost)
    BY <1>0, <1>1, <2>1 DEF Decides, Deciding, OnlyFrames, IsFrame
  <2> QED
    BY <2>1 DEF Correlated, Underway
<1>3. PICK i \in 1..Len(toHost) :
        /\ toHost[i].own /\ toHost[i].kind \in RepliesTo(cmd)
        /\ \A j \in 1..Len(toHost) : j # i => IsFrame(toHost[j])
  BY <1>2 DEF Answered, OneReply
<1>4. Deciding(k) = {i}
  BY <1>0, <1>1, <1>3 DEF Decides, Deciding, IsFrame
<1>5. FirstDeciding(k) = i /\ i <= k
  BY <1>0, <1>4 DEF FirstDeciding, Deciding
<1>6. OnlyFrames(Rest(k))
  <2>1. /\ Len(Rest(k)) = Len(toHost) - k
        /\ \A j \in 1..Len(Rest(k)) : Rest(k)[j] = toHost[k + j]
    BY <1>0, RestOfLink
  <2>2. \A j \in 1..(Len(toHost) - k) : k + j \in 1..Len(toHost) /\ k + j # i
    BY <1>0, <1>5
  <2> QED
    BY <1>3, <2>1, <2>2 DEF OnlyFrames
<1> QED
  BY <1>2, <1>3, <1>5, <1>6 DEF Answered, Decides, Acknowledged, IsFrame
-----------------------------------------------------------------------------
(* Types, and the port that stays while a call waits.                      *)

\* Reads of the link outside of a command.
Reads(c) == ReadCan(c) \/ ReadIso(c) \/ ClearRxBuffer(c)

\* The calls that leave the link alone.
Local(c) ==
  \/ ResumeOpenIso(c) \/ OpenDevice(c) \/ CloseUnopened(c) \/ CloseIso(c)
  \/ AddIsoFilter(c) \/ RemIsoFilter(c) \/ ChangeFilters(c)

LEMMA NextCases ==
  ASSUME Next
  PROVE  \/ \E c \in Clients : BeginOpen(c) \/ BeginClose(c) \/ BeginSend(c)
         \/ \E c \in Clients : Reads(c)
         \/ \E c \in Clients : Local(c)
         \/ \E c \in Clients : ResumeCloseDevice(c)
         \/ OpenClosed \/ OpenRateSet
         \/ OpenDone \/ CloseDone \/ SendDone \/ CommandRejected
         \/ CommandTimeout \/ DeviceExecutes \/ DeviceReceives \/ PollMore
BY DEF Next, Calls, Resume, Host, Device, Reads, Local

LEMMA BeginsTyped ==
  ASSUME Typed, NEW c \in Clients, NEW call \in {"open_can", "open_iso", "close_can", "close_device", "send"},
         NEW command \in {"C", "C?", "t"}, Begin(c, call, command)
  PROVE  Typed' /\ cmd' = command /\ cmd = "none" /\ (Quiet => Underway')
<1>1. CallsTypeOK /\ holder = "none" /\ toHost \in Seq(Event) /\ Write(command, toHost)
  BY DEF Begin, Free, Typed, CallsTypeOK
<1>2. /\ cmd' = command /\ toDevice' \in Seq(Command) /\ toHost' \in Seq(Event)
      /\ Quiet => Underway'
  BY <1>1, Written DEF Quiet
<1> QED
  BY <1>1, <1>2, AdapterAssumption DEF Begin, Typed, CallsTypeOK, PortHeld, innerVars, deviceVars

LEMMA ReadsTyped ==
  ASSUME Typed, PollMore \/ \E c \in Clients : Reads(c)
  PROVE  Typed'
<1>1. PICK k \in 0..Len(toHost) : toHost' = Rest(k)
  BY DEF Reads, ReadCan, ReadIso, ClearRxBuffer, PollMore, Typed, CallsTypeOK
<1>2. toHost' \in Seq(Event)
  BY <1>1, RestOfLink DEF Typed, CallsTypeOK
<1> QED
  BY <1>2 DEF Reads, ReadCan, ReadIso, ClearRxBuffer, PollMore, Typed, CallsTypeOK, PortHeld,
              callVars, deviceVars

LEMMA LocalTyped ==
  ASSUME Typed, NEW c \in Clients, Local(c) \/ ResumeCloseDevice(c)
  PROVE  Typed'
<1> USE DEF Typed, CallsTypeOK, PortHeld, callVars, deviceVars, Free
<1>0. [resume EXCEPT ![c] = "none"] \in [Clients -> {"none", "open_iso", "close_device"}]
  OBVIOUS
<1>1. CASE ResumeOpenIso(c) \/ ResumeCloseDevice(c)
  <2>1. resume' \in [Clients -> {"none", "open_iso", "close_device"}]
    BY <1>0, <1>1 DEF ResumeOpenIso, ResumeCloseDevice
  <2>2. toHost' = toHost \/ toHost' = <<>>
    BY <1>1 DEF ResumeOpenIso, ResumeCloseDevice
  <2>3. toHost' \in Seq(Event)
    BY <2>2, EmptySeq
  <2> QED
    BY <1>1, <2>1, <2>3 DEF ResumeOpenIso, ResumeCloseDevice
<1>4. CASE OpenDevice(c)
  BY <1>4 DEF OpenDevice
<1>2. CASE CloseUnopened(c)
  BY <1>2 DEF CloseUnopened, Reset
<1>3. CASE CloseIso(c) \/ AddIsoFilter(c) \/ RemIsoFilter(c)
  BY <1>3 DEF CloseIso, AddIsoFilter, RemIsoFilter
<1>5. CASE ChangeFilters(c)
  <2>1. UNCHANGED <<port, can_open, iso_tp_open, iso_tp_filter, callVars, toDevice, toHost,
                    deviceVars, late, decidedBy>>
    BY <1>5 DEF ChangeFilters
  <2> QED
    BY <2>1
<1> QED
  BY <1>1, <1>2, <1>3, <1>4, <1>5 DEF Local

LEMMA OpeningTyped ==
  ASSUME Typed, OpenClosed \/ OpenRateSet
  PROVE  Typed'
<1>1. PICK k \in 1..Len(toHost), command \in {"S", "O"} :
        Succeeds(k) /\ Write(command, Rest(k))
  BY DEF OpenClosed, OpenRateSet
<1>2. Rest(k) \in Seq(Event)
  BY RestOfLink DEF Typed, CallsTypeOK
<1>3. cmd' = command /\ toDevice' \in Seq(Command) /\ toHost' \in Seq(Event)
  BY <1>1, <1>2, Written DEF Typed
<1>4. cmd # "none" /\ holder' = holder /\ op' = op /\ port' = port
  BY DEF OpenClosed, OpenRateSet
<1>5. decidedBy' \in {"own", "foreign"}
  BY <1>1 DEF Succeeds, Decides
<1> QED
  BY <1>3, <1>4, <1>5 DEF OpenClosed, OpenRateSet, Typed, CallsTypeOK, PortHeld, deviceVars

LEMMA EndingTyped ==
  ASSUME Typed, OpenDone \/ CloseDone \/ SendDone \/ CommandRejected
  PROVE  Typed'
<1>1. PICK k \in 1..Len(toHost) : (Succeeds(k) \/ Fails(k)) /\ toHost' = Rest(k)
  BY DEF OpenDone, CloseDone, SendDone, CommandRejected
<1>2. toHost' \in Seq(Event)
  BY <1>1, RestOfLink DEF Typed, CallsTypeOK
<1>3. decidedBy' \in {"own", "foreign"}
  BY <1>1 DEF Succeeds, Fails, Decides
<1>4. cmd' = "none" /\ holder' = "none" /\ op' = "none"
  BY DEF OpenDone, CloseDone, SendDone, CommandRejected, Release
<1>5. resume' \in [Clients -> {"none", "open_iso", "close_device"}]
  BY DEF OpenDone, CloseDone, SendDone, CommandRejected, Typed, CallsTypeOK
<1> QED
  BY <1>2, <1>3, <1>4, <1>5
  DEF OpenDone, CloseDone, SendDone, CommandRejected, Reset, Typed, CallsTypeOK, PortHeld, deviceVars

LEMMA ReplyTyped ==
  ASSUME NEW kind \in {"ack", "nack", "accepted"}, NEW own \in BOOLEAN
  PROVE  Reply(kind, own) \in Event
BY DEF Reply, Event

LEMMA DeviceTyped ==
  ASSUME Typed, DeviceExecutes \/ DeviceReceives
  PROVE  Typed'
<1>1. CASE DeviceExecutes
  <2>1. Head(toDevice) \in Command /\ Tail(toDevice) \in Seq(Command)
    BY <1>1 DEF DeviceExecutes, Typed, CallsTypeOK
  <2>2. \E kind \in {"ack", "nack", "accepted"} :
          toHost' = toHost \/ toHost' = Append(toHost, Reply(kind, Head(toDevice).own))
    BY <1>1 DEF DeviceExecutes
  <2>3. toHost' \in Seq(Event)
    BY <2>1, <2>2, ReplyTyped DEF Typed, CallsTypeOK, Command
  <2>4. devOpen' \in BOOLEAN
    BY <1>1 DEF DeviceExecutes, Typed, CallsTypeOK
  <2> QED
    BY <1>1, <2>1, <2>3, <2>4
    DEF DeviceExecutes, Typed, CallsTypeOK, PortHeld, innerVars, callVars
<1>2. CASE DeviceReceives
  <2>1. PICK id \in Ids : toHost' = Append(toHost, BusFrame(nextFrame, id))
    BY <1>2 DEF DeviceReceives
  <2>2. nextFrame \in Nat /\ nextFrame' \in 1..MaxFrames + 1
    BY <1>2, AdapterAssumption DEF DeviceReceives, Typed, CallsTypeOK
  <2>3. toHost' \in Seq(Event)
    BY <2>1, <2>2 DEF BusFrame, Event, Typed, CallsTypeOK
  <2> QED
    BY <1>2, <2>2, <2>3 DEF DeviceReceives, Typed, CallsTypeOK, PortHeld, innerVars, callVars
<1> QED
  BY <1>1, <1>2

LEMMA TypeStep == Typed /\ [Next]_vars => Typed'
<1> SUFFICES ASSUME Typed, [Next]_vars PROVE Typed'
  OBVIOUS
<1>1. CASE UNCHANGED vars
  BY <1>1 DEF vars, innerVars, callVars, deviceVars, Typed, CallsTypeOK, PortHeld
<1>2. CASE CommandTimeout
  BY <1>2 DEF CommandTimeout, Release, innerVars, deviceVars, Typed, CallsTypeOK, PortHeld
<1>3. ASSUME NEW c \in Clients, BeginOpen(c) \/ BeginClose(c) \/ BeginSend(c) PROVE Typed'
  BY <1>3, BeginsTyped DEF BeginOpen, BeginClose, BeginSend
<1> QED
  BY <1>1, <1>2, <1>3, NextCases, ReadsTyped, LocalTyped, OpeningTyped, EndingTyped, DeviceTyped

LEMMA InitTyped == Init => Typed
<1> SUFFICES ASSUME Init PROVE Typed
  OBVIOUS
<1>1. nextFrame \in 1..MaxFrames + 1
  BY AdapterAssumption DEF Init
<1>2. toDevice \in Seq(Command) /\ toHost \in Seq(Event)
  BY DEF Init
<1>3. resume \in [Clients -> {"none", "open_iso", "close_device"}]
  BY DEF Init
<1> QED
  BY <1>1, <1>2, <1>3 DEF Init, Typed, CallsTypeOK, PortHeld
-----------------------------------------------------------------------------
(* Replies and their commands.                                             *)

\* A call starts on a quiet link.
LEMMA BeginsMutual ==
  ASSUME Typed, Mutual, NEW c \in Clients, BeginOpen(c) \/ BeginClose(c) \/ BeginSend(c)
  PROVE  Mutual'
<1>1. PICK call \in {"open_can", "open_iso", "close_can", "close_device", "send"},
           command \in {"C", "C?", "t"} :
        Begin(c, call, command) /\ (command = "C?" => ~can_open)
  BY DEF BeginOpen, BeginClose, BeginSend
<1>2. cmd' = command /\ cmd = "none" /\ (Quiet => Underway')
  BY <1>1, BeginsTyped
<1>3. Quiet /\ (can_open => devOpen)
  BY <1>2 DEF Mutual, Correlated, Agreed
<1>4. UNCHANGED <<can_open, devOpen, decidedBy>>
  BY <1>1 DEF Begin, innerVars, deviceVars
<1> QED
  BY <1>1, <1>2, <1>3, <1>4 DEF Mutual, Correlated, Agreed

\* Reading a quiet link, or the part of it before the reply.
LEMMA ReadsMutual ==
  ASSUME Typed, Mutual, PollMore \/ \E c \in Clients : Reads(c)
  PROVE  Mutual'
<1>0. UNCHANGED <<can_open, devOpen, decidedBy, cmd, toDevice>>
  BY DEF Reads, ReadCan, ReadIso, ClearRxBuffer, PollMore, callVars, deviceVars
<1>1. PICK k \in 0..Len(toHost) : toHost' = Rest(k) /\ (cmd # "none" => k > 0 /\ Deciding(k) = {})
  BY DEF Reads, ReadCan, ReadIso, ClearRxBuffer, Free, PollMore, Typed, CallsTypeOK
<1>2. /\ toHost \in Seq(Event) /\ Len(toHost) \in Nat /\ Len(toHost') = Len(toHost) - k
      /\ \A i \in 1..Len(toHost') : toHost'[i] = toHost[k + i]
      /\ OnlyFrames(toHost) => OnlyFrames(toHost')
  BY <1>1, RestOfLink DEF Typed, CallsTypeOK
<1>3. CASE OnlyFrames(toHost)
  <2>1. OnlyFrames(toHost)' /\ ~Acknowledged /\ ~Acknowledged'
    BY <1>2, <1>3 DEF OnlyFrames, Acknowledged, IsFrame
  <2>2. ~Answered
    BY <1>3 DEF OnlyFrames, Answered, OneReply, RepliesTo, IsFrame
  <2>3. (Quiet => Quiet') /\ (Underway => Underway')
    BY <1>0, <2>1 DEF Quiet, Underway
  <2>4. Correlated'
    BY <1>0, <2>2, <2>3 DEF Mutual, Correlated
  <2>5. Agreed'
    BY <1>0, <2>1 DEF Mutual, Agreed
  <2> QED
    BY <2>4, <2>5 DEF Mutual
<1>4. CASE ~OnlyFrames(toHost)
  <2>1. Answered /\ cmd # "none" /\ cmd \in {"C", "C?", "S", "O", "t"}
    BY <1>4 DEF Mutual, Correlated, Quiet, Underway, Typed, CallsTypeOK
  <2>2. PICK i \in 1..Len(toHost) :
          /\ toHost[i].own /\ toHost[i].kind \in RepliesTo(cmd)
          /\ \A j \in 1..Len(toHost) : j # i => IsFrame(toHost[j])
    BY <2>1 DEF Answered, OneReply
  <2>3. toHost[i].kind \in Accepts(cmd) \cup {"nack"}
    BY <2>1, <2>2 DEF Accepts, RepliesTo
  <2>4. i > k /\ i - k \in 1..Len(toHost') /\ k + (i - k) = i
    BY <1>1, <1>2, <2>1, <2>3 DEF Deciding
  <2>5. toHost'[i - k] = toHost[i]
    BY <1>2, <2>4
  <2>6. \A j \in 1..Len(toHost') : j # i - k => IsFrame(toHost'[j])
    BY <1>2, <2>2, <2>4
  <2>7. Answered'
    BY <1>0, <2>1, <2>2, <2>4, <2>5, <2>6 DEF Answered, OneReply
  <2>8. Acknowledged' <=> Acknowledged
    BY <1>0, <2>2, <2>4, <2>5, <2>6 DEF Acknowledged, IsFrame
  <2> QED
    BY <1>0, <2>1, <2>7, <2>8 DEF Mutual, Correlated, Agreed
<1> QED
  BY <1>3, <1>4

\* Calls that write nothing leave a quiet link quiet.
LEMMA LocalMutual ==
  ASSUME Typed, Mutual, NEW c \in Clients, Local(c) \/ ResumeCloseDevice(c)
  PROVE  Mutual'
<1>1. cmd = "none" /\ cmd' = "none"
  BY DEF Local, ResumeOpenIso, OpenDevice, CloseUnopened, CloseIso, AddIsoFilter, RemIsoFilter,
         ChangeFilters, ResumeCloseDevice, Free, callVars, Typed, CallsTypeOK
<1>2. /\ UNCHANGED <<toDevice, devOpen, decidedBy>> /\ (can_open' => can_open)
      /\ toHost' = toHost \/ toHost' = <<>>
  BY DEF Local, ResumeOpenIso, OpenDevice, CloseUnopened, CloseIso, AddIsoFilter, RemIsoFilter,
         ChangeFilters, ResumeCloseDevice, Reset, deviceVars
<1>3. Quiet /\ decidedBy # "foreign" /\ (can_open => devOpen)
  BY <1>1 DEF Mutual, Correlated, Agreed
<1>4. Quiet'
  BY <1>2, <1>3 DEF Quiet, OnlyFrames
<1> QED
  BY <1>1, <1>2, <1>3, <1>4 DEF Mutual, Correlated, Agreed

\* The next command of an open is written once the reply has been read.
LEMMA OpeningMutual ==
  ASSUME Typed, Mutual, OpenClosed \/ OpenRateSet
  PROVE  Mutual'
<1>1. PICK k \in 1..Len(toHost), command \in {"S", "O"} :
        Succeeds(k) /\ Write(command, Rest(k))
  BY DEF OpenClosed, OpenRateSet
<1>2. /\ cmd # "none" /\ ~can_open' /\ devOpen' = devOpen
  BY DEF OpenClosed, OpenRateSet, deviceVars, Mutual, Agreed
<1>3. Rest(k) \in Seq(Event) /\ toDevice = <<>> /\ OnlyFrames(Rest(k)) /\ decidedBy' = "own"
  BY <1>1, <1>2, OwnReplyDecides, RestOfLink DEF Succeeds, Typed, CallsTypeOK, Mutual
<1>4. cmd' = command /\ Underway'
  BY <1>1, <1>3, Written DEF Typed
<1>5. ~Acknowledged'
  BY <1>4 DEF Underway, Acknowledged
<1>6. Correlated'
  BY <1>3, <1>4 DEF Correlated
<1>7. Agreed'
  BY <1>2, <1>5 DEF Agreed
<1> QED
  BY <1>6, <1>7 DEF Mutual

\* A call ends on its own reply, and tells the host what the adapter has done.
LEMMA EndingMutual ==
  ASSUME Typed, Mutual, OpenDone \/ CloseDone \/ SendDone \/ CommandRejected
  PROVE  Mutual'
<1>1. PICK k \in 1..Len(toHost) :
        /\ toHost' = Rest(k) /\ Decides(k)
        /\ \/ CommandRejected /\ toHost[FirstDeciding(k)].kind \notin Accepts(cmd)
           \/ (OpenDone \/ CloseDone \/ SendDone) /\ toHost[FirstDeciding(k)].kind \in Accepts(cmd)
  <2>1. CASE CommandRejected
    BY <2>1 DEF CommandRejected, Fails
  <2>2. CASE OpenDone \/ CloseDone \/ SendDone
    BY <2>2 DEF OpenDone, CloseDone, SendDone, Succeeds
  <2> QED
    BY <2>1, <2>2
<1>2. cmd \in {"C", "C?", "S", "O", "t"} /\ cmd' = "none" /\ UNCHANGED <<toDevice, devOpen>>
  BY DEF OpenDone, CloseDone, SendDone, CommandRejected, Release, deviceVars, Typed, CallsTypeOK
<1>3. /\ toDevice = <<>> /\ OnlyFrames(Rest(k)) /\ decidedBy' = "own"
      /\ toHost[FirstDeciding(k)].kind \in RepliesTo(cmd)
      /\ toHost[FirstDeciding(k)].kind = "ack" <=> Acknowledged
  BY <1>1, <1>2, OwnReplyDecides DEF Typed, Mutual
<1>4. Quiet'
  BY <1>1, <1>2, <1>3 DEF Quiet, OnlyFrames
<1>5. can_open' => devOpen
  <2>1. CASE OpenDone /\ toHost[FirstDeciding(k)].kind \in Accepts(cmd)
    <3>1. cmd = "O" /\ Accepts(cmd) = {"ack"}
      BY <2>1 DEF OpenDone, Accepts
    <3> QED
      BY <1>3, <2>1, <3>1 DEF Mutual, Agreed
  <2>2. CASE CloseDone
    BY <2>2 DEF CloseDone, Reset
  <2>3. CASE SendDone
    BY <2>3 DEF SendDone, Mutual, Agreed
  <2>4. CASE CommandRejected /\ toHost[FirstDeciding(k)].kind \notin Accepts(cmd)
    <3>1. UNCHANGED can_open
      BY <2>4 DEF CommandRejected
    <3>2. cmd = "C" => Accepts(cmd) = {"ack"}
      BY DEF Accepts
    <3> QED
      BY <1>3, <2>4, <3>1, <3>2 DEF Mutual, Agreed
  <2> QED
    BY <1>1, <2>1, <2>2, <2>3, <2>4
<1> QED
  BY <1>2, <1>3, <1>4, <1>5 DEF Mutual, Correlated, Agreed

\* The adapter gives one reply to one command, and it is its own.
LEMMA DeviceMutual ==
  ASSUME Typed, Mutual, DeviceExecutes \/ DeviceReceives
  PROVE  Mutual'
<1>0. UNCHANGED <<cmd, can_open, port, decidedBy>>
  BY DEF DeviceExecutes, DeviceReceives, innerVars, callVars
<1>1. toHost \in Seq(Event) /\ toHost' \in Seq(Event) /\ Len(toHost) \in Nat
  BY DeviceTyped DEF Typed, CallsTypeOK
<1>2. CASE DeviceExecutes
  <2>1. cmd \in {"C", "C?", "S", "O", "t"} /\ Underway
    BY <1>2 DEF DeviceExecutes, Mutual, Correlated, Quiet, Answered, Typed, CallsTypeOK
  <2>2. /\ port /\ Head(toDevice) = [letter |-> Letter(cmd), own |-> TRUE]
        /\ toDevice' = <<>>
    BY <1>2, <2>1 DEF DeviceExecutes, Underway, Typed, PortHeld
  <2>3. ~Acknowledged
    BY <2>1 DEF Underway, Acknowledged
  <2>4. can_open => devOpen
    BY <2>3 DEF Mutual, Agreed
  <2>5. PICK kind \in RepliesTo(cmd) :
          /\ toHost' = Append(toHost, Reply(kind, TRUE))
          /\ kind = "nack" => devOpen' = devOpen
          /\ kind # "nack" => devOpen' = CASE Letter(cmd) = "O" -> TRUE
                                           [] Letter(cmd) = "C" -> FALSE
                                           [] OTHER -> devOpen
    <3> DEFINE command == Head(toDevice)
    <3>1. command.letter = Letter(cmd) /\ command.own = TRUE
      BY <2>2
    <3>2. Letter(cmd) = "t" <=> cmd = "t"
      BY <2>1 DEF Letter
    <3> HIDE DEF command
    <3>3. CASE toHost' = Append(toHost, Reply("nack", command.own)) /\ UNCHANGED devOpen
      BY <3>1, <3>3 DEF RepliesTo
    <3>4. CASE /\ devOpen' = CASE command.letter = "O" -> TRUE
                                [] command.letter = "C" -> FALSE
                                [] OTHER -> devOpen
               /\ toHost' = Append(toHost, Reply(IF command.letter = "t" THEN "accepted"
                                                 ELSE "ack", command.own))
      BY <3>1, <3>2, <3>4 DEF RepliesTo
    <3> QED
      BY <1>2, <2>2, <3>3, <3>4 DEF DeviceExecutes, command
  <2>6. /\ Len(toHost') = Len(toHost) + 1 /\ toHost'[Len(toHost) + 1] = Reply(kind, TRUE)
        /\ \A i \in 1..Len(toHost) : toHost'[i] = toHost[i]
    <3> DEFINE reply == Reply(kind, TRUE)
    <3>1. reply \in Event
      BY ReplyTyped DEF RepliesTo
    <3>2. toHost' = Append(toHost, reply)
      BY <2>5
    <3> HIDE DEF reply
    <3>3. /\ Len(toHost') = Len(toHost) + 1 /\ toHost'[Len(toHost) + 1] = reply
          /\ \A i \in 1..Len(toHost) : toHost'[i] = toHost[i]
      BY <1>1, <3>1, <3>2, AppendProperties
    <3> QED
      BY <3>3 DEF reply
  <2>7. Reply(kind, TRUE).kind = kind /\ Reply(kind, TRUE).own
    BY DEF Reply
  <2>8. \A i \in 1..Len(toHost') : i # Len(toHost) + 1 => IsFrame(toHost'[i])
    BY <1>1, <2>1, <2>6 DEF Underway, OnlyFrames
  <2>9. Answered'
    <3>1. Len(toHost) + 1 \in 1..Len(toHost')
      BY <1>1, <2>6
    <3>2. toHost'[Len(toHost) + 1].own /\ toHost'[Len(toHost) + 1].kind \in RepliesTo(cmd')
      BY <1>0, <2>6, <2>7
    <3>3. OneReply(toHost)'
      BY <2>8, <3>1, <3>2 DEF OneReply
    <3> QED
      BY <2>2, <3>3 DEF Answered
  <2>10. Acknowledged' <=> kind = "ack"
    <3>1. Len(toHost) + 1 \in 1..Len(toHost')
      BY <1>1, <2>6
    <3>3. toHost'[Len(toHost) + 1].kind = kind
      BY <2>6, <2>7
    <3>2. \A i \in 1..Len(toHost') : toHost'[i].kind = "ack" => i = Len(toHost) + 1
      BY <2>8 DEF IsFrame
    <3> QED
      BY <2>2, <3>1, <3>2, <3>3 DEF Acknowledged
  <2>11. Agreed'
    <3>1. CASE kind = "nack"
      BY <1>0, <2>4, <2>5, <2>10, <3>1 DEF Mutual, Agreed
    <3>2. CASE kind # "nack"
      <4>1. CASE cmd = "O"
        BY <1>0, <2>1, <2>5, <3>2, <4>1 DEF Mutual, Agreed, Letter
      <4>2. CASE cmd \in {"C", "C?"}
        BY <1>0, <2>1, <2>5, <2>10, <3>2, <4>2 DEF Mutual, Agreed, Letter, RepliesTo
      <4>3. CASE cmd \in {"S", "t"}
        BY <1>0, <2>1, <2>4, <2>5, <3>2, <4>3 DEF Mutual, Agreed, Letter
      <4> QED
        BY <2>1, <4>1, <4>2, <4>3
    <3> QED
      BY <3>1, <3>2
  <2> QED
    BY <1>0, <2>1, <2>9, <2>11 DEF Mutual, Correlated
<1>3. CASE DeviceReceives
  <2>1. PICK id \in Ids : toHost' = Append(toHost, BusFrame(nextFrame, id))
    BY <1>3 DEF DeviceReceives
  <2>2. devOpen' = devOpen /\ toDevice' = toDevice
    BY <1>3 DEF DeviceReceives
  <2>3. /\ Len(toHost') = Len(toHost) + 1 /\ IsFrame(toHost'[Len(toHost) + 1])
        /\ \A i \in 1..Len(toHost) : toHost'[i] = toHost[i]
    <3> DEFINE frame == BusFrame(nextFrame, id)
    <3>1. frame \in Event /\ IsFrame(frame)
      BY AdapterAssumption DEF BusFrame, IsFrame, Event, Typed, CallsTypeOK
    <3> HIDE DEF frame
    <3> QED
      BY <1>1, <2>1, <3>1, AppendProperties DEF frame
  <2>4. OnlyFrames(toHost) => OnlyFrames(toHost')
    BY <1>1, <2>3 DEF OnlyFrames
  <2>5. (Quiet => Quiet') /\ (Underway => Underway')
    BY <1>0, <2>2, <2>4 DEF Quiet, Underway
  <2>6. Answered => Answered'
    BY <1>0, <1>1, <2>2, <2>3 DEF Answered, OneReply
  <2>7. Acknowledged' <=> Acknowledged
    BY <1>1, <2>2, <2>3 DEF Acknowledged, IsFrame
  <2>8. Correlated'
    BY <1>0, <2>5, <2>6 DEF Mutual, Correlated
  <2>9. Agreed'
    BY <1>0, <2>2, <2>7 DEF Mutual, Agreed
  <2> QED
    BY <2>8, <2>9 DEF Mutual
<1> QED
  BY <1>2, <1>3
-----------------------------------------------------------------------------
LEMMA InitDInv == Init => DInv
<1> SUFFICES ASSUME Init PROVE DInv
  OBVIOUS
<1>1. Quiet
  BY DEF Init, Quiet, OnlyFrames
<1> QED
  BY <1>1, InitTyped DEF Init, DInv, Mutual, Correlated, Agreed

LEMMA DInvStep == DInv /\ [Next]_vars => DInv'
<1> SUFFICES ASSUME DInv, [Next]_vars PROVE DInv'
  OBVIOUS
<1>0. Typed /\ Typed'
  BY TypeStep DEF DInv
<1>1. CASE UNCHANGED vars
  BY <1>0, <1>1 DEF vars, innerVars, callVars, deviceVars, DInv, Mutual, Correlated, Agreed, Quiet,
                    Underway, Answered, OneReply, Acknowledged
<1>2. CASE CommandTimeout
  BY <1>0, <1>2 DEF CommandTimeout, DInv
<1>3. CASE Next /\ ~CommandTimeout
  <2>1. late' = late
    BY <1>3 DEF Next, Calls, Resume, Host, Device, BeginOpen, BeginClose, BeginSend, Begin, OpenDevice,
         CloseUnopened, CloseIso, AddIsoFilter, RemIsoFilter, ChangeFilters, ReadCan, ReadIso,
         ClearRxBuffer, ResumeOpenIso, ResumeCloseDevice, PollMore, OpenClosed, OpenRateSet,
         OpenDone, CloseDone, SendDone, CommandRejected, DeviceExecutes, DeviceReceives
  <2>2. ASSUME Mutual PROVE Mutual'
    BY <1>0, <1>3, <2>2, NextCases, BeginsMutual, ReadsMutual, LocalMutual, OpeningMutual,
       EndingMutual, DeviceMutual
  <2> QED
    BY <1>0, <2>1, <2>2 DEF DInv
<1> QED
  BY <1>1, <1>2, <1>3

(* "Serialize host writes and correlate replies with the command that      *)
(* produced them": whoever calls, a command is decided by its own reply,   *)
(* until one has timed out.                                                *)
THEOREM RepliesCorrelated == Spec => []RepliesCorrelatedInTime
<1>1. DInv => RepliesCorrelatedInTime
  BY DEF DInv, Mutual, Correlated, RepliesCorrelatedInTime
<1> QED
  BY <1>1, InitDInv, DInvStep, PTL DEF Spec

(* Until then the host takes the channel for open only if the adapter has  *)
(* it open, through every rejected command and for every number of clones. *)
THEOREM OpenOnBothSidesHolds == Spec => []OpenOnBothSides
<1>1. DInv => OpenOnBothSides
  BY DEF DInv, Typed, CallsTypeOK, Mutual, Agreed, OpenOnBothSides
<1> QED
  BY <1>1, InitDInv, DInvStep, PTL DEF Spec
-----------------------------------------------------------------------------
(* Layers, with one clone of the API.                                      *)

LEMMA LayersStep ==
  ASSUME NEW c, Clients = {c}, LInv(c), [Next]_vars
  PROVE  LInv(c)'
<1>0. Typed /\ Typed' /\ Nested(c) /\ IsoFilterNeedsIso
  BY TypeStep DEF LInv
<1> SUFFICES Nested(c)' /\ IsoFilterNeedsIso'
  BY <1>0 DEF LInv
<1> USE <1>0 DEF Nested, IsoFilterNeedsIso
<1>1. CASE UNCHANGED vars
  BY <1>1 DEF vars, innerVars, callVars, deviceVars
<1>2. CASE CommandTimeout
  BY <1>2 DEF CommandTimeout, Release, innerVars, deviceVars
<1>3. ASSUME BeginOpen(c) \/ BeginClose(c) \/ BeginSend(c)
      PROVE  Nested(c)' /\ IsoFilterNeedsIso'
  BY <1>3 DEF BeginOpen, BeginClose, BeginSend, Begin, Free, innerVars
<1>4. ASSUME Reads(c) \/ PollMore
      PROVE  Nested(c)' /\ IsoFilterNeedsIso'
  BY <1>4 DEF Reads, ReadCan, ReadIso, ClearRxBuffer, PollMore, callVars
<1>5. CASE ResumeOpenIso(c) \/ ResumeCloseDevice(c)
  <2>1. resume'[c] = "none"
    BY <1>5 DEF ResumeOpenIso, ResumeCloseDevice, Typed, CallsTypeOK
  <2> QED
    BY <1>5, <2>1 DEF ResumeOpenIso, ResumeCloseDevice
<1>6. CASE OpenDevice(c) \/ CloseIso(c) \/ AddIsoFilter(c) \/ RemIsoFilter(c)
  BY <1>6 DEF OpenDevice, CloseIso, AddIsoFilter, RemIsoFilter, callVars
<1>7. CASE ChangeFilters(c)
  <2>1. UNCHANGED <<port, can_open, iso_tp_open, iso_tp_filter, callVars>>
    BY <1>7 DEF ChangeFilters
  <2> QED
    BY <2>1 DEF callVars
<1>8. CASE CloseUnopened(c)
  <2>1. resume'[c] \in {"none", "close_device"} /\ cmd = "none"
    BY <1>8 DEF CloseUnopened, Free, Typed, CallsTypeOK
  <2> QED
    BY <1>8, <2>1 DEF CloseUnopened, Reset
<1>9. CASE OpenClosed \/ OpenRateSet
  <2>1. cmd # "none" /\ resume' = resume /\ port' = port
    BY <1>9 DEF OpenClosed, OpenRateSet
  <2>2. resume[c] = "none"
    BY <2>1
  <2> QED
    BY <1>9, <2>1, <2>2 DEF OpenClosed, OpenRateSet
<1>10. CASE OpenDone \/ CloseDone \/ SendDone \/ CommandRejected
  <2>1. cmd # "none" /\ cmd' = "none" /\ port' = port /\ port
    BY <1>10 DEF OpenDone, CloseDone, SendDone, CommandRejected, Release, Typed, PortHeld
  <2>2. resume[c] = "none"
    BY <2>1
  <2>3. holder = c
    BY <2>1 DEF Typed, CallsTypeOK
  <2>4. CASE OpenDone
    <3>1. resume'[c] \in {"none", "open_iso"}
      BY <2>2, <2>4 DEF OpenDone, Typed, CallsTypeOK
    <3> QED
      BY <2>1, <2>4, <3>1 DEF OpenDone
  <2>5. CASE CloseDone
    <3>1. resume'[c] \in {"none", "close_device"}
      BY <2>2, <2>5 DEF CloseDone, Typed, CallsTypeOK
    <3> QED
      BY <2>1, <2>5, <3>1 DEF CloseDone, Reset
  <2>6. CASE SendDone \/ CommandRejected
    BY <2>1, <2>2, <2>6 DEF SendDone, CommandRejected
  <2> QED
    BY <1>10, <2>4, <2>5, <2>6
<1>11. CASE DeviceExecutes \/ DeviceReceives
  <2>1. UNCHANGED <<innerVars, callVars>>
    BY <1>11 DEF DeviceExecutes, DeviceReceives
  <2> QED
    BY <2>1 DEF innerVars, callVars
<1>12. CASE Next
  <2> \A d \in Clients : d = c
    OBVIOUS
  <2> QED
    BY <1>2, <1>3, <1>4, <1>5, <1>6, <1>7, <1>8, <1>9, <1>10, <1>11, <1>12, NextCases DEF Local
<1> QED
  BY <1>1, <1>12

(* With one clone, between calls the filter, the ISO-TP channel, the CAN   *)
(* channel and the port nest, whatever the adapter rejects or lets time    *)
(* out.  (A second clone may close the port between two halves of a call.) *)
THEOREM OneCloneLayersNest ==
  ASSUME NEW c, Clients = {c}
  PROVE  Spec => []LayersAndFilterNest
<1>1. Init => LInv(c)
  BY InitTyped DEF Init, LInv, Nested, IsoFilterNeedsIso
<1>2. LInv(c) /\ [Next]_vars => LInv(c)'
  BY LayersStep
<1>3. LInv(c) => LayersAndFilterNest
  BY DEF LInv, Nested, LayersAndFilterNest, LayersNest
<1> QED
  BY <1>1, <1>2, <1>3, PTL DEF Spec
-----------------------------------------------------------------------------
(* Frames in the order of the bus.  Every frame has its number on the bus; *)
(* a queue is looked at through the numbers of its frames.                 *)

\* The frames of a sequence are in the order of the bus, each there once.
Rising(events) ==
  \A i, j \in 1..Len(events) :
    i < j /\ IsFrame(events[i]) /\ IsFrame(events[j]) => events[i].n < events[j].n

Numbers(events) == {events[i].n : i \in {j \in 1..Len(events) : IsFrame(events[j])}}

\* All of S is older than all of T.
Older(S, T) == \A a \in S, b \in T : a < b

\* Frames the bus has carried already, up to the next one.
Carried(S, next) == \A a \in S : a \in Nat /\ a < next

\* From its oldest frame on, S misses none of them.
Unbroken(S, next) == \A a \in S, b \in Nat : a <= b /\ b < next => b \in S

OrderedLink(link, next) ==
  Rising(link) /\ Carried(Numbers(link), next) /\ Unbroken(Numbers(link), next)

\* A queue of frames, all older than what is still on the link.
Ahead(queue, link, next) ==
  /\ queue \in Seq(Event) /\ OnlyFrames(queue) /\ Rising(queue)
  /\ Carried(Numbers(queue), next) /\ Older(Numbers(queue), Numbers(link))

\* An increasing listing of all of S.
Lists(S, at) ==
  /\ at \in [1..Cardinality(S) -> S]
  /\ \A s \in S : \E i \in DOMAIN at : at[i] = s
  /\ \A i, j \in DOMAIN at : i < j => at[i] < at[j]

\* kept holds the messages at "places", taken in the order of at.
Selects(events, places, kept, at) ==
  /\ \A i \in 1..Len(kept) : at[i] \in places /\ kept[i] = events[at[i]]
  /\ \A i, j \in 1..Len(kept) : i < j => at[i] < at[j]
  /\ \A p \in places : \E i \in 1..Len(kept) : at[i] = p

LEMMA NatMin ==
  ASSUME NEW T, T \subseteq Nat, T # {}
  PROVE  \E m \in T : \A n \in T : m <= n
<1>1. PICK x \in T : \A y \in T : ~(<<y, x>> \in OpToRel(<, Nat))
  BY NatLessThanWellFounded, WFMin
<1>2. \A y \in T : ~(y < x)
  BY <1>1 DEF OpToRel
<1> QED
  BY <1>2

\* The listing of a set begins with its least member.
LEMMA ListsOneMore ==
  ASSUME NEW S, S \subseteq Nat, IsFiniteSet(S), NEW x \in S, \A s \in S : x <= s,
         NEW rest, Lists(S \ {x}, rest)
  PROVE  \E at : Lists(S, at)
<1>1. /\ Cardinality(S) \in Nat /\ Cardinality(S) # 0
      /\ Cardinality(S \ {x}) = Cardinality(S) - 1
  BY FS_CardinalityType, FS_RemoveElement, FS_EmptySet
<1> DEFINE n == Cardinality(S)
           at == [i \in 1..n |-> IF i = 1 THEN x ELSE rest[i - 1]]
<1>2. n \in Nat \ {0} /\ rest \in [1..(n - 1) -> S \ {x}]
  BY <1>1 DEF Lists
<1>3. /\ \A s \in S \ {x} : \E i \in 1..(n - 1) : rest[i] = s
      /\ \A i, j \in 1..(n - 1) : i < j => rest[i] < rest[j]
  BY <1>2 DEF Lists
<1> HIDE DEF n
<1>4. \A i \in 1..n : i # 1 => i - 1 \in 1..(n - 1) /\ rest[i - 1] \in S \ {x}
  BY <1>2
<1>5. at \in [1..n -> S]
  BY <1>4
<1>6. \A s \in S : \E i \in 1..n : at[i] = s
  <2> SUFFICES ASSUME NEW s \in S PROVE \E i \in 1..n : at[i] = s
    OBVIOUS
  <2>1. CASE s = x
    <3>1. 1 \in 1..n /\ at[1] = x
      BY <1>2
    <3> QED
      BY <2>1, <3>1
  <2>2. CASE s # x
    <3>1. PICK i \in 1..(n - 1) : rest[i] = s
      BY <1>3, <2>2
    <3>2. i + 1 \in 1..n /\ i + 1 # 1 /\ (i + 1) - 1 = i
      BY <1>2
    <3>3. at[i + 1] = rest[i]
      BY <3>2
    <3> QED
      BY <3>1, <3>2, <3>3
  <2> QED
    BY <2>1, <2>2
<1>7. \A i, j \in 1..n : i < j => at[i] < at[j]
  <2> SUFFICES ASSUME NEW i \in 1..n, NEW j \in 1..n, i < j PROVE at[i] < at[j]
    OBVIOUS
  <2>1. j # 1 /\ j - 1 \in 1..(n - 1) /\ at[j] = rest[j - 1]
    BY <1>2
  <2>2. CASE i = 1
    <3>1. at[j] \in S \ {x}
      BY <1>4, <2>1
    <3>2. x \in Nat /\ at[j] \in Nat /\ x <= at[j] /\ at[j] # x
      BY <3>1
    <3>3. at[i] = x
      BY <2>2
    <3> QED
      BY <3>2, <3>3
  <2>3. CASE i # 1
    <3>1. i - 1 \in 1..(n - 1) /\ at[i] = rest[i - 1] /\ i - 1 < j - 1
      BY <1>2, <2>3
    <3> QED
      BY <1>3, <2>1, <3>1
  <2> QED
    BY <2>2, <2>3
<1>8. DOMAIN at = 1..n
  OBVIOUS
<1> HIDE DEF at
<1> QED
  BY <1>5, <1>6, <1>7, <1>8 DEF Lists, n

\* The smallest set without a listing would have one.
LEMMA InOrderIs ==
  ASSUME NEW S, S \subseteq Nat, IsFiniteSet(S)
  PROVE  Lists(S, InOrder(S))
<1> DEFINE Finite == {R \in SUBSET Nat : IsFiniteSet(R)}
           Unlisted == {R \in Finite : ~\E at : Lists(R, at)}
           Sizes == {Cardinality(R) : R \in Unlisted}
<1>1. Sizes = {}
  <2> SUFFICES ASSUME Sizes # {} PROVE FALSE
    OBVIOUS
  <2>1. Sizes \subseteq Nat
    BY FS_CardinalityType
  <2>2. PICK m \in Sizes : \A n \in Sizes : m <= n
    <3> HIDE DEF Sizes
    <3> QED
      BY <2>1, NatMin
  <2>3. PICK R \in Unlisted : Cardinality(R) = m
    OBVIOUS
  <2>4. R \subseteq Nat /\ IsFiniteSet(R) /\ ~\E at : Lists(R, at)
    OBVIOUS
  <2>5. R # {}
    <3> SUFFICES ASSUME R = {} PROVE FALSE
      OBVIOUS
    <3>1. Cardinality(R) = 0
      BY FS_EmptySet
    <3>2. Lists(R, [i \in 1..0 |-> 0])
      BY <3>1 DEF Lists
    <3> QED
      BY <2>4, <3>2
  <2>6. PICK x \in R : \A s \in R : x <= s
    BY <2>4, <2>5, NatMin
  <2>7. /\ IsFiniteSet(R \ {x}) /\ Cardinality(R \ {x}) = Cardinality(R) - 1
        /\ Cardinality(R) \in Nat
    BY <2>4, FS_RemoveElement, FS_CardinalityType
  <2>8. R \ {x} \notin Unlisted
    <3>1. Cardinality(R \ {x}) \notin Sizes
      <4> HIDE DEF Sizes
      <4> QED
        BY <2>1, <2>2, <2>3, <2>7
    <3> QED
      BY <3>1
  <2>9. \E at : Lists(R \ {x}, at)
    <3>1. R \ {x} \in Finite
      BY <2>4, <2>7
    <3> QED
      BY <2>8, <3>1
  <2> QED
    BY <2>4, <2>6, <2>9, ListsOneMore
<1>2. \E at : Lists(S, at)
  <2>1. S \in Finite
    OBVIOUS
  <2>2. S \in Unlisted => Cardinality(S) \in Sizes
    OBVIOUS
  <2>3. S \notin Unlisted
    BY <1>1, <2>2
  <2> QED
    BY <2>1, <2>3
<1> QED
  BY <1>2 DEF Lists, InOrder

\* What a selection of messages is made of.
LEMMA KeptIs ==
  ASSUME NEW events \in Seq(Event), NEW places, places \subseteq 1..Len(events)
  PROVE  /\ Kept(events, places) \in Seq(Event)
         /\ Selects(events, places, Kept(events, places), InOrder(places))
<1>1. /\ Len(events) \in Nat /\ DOMAIN events = 1..Len(events)
      /\ \A i \in 1..Len(events) : events[i] \in Event
  OBVIOUS
<1>2. places \subseteq Nat /\ IsFiniteSet(places) /\ Cardinality(places) \in Nat
  <2>1. IsFiniteSet(1..Len(events))
    BY <1>1, FS_Interval
  <2>2. IsFiniteSet(places)
    BY <2>1, FS_Subset
  <2> QED
    BY <1>1, <2>2, FS_CardinalityType
<1> DEFINE n == Cardinality(places)
           at == InOrder(places)
           kept == Kept(events, places)
<1>3. /\ at \in [1..n -> places]
      /\ \A s \in places : \E i \in 1..n : at[i] = s
      /\ \A i, j \in 1..n : i < j => at[i] < at[j]
  <2>1. Lists(places, at)
    BY <1>2, InOrderIs
  <2>2. at \in [1..n -> places] /\ DOMAIN at = 1..n
    BY <2>1 DEF Lists
  <2> QED
    BY <2>1, <2>2 DEF Lists
<1>4. kept = [i \in 1..n |-> events[at[i]]] /\ n \in Nat
  BY <1>2 DEF Kept
<1> HIDE DEF n, at
<1>5. \A i \in 1..n : events[at[i]] \in Event
  BY <1>1, <1>3
<1>6. kept \in Seq(Event) /\ Len(kept) = n
  BY <1>4, <1>5, IsASeq
<1>7. \A i \in 1..n : kept[i] = events[at[i]]
  BY <1>4
<1> HIDE DEF kept
<1>8. \A i \in 1..n : at[i] \in places
  BY <1>3
<1> QED
  BY <1>3, <1>6, <1>7, <1>8 DEF at, kept, Selects

\* Selecting keeps the order and adds nothing.
LEMMA KeptNumbers ==
  ASSUME NEW events \in Seq(Event), NEW places, places \subseteq 1..Len(events)
  PROVE  /\ Kept(events, places) \in Seq(Event)
         /\ Numbers(Kept(events, places)) \subseteq Numbers(events)
         /\ Rising(events) => Rising(Kept(events, places))
         /\ OnlyFrames(events) => OnlyFrames(Kept(events, places))
<1> DEFINE kept == Kept(events, places)
           at == InOrder(places)
<1>1. /\ kept \in Seq(Event)
      /\ \A i \in 1..Len(kept) : at[i] \in places /\ kept[i] = events[at[i]]
      /\ \A i, j \in 1..Len(kept) : i < j => at[i] < at[j]
  <2>1. kept \in Seq(Event) /\ Selects(events, places, kept, at)
    BY KeptIs
  <2> HIDE DEF kept, at
  <2> QED
    BY <2>1 DEF Selects
<1> HIDE DEF kept, at
<1>2. \A i \in 1..Len(kept) : at[i] \in 1..Len(events) /\ kept[i] = events[at[i]]
  BY <1>1
<1>3. Numbers(kept) \subseteq Numbers(events)
  BY <1>2 DEF Numbers
<1>4. Rising(events) => Rising(kept)
  BY <1>1, <1>2 DEF Rising
<1>5. OnlyFrames(events) => OnlyFrames(kept)
  BY <1>2 DEF OnlyFrames
<1> QED
  BY <1>1, <1>3, <1>4, <1>5 DEF kept

\* Leaving out the replies loses no frame.
LEMMA FramesNumbers ==
  ASSUME NEW events \in Seq(Event)
  PROVE  /\ Frames(events) \in Seq(Event) /\ OnlyFrames(Frames(events))
         /\ Numbers(Frames(events)) = Numbers(events)
         /\ Rising(events) => Rising(Frames(events))
<1> DEFINE places == {i \in DOMAIN events : IsFrame(events[i])}
           kept == Kept(events, places)
           at == InOrder(places)
<1>1. places \subseteq 1..Len(events) /\ DOMAIN events = 1..Len(events)
  OBVIOUS
<1>2. /\ kept \in Seq(Event) /\ Numbers(kept) \subseteq Numbers(events)
      /\ Rising(events) => Rising(kept)
  <2> HIDE DEF places
  <2> QED
    BY <1>1, KeptNumbers
<1>3. /\ \A i \in 1..Len(kept) : at[i] \in places /\ kept[i] = events[at[i]]
      /\ \A p \in places : \E i \in 1..Len(kept) : at[i] = p
  <2> HIDE DEF places
  <2>1. Selects(events, places, kept, at)
    BY <1>1, KeptIs
  <2> HIDE DEF kept, at
  <2> QED
    BY <2>1 DEF Selects
<1>4. Frames(events) = kept
  BY DEF Frames
<1>5. \A p \in places : IsFrame(events[p])
  OBVIOUS
<1>6. \A p \in 1..Len(events) : IsFrame(events[p]) => p \in places
  BY <1>1
<1> HIDE DEF kept, at, places
<1>7. OnlyFrames(kept)
  BY <1>3, <1>5 DEF OnlyFrames
<1>8. Numbers(events) \subseteq Numbers(kept)
  <2> SUFFICES ASSUME NEW p \in 1..Len(events), IsFrame(events[p])
               PROVE  events[p].n \in Numbers(kept)
    BY DEF Numbers
  <2>1. PICK i \in 1..Len(kept) : at[i] = p
    BY <1>3, <1>6
  <2>2. kept[i] = events[p]
    BY <1>3, <2>1
  <2> QED
    BY <2>2 DEF Numbers
<1> QED
  BY <1>2, <1>4, <1>7, <1>8

LEMMA PassingNumbers ==
  ASSUME NEW frames \in Seq(Event)
  PROVE  /\ Passing(frames) \in Seq(Event)
         /\ Numbers(Passing(frames)) \subseteq Numbers(frames)
         /\ Rising(frames) => Rising(Passing(frames))
         /\ OnlyFrames(frames) => OnlyFrames(Passing(frames))
<1> DEFINE places == {i \in DOMAIN frames : Allowed(frames[i])}
<1>1. places \subseteq 1..Len(frames)
  <2>1. DOMAIN frames = 1..Len(frames)
    OBVIOUS
  <2> QED
    BY <2>1
<1>2. Passing(frames) = Kept(frames, places)
  BY DEF Passing
<1> HIDE DEF places
<1> QED
  BY <1>1, <1>2, KeptNumbers

LEMMA Joined ==
  ASSUME NEW s \in Seq(Event), NEW t \in Seq(Event)
  PROVE  /\ s \o t \in Seq(Event)
         /\ Numbers(s \o t) = Numbers(s) \cup Numbers(t)
         /\ OnlyFrames(s) /\ OnlyFrames(t) => OnlyFrames(s \o t)
         /\ Rising(s) /\ Rising(t) /\ Older(Numbers(s), Numbers(t)) => Rising(s \o t)
<1> DEFINE both == s \o t
<1>1. /\ both \in Seq(Event) /\ Len(both) = Len(s) + Len(t)
      /\ \A i \in 1..Len(both) :
           both[i] = IF i <= Len(s) THEN s[i] ELSE t[i - Len(s)]
  BY ConcatProperties
<1>2. Len(s) \in Nat /\ Len(t) \in Nat
  OBVIOUS
<1> HIDE DEF both
<1>3. \A i \in 1..Len(both) :
        \/ i \in 1..Len(s) /\ both[i] = s[i]
        \/ i > Len(s) /\ i - Len(s) \in 1..Len(t) /\ both[i] = t[i - Len(s)]
  BY <1>1, <1>2
<1>4. /\ \A i \in 1..Len(s) : i \in 1..Len(both) /\ both[i] = s[i]
      /\ \A i \in 1..Len(t) : i + Len(s) \in 1..Len(both) /\ both[i + Len(s)] = t[i]
  <2>1. \A i \in 1..Len(s) : i \in 1..Len(both) /\ both[i] = s[i]
    BY <1>1, <1>2
  <2>2. \A i \in 1..Len(t) : /\ i + Len(s) \in 1..Len(both) /\ ~(i + Len(s) <= Len(s))
                             /\ (i + Len(s)) - Len(s) = i
    BY <1>1, <1>2
  <2>3. \A i \in 1..Len(t) : both[i + Len(s)] = t[(i + Len(s)) - Len(s)]
    BY <1>1, <2>2
  <2>4. \A i \in 1..Len(t) : both[i + Len(s)] = t[i]
    BY <2>2, <2>3
  <2> QED
    BY <2>1, <2>2, <2>4
<1>5. Numbers(both) = Numbers(s) \cup Numbers(t)
  <2>1. Numbers(both) \subseteq Numbers(s) \cup Numbers(t)
    BY <1>3 DEF Numbers
  <2>2. Numbers(s) \subseteq Numbers(both)
    BY <1>4 DEF Numbers
  <2>3. Numbers(t) \subseteq Numbers(both)
    BY <1>4 DEF Numbers
  <2> QED
    BY <2>1, <2>2, <2>3
<1>6. OnlyFrames(s) /\ OnlyFrames(t) => OnlyFrames(both)
  BY <1>3 DEF OnlyFrames
<1>7. ASSUME Rising(s), Rising(t), Older(Numbers(s), Numbers(t)) PROVE Rising(both)
  <2> SUFFICES ASSUME NEW i \in 1..Len(both), NEW j \in 1..Len(both), i < j,
                      IsFrame(both[i]), IsFrame(both[j])
               PROVE  both[i].n < both[j].n
    BY DEF Rising
  <2>1. CASE i \in 1..Len(s) /\ both[i] = s[i] /\ j \in 1..Len(s) /\ both[j] = s[j]
    BY <1>7, <2>1 DEF Rising
  <2>2. CASE /\ i > Len(s) /\ i - Len(s) \in 1..Len(t) /\ both[i] = t[i - Len(s)]
             /\ j > Len(s) /\ j - Len(s) \in 1..Len(t) /\ both[j] = t[j - Len(s)]
    <3>1. i - Len(s) < j - Len(s)
      BY <1>2
    <3> QED
      BY <1>7, <2>2, <3>1 DEF Rising
  <2>3. CASE /\ i \in 1..Len(s) /\ both[i] = s[i]
             /\ j - Len(s) \in 1..Len(t) /\ both[j] = t[j - Len(s)]
    <3>1. both[i].n \in Numbers(s) /\ both[j].n \in Numbers(t)
      BY <2>3 DEF Numbers
    <3> QED
      BY <1>7, <3>1 DEF Older
  <2> QED
    BY <1>2, <1>3, <2>1, <2>2, <2>3
<1> QED
  BY <1>1, <1>5, <1>6, <1>7 DEF both

\* What is left of a sequence once its first m messages are taken.
LEMMA Dropped ==
  ASSUME NEW s \in Seq(Event), NEW m \in 0..Len(s)
  PROVE  LET left == SubSeq(s, m + 1, Len(s))
         IN /\ left \in Seq(Event)
            /\ Numbers(left) \subseteq Numbers(s)
            /\ OnlyFrames(s) => OnlyFrames(left)
            /\ Rising(s) => Rising(left)
            /\ Rising(s) => \A a \in Numbers(left), b \in Numbers(s) :
                               b \in Numbers(left) \/ b < a
<1> DEFINE left == SubSeq(s, m + 1, Len(s))
<1>1. /\ Len(s) \in Nat /\ left \in Seq(Event) /\ Len(left) = Len(s) - m
      /\ \A i \in 1..Len(left) : left[i] = s[m + i]
  BY SubSeqProperties
<1> HIDE DEF left
<1>2. \A i \in 1..Len(left) : m + i \in 1..Len(s) /\ left[i] = s[m + i]
  BY <1>1
<1>3. Numbers(left) \subseteq Numbers(s)
  BY <1>2 DEF Numbers
<1>4. OnlyFrames(s) => OnlyFrames(left)
  BY <1>2 DEF OnlyFrames
<1>5. Rising(s) => Rising(left)
  <2>1. \A i, j \in 1..Len(left) : i < j => m + i < m + j
    BY <1>1
  <2> QED
    BY <1>2, <2>1 DEF Rising
<1>6. ASSUME Rising(s), NEW a \in Numbers(left), NEW b \in Numbers(s)
      PROVE  b \in Numbers(left) \/ b < a
  <2>1. PICK i \in 1..Len(left) : IsFrame(left[i]) /\ left[i].n = a
    BY DEF Numbers
  <2>2. PICK j \in 1..Len(s) : IsFrame(s[j]) /\ s[j].n = b
    BY DEF Numbers
  <2>3. CASE j <= m
    <3>1. j < m + i /\ s[m + i].n = a /\ IsFrame(s[m + i]) /\ m + i \in 1..Len(s)
      BY <1>1, <1>2, <2>1, <2>3
    <3> QED
      BY <1>6, <2>2, <3>1 DEF Rising
  <2>4. CASE j > m
    <3>1. j - m \in 1..Len(left) /\ m + (j - m) = j
      BY <1>1, <2>4
    <3>2. left[j - m] = s[j]
      BY <1>2, <3>1
    <3> QED
      BY <2>2, <3>1, <3>2 DEF Numbers
  <2> QED
    BY <1>1, <2>3, <2>4
<1> QED
  BY <1>1, <1>3, <1>4, <1>5, <1>6 DEF left

\* The link is the batch that is read and the rest.
LEMMA Parts ==
  ASSUME toHost \in Seq(Event), Rising(toHost), NEW k \in 0..Len(toHost)
  PROVE  /\ Batch(k) \in Seq(Event) /\ Rest(k) \in Seq(Event)
         /\ Numbers(toHost) = Numbers(Batch(k)) \cup Numbers(Rest(k))
         /\ Rising(Batch(k)) /\ Rising(Rest(k))
         /\ Older(Numbers(Batch(k)), Numbers(Rest(k)))
<1>1. /\ Len(toHost) \in Nat /\ Batch(k) \in Seq(Event) /\ Len(Batch(k)) = k
      /\ \A i \in 1..k : Batch(k)[i] = toHost[i]
  <2>1. /\ SubSeq(toHost, 1, k) \in Seq(Event) /\ Len(SubSeq(toHost, 1, k)) = k
        /\ \A i \in 1..k : SubSeq(toHost, 1, k)[i] = toHost[1 + i - 1]
    BY SubSeqProperties
  <2>2. \A i \in 1..k : 1 + i - 1 = i
    OBVIOUS
  <2> QED
    BY <2>1, <2>2 DEF Batch
<1>2. /\ Rest(k) \in Seq(Event) /\ Len(Rest(k)) = Len(toHost) - k
      /\ \A i \in 1..Len(Rest(k)) : Rest(k)[i] = toHost[k + i]
  BY RestOfLink
<1>3. /\ \A i \in 1..k : i \in 1..Len(toHost) /\ Batch(k)[i] = toHost[i]
      /\ \A i \in 1..Len(Rest(k)) : k + i \in 1..Len(toHost) /\ Rest(k)[i] = toHost[k + i]
  BY <1>1, <1>2
<1>4. \A i \in 1..Len(toHost) : i \in 1..k \/ (i - k \in 1..Len(Rest(k)) /\ k + (i - k) = i)
  BY <1>1, <1>2
<1>5. Rising(Batch(k))
  BY <1>1, <1>3 DEF Rising
<1>6. Rising(Rest(k))
  <2>1. \A i, j \in 1..Len(Rest(k)) : i < j => k + i < k + j
    BY <1>2
  <2> QED
    BY <1>3, <2>1 DEF Rising
<1>7. Older(Numbers(Batch(k)), Numbers(Rest(k)))
  <2> SUFFICES ASSUME NEW i \in 1..k, IsFrame(Batch(k)[i]),
                      NEW j \in 1..Len(Rest(k)), IsFrame(Rest(k)[j])
               PROVE  Batch(k)[i].n < Rest(k)[j].n
    BY <1>1 DEF Older, Numbers
  <2>1. i < k + j
    BY <1>2
  <2> QED
    BY <1>3, <2>1 DEF Rising
<1>8. Numbers(toHost) = Numbers(Batch(k)) \cup Numbers(Rest(k))
  <2>1. Numbers(Batch(k)) \subseteq Numbers(toHost)
    BY <1>1, <1>3 DEF Numbers
  <2>2. Numbers(Rest(k)) \subseteq Numbers(toHost)
    BY <1>3 DEF Numbers
  <2>3. ASSUME NEW i \in 1..Len(toHost), IsFrame(toHost[i])
        PROVE  toHost[i].n \in Numbers(Batch(k)) \cup Numbers(Rest(k))
    <3>1. CASE i \in 1..k
      BY <1>1, <1>3, <2>3, <3>1 DEF Numbers
    <3>2. CASE i - k \in 1..Len(Rest(k)) /\ k + (i - k) = i
      <4>1. Rest(k)[i - k] = toHost[i]
        BY <1>3, <3>2
      <4> QED
        BY <2>3, <3>2, <4>1 DEF Numbers
    <3> QED
      BY <1>4, <3>1, <3>2
  <2>4. Numbers(toHost) \subseteq Numbers(Batch(k)) \cup Numbers(Rest(k))
    BY <2>3 DEF Numbers
  <2> QED
    BY <2>1, <2>2, <2>4
<1> QED
  BY <1>1, <1>2, <1>5, <1>6, <1>7, <1>8

LEMMA ForeignNumbers ==
  ASSUME NEW events \in Seq(Event)
  PROVE  /\ Foreign(events) \in Seq(Event)
         /\ Numbers(Foreign(events)) = Numbers(events)
         /\ Rising(events) => Rising(Foreign(events))
<1>1. /\ DOMAIN events = 1..Len(events) /\ Len(events) \in Nat
      /\ \A i \in 1..Len(events) : events[i] \in Event
  OBVIOUS
<1>2. Foreign(events) = [i \in 1..Len(events) |-> [events[i] EXCEPT !.own = FALSE]]
  BY <1>1 DEF Foreign
<1>3. \A i \in 1..Len(events) :
        /\ [events[i] EXCEPT !.own = FALSE] \in Event
        /\ [events[i] EXCEPT !.own = FALSE].kind = events[i].kind
        /\ [events[i] EXCEPT !.own = FALSE].n = events[i].n
  BY <1>1 DEF Event
<1>4. Foreign(events) \in Seq(Event) /\ Len(Foreign(events)) = Len(events)
  BY <1>1, <1>2, <1>3, IsASeq
<1>5. \A i \in 1..Len(events) :
        /\ IsFrame(Foreign(events)[i]) <=> IsFrame(events[i])
        /\ Foreign(events)[i].n = events[i].n
  BY <1>2, <1>3 DEF IsFrame
<1>6. Numbers(Foreign(events)) = Numbers(events)
  BY <1>4, <1>5 DEF Numbers
<1>7. Rising(events) => Rising(Foreign(events))
  BY <1>4, <1>5 DEF Rising
<1> QED
  BY <1>4, <1>6, <1>7

LEMMA AppendNumbers ==
  ASSUME NEW s \in Seq(Event), NEW e \in Event
  PROVE  /\ Append(s, e) \in Seq(Event)
         /\ Numbers(Append(s, e)) = Numbers(s) \cup (IF IsFrame(e) THEN {e.n} ELSE {})
         /\ Rising(s) /\ (IsFrame(e) => \A a \in Numbers(s) : a < e.n) => Rising(Append(s, e))
<1> DEFINE more == Append(s, e)
           last == Len(s) + 1
<1>1. /\ more \in Seq(Event) /\ Len(more) = last /\ Len(s) \in Nat
      /\ \A i \in 1..Len(s) : more[i] = s[i]
      /\ more[last] = e
  BY AppendProperties
<1>2. \A i \in 1..last : i \in 1..Len(s) \/ i = last
  BY <1>1
<1>3. last \in 1..last /\ \A i \in 1..Len(s) : i \in 1..last /\ i < last
  BY <1>1
<1> HIDE DEF more, last
<1>4. CASE IsFrame(e)
  <2>1. Numbers(more) \subseteq Numbers(s) \cup {e.n}
    BY <1>1, <1>2 DEF Numbers
  <2>2. Numbers(s) \subseteq Numbers(more)
    BY <1>1, <1>3 DEF Numbers
  <2>3. e.n \in Numbers(more)
    BY <1>1, <1>3, <1>4 DEF Numbers
  <2> QED
    <3>1. ASSUME Rising(s), \A a \in Numbers(s) : a < e.n PROVE Rising(more)
      <4> SUFFICES ASSUME NEW i \in 1..last, NEW j \in 1..last, i < j,
                          IsFrame(more[i]), IsFrame(more[j])
                   PROVE  more[i].n < more[j].n
        BY <1>1 DEF Rising
      <4>1. i \in 1..Len(s)
        BY <1>1, <1>2, <1>3 DEF last
      <4>2. CASE j \in 1..Len(s)
        BY <1>1, <3>1, <4>1, <4>2 DEF Rising
      <4>3. CASE j = last
        <5>1. more[i].n \in Numbers(s)
          BY <1>1, <4>1 DEF Numbers
        <5> QED
          BY <1>1, <3>1, <4>3, <5>1
      <4> QED
        BY <1>2, <4>2, <4>3
    <3> QED
      BY <1>1, <1>4, <2>1, <2>2, <2>3, <3>1 DEF more
<1>5. CASE ~IsFrame(e)
  <2>1. Numbers(more) \subseteq Numbers(s)
    BY <1>1, <1>2, <1>5 DEF Numbers
  <2>2. Numbers(s) \subseteq Numbers(more)
    BY <1>1, <1>3 DEF Numbers
  <2>3. Rising(s) => Rising(more)
    BY <1>1, <1>2, <1>5 DEF Rising
  <2> QED
    BY <1>1, <1>5, <2>1, <2>2, <2>3 DEF more
<1> QED
  BY <1>4, <1>5

LEMMA EmptyAhead ==
  ASSUME NEW link, NEW next
  PROVE  Ahead(<<>>, link, next) /\ Numbers(<<>>) = {} /\ OrderedLink(<<>>, next)
<1>1. Numbers(<<>>) = {} /\ <<>> \in Seq(Event)
  BY DEF Numbers
<1>2. OnlyFrames(<<>>) /\ Rising(<<>>)
  BY DEF OnlyFrames, Rising
<1> QED
  BY <1>1, <1>2 DEF Ahead, OrderedLink, Carried, Older, Unbroken

\* What is read from the link goes behind what is queued.
LEMMA Grows ==
  ASSUME toHost \in Seq(Event), OrderedLink(toHost, nextFrame), NEW k \in 0..Len(toHost),
         NEW queue, Ahead(queue, toHost, nextFrame),
         NEW more \in Seq(Event), OnlyFrames(more), Rising(more),
         Numbers(more) \subseteq Numbers(Batch(k))
  PROVE  Ahead(queue \o more, Rest(k), nextFrame)
<1>1. /\ Numbers(toHost) = Numbers(Batch(k)) \cup Numbers(Rest(k))
      /\ Older(Numbers(Batch(k)), Numbers(Rest(k)))
  BY Parts DEF OrderedLink
<1>2. /\ queue \in Seq(Event) /\ OnlyFrames(queue) /\ Rising(queue)
      /\ Carried(Numbers(queue), nextFrame) /\ Older(Numbers(queue), Numbers(toHost))
      /\ Carried(Numbers(toHost), nextFrame)
  BY DEF Ahead, OrderedLink
<1>3. Older(Numbers(queue), Numbers(more))
  BY <1>1, <1>2 DEF Older
<1>4. /\ queue \o more \in Seq(Event) /\ OnlyFrames(queue \o more) /\ Rising(queue \o more)
      /\ Numbers(queue \o more) = Numbers(queue) \cup Numbers(more)
  BY <1>2, <1>3, Joined
<1>5. Carried(Numbers(queue \o more), nextFrame)
  BY <1>1, <1>2, <1>4 DEF Carried
<1>6. Older(Numbers(queue \o more), Numbers(Rest(k)))
  BY <1>1, <1>2, <1>4 DEF Older
<1> QED
  BY <1>4, <1>5, <1>6 DEF Ahead

LEMMA CanGrows ==
  ASSUME toHost \in Seq(Event), OrderedLink(toHost, nextFrame), NEW k \in 0..Len(toHost),
         Ahead(receive_queue, toHost, nextFrame)
  PROVE  Ahead(CanQueueAfter(k), Rest(k), nextFrame)
<1>1. Batch(k) \in Seq(Event) /\ Rising(Batch(k))
  BY Parts DEF OrderedLink
<1> DEFINE frames == Frames(Batch(k))
           more == Passing(frames)
<1>2. /\ frames \in Seq(Event) /\ OnlyFrames(frames) /\ Rising(frames)
      /\ Numbers(frames) = Numbers(Batch(k))
  BY <1>1, FramesNumbers
<1> HIDE DEF frames
<1>3. /\ more \in Seq(Event) /\ OnlyFrames(more) /\ Rising(more)
      /\ Numbers(more) \subseteq Numbers(Batch(k))
  BY <1>2, PassingNumbers
<1>4. CanQueueAfter(k) = receive_queue \o more
  BY DEF CanQueueAfter, frames
<1> HIDE DEF more
<1> QED
  BY <1>3, <1>4, Grows

LEMMA IsoGrows ==
  ASSUME toHost \in Seq(Event), OrderedLink(toHost, nextFrame), NEW k \in 0..Len(toHost),
         Ahead(iso_receive_queue, toHost, nextFrame)
  PROVE  /\ Ahead(IsoQueueAfter(k), Rest(k), nextFrame)
         /\ iso_tp_open => Numbers(IsoQueueAfter(k)) \cup Numbers(Rest(k))
                             = Numbers(iso_receive_queue) \cup Numbers(toHost)
<1>1. /\ Batch(k) \in Seq(Event) /\ Rising(Batch(k))
      /\ Numbers(toHost) = Numbers(Batch(k)) \cup Numbers(Rest(k))
  BY Parts DEF OrderedLink
<1> DEFINE more == Frames(Batch(k))
<1>2. /\ more \in Seq(Event) /\ OnlyFrames(more) /\ Rising(more)
      /\ Numbers(more) = Numbers(Batch(k))
  BY <1>1, FramesNumbers
<1>3. IsoQueueAfter(k) = IF iso_tp_open THEN iso_receive_queue \o more ELSE iso_receive_queue
  BY DEF IsoQueueAfter
<1> HIDE DEF more
<1>4. CASE iso_tp_open
  <2>1. Numbers(iso_receive_queue \o more) = Numbers(iso_receive_queue) \cup Numbers(more)
    BY <1>2, Joined DEF Ahead
  <2> QED
    BY <1>1, <1>2, <1>3, <1>4, <2>1, Grows
<1>5. CASE ~iso_tp_open
  <2>1. Ahead(iso_receive_queue, Rest(k), nextFrame)
    BY <1>1 DEF Ahead, Older
  <2> QED
    BY <1>3, <1>5, <2>1
<1> QED
  BY <1>4, <1>5

\* The oldest frames of a queue are taken.
LEMMA Shrinks ==
  ASSUME NEW queue, NEW link, NEW next, NEW m \in 0..Len(queue),
         Ahead(queue, link, next), Carried(Numbers(link), next)
  PROVE  LET left == SubSeq(queue, m + 1, Len(queue))
         IN /\ Ahead(left, link, next)
            /\ Unbroken(Numbers(queue) \cup Numbers(link), next)
                 => Unbroken(Numbers(left) \cup Numbers(link), next)
<1> DEFINE left == SubSeq(queue, m + 1, Len(queue))
<1>1. /\ left \in Seq(Event) /\ Numbers(left) \subseteq Numbers(queue)
      /\ OnlyFrames(left) /\ Rising(left)
      /\ \A a \in Numbers(left), b \in Numbers(queue) : b \in Numbers(left) \/ b < a
  BY Dropped DEF Ahead
<1> HIDE DEF left
<1>2. Carried(Numbers(queue), next) /\ Older(Numbers(queue), Numbers(link))
  BY DEF Ahead
<1>3. Ahead(left, link, next)
  BY <1>1, <1>2 DEF Ahead, Carried, Older
<1>4. ASSUME Unbroken(Numbers(queue) \cup Numbers(link), next)
      PROVE  Unbroken(Numbers(left) \cup Numbers(link), next)
  <2> SUFFICES ASSUME NEW a \in Numbers(left) \cup Numbers(link), NEW b \in Nat,
                      a <= b, b < next
               PROVE  b \in Numbers(left) \cup Numbers(link)
    BY DEF Unbroken
  <2>1. b \in Numbers(queue) \cup Numbers(link) /\ a \in Nat
    BY <1>1, <1>2, <1>4 DEF Unbroken, Carried
  <2>2. CASE b \in Numbers(queue)
    <3>1. ~(b < a)
      BY <2>1
    <3>2. a \notin Numbers(link)
      BY <2>2, <3>1, <1>2 DEF Older
    <3> QED
      BY <1>1, <2>2, <3>1, <3>2
  <2> QED
    BY <2>1, <2>2
<1> QED
  BY <1>3, <1>4 DEF left

\* Reading leaves the rest of the link as it is.
LEMMA RestOrdered ==
  ASSUME toHost \in Seq(Event), OrderedLink(toHost, nextFrame), NEW k \in 0..Len(toHost)
  PROVE  OrderedLink(Rest(k), nextFrame)
<1>1. /\ Numbers(toHost) = Numbers(Batch(k)) \cup Numbers(Rest(k))
      /\ Rising(Rest(k)) /\ Older(Numbers(Batch(k)), Numbers(Rest(k)))
      /\ Carried(Numbers(toHost), nextFrame) /\ Unbroken(Numbers(toHost), nextFrame)
  BY Parts DEF OrderedLink
<1>2. Carried(Numbers(Rest(k)), nextFrame)
  BY <1>1 DEF Carried
<1>3. Unbroken(Numbers(Rest(k)), nextFrame)
  <2> SUFFICES ASSUME NEW a \in Numbers(Rest(k)), NEW b \in Nat, a <= b, b < nextFrame
               PROVE  b \in Numbers(Rest(k))
    BY DEF Unbroken
  <2>1. b \in Numbers(toHost) /\ a \in Nat
    BY <1>1, <1>2 DEF Unbroken, Carried
  <2>2. ~(b < a)
    BY <2>1
  <2> QED
    BY <1>1, <2>1, <2>2 DEF Older
<1> QED
  BY <1>1, <1>2, <1>3 DEF OrderedLink

LEMMA ForeignOrdered ==
  ASSUME NEW link \in Seq(Event), NEW next, OrderedLink(link, next)
  PROVE  /\ OrderedLink(Foreign(link), next)
         /\ \A queue : Ahead(queue, link, next) => Ahead(queue, Foreign(link), next)
         /\ Numbers(Foreign(link)) = Numbers(link)
<1>1. Numbers(Foreign(link)) = Numbers(link) /\ Rising(Foreign(link))
  BY ForeignNumbers DEF OrderedLink
<1> QED
  BY <1>1 DEF OrderedLink, Ahead
-----------------------------------------------------------------------------
(* What a step does to the link and the queues.                            *)

\* Some of a queue is left, from its newest frame back, or nothing.
Left(before, after) ==
  after \in {<<>>, before}
    \/ \E m \in 0..Len(before) : after = SubSeq(before, m + 1, Len(before))

LinkRead(k) ==
  /\ toHost' \in {Rest(k), Foreign(Rest(k))}
  /\ Left(CanQueueAfter(k), receive_queue')
  /\ Left(IsoQueueAfter(k), iso_receive_queue')
  /\ iso_tp_open' => iso_tp_open
  /\ nextFrame' = nextFrame

LinkStays ==
  /\ toHost' \in {toHost, Foreign(toHost)}
  /\ receive_queue' \in {<<>>, receive_queue}
  /\ iso_receive_queue' \in {<<>>, iso_receive_queue}
  /\ iso_tp_open' => iso_tp_open \/ iso_receive_queue' = <<>>
  /\ nextFrame' = nextFrame

LinkDropped ==
  /\ toHost' = <<>> /\ receive_queue' = <<>>
  /\ UNCHANGED <<iso_receive_queue, iso_tp_open, nextFrame>>

LinkGrows ==
  /\ UNCHANGED <<receive_queue, iso_receive_queue, iso_tp_open>>
  /\ \E e \in Event :
       /\ toHost' = Append(toHost, e)
       /\ IsFrame(e) => e.n = nextFrame /\ nextFrame' = nextFrame + 1
       /\ ~IsFrame(e) => nextFrame' = nextFrame

LEMMA LinkMoves ==
  ASSUME Typed, [Next]_vars
  PROVE  \/ \E k \in 0..Len(toHost) : LinkRead(k)
         \/ LinkStays
         \/ LinkDropped /\ \E c \in Clients : ResumeCloseDevice(c)
         \/ LinkGrows
<1>0. 1..Len(toHost) \subseteq 0..Len(toHost)
  BY DEF Typed, CallsTypeOK
<1>1. CASE UNCHANGED vars
  BY <1>1 DEF vars, innerVars, callVars, deviceVars, LinkStays
<1>2. CASE CommandTimeout
  BY <1>2 DEF CommandTimeout, innerVars, deviceVars, LinkStays
<1>3. ASSUME NEW c \in Clients, BeginOpen(c) \/ BeginClose(c) \/ BeginSend(c)
      PROVE  LinkStays
  BY <1>3 DEF BeginOpen, BeginClose, BeginSend, Begin, Write, innerVars, deviceVars, LinkStays
<1>4. ASSUME NEW c \in Clients, ReadCan(c)
      PROVE  \E k \in 0..Len(toHost) : LinkRead(k)
  BY <1>4 DEF ReadCan, deviceVars, LinkRead, Left
<1>5. ASSUME NEW c \in Clients, ReadIso(c)
      PROVE  \E k \in 0..Len(toHost) : LinkRead(k)
  BY <1>5 DEF ReadIso, deviceVars, LinkRead, Left
<1>6. ASSUME NEW c \in Clients, ClearRxBuffer(c)
      PROVE  \E k \in 0..Len(toHost) : LinkRead(k)
  BY <1>6 DEF ClearRxBuffer, deviceVars, LinkRead, Left
<1>7. CASE PollMore
  BY <1>0, <1>7 DEF PollMore, QueueFrames, deviceVars, LinkRead, Left
<1>8. ASSUME NEW c \in Clients, Local(c)
      PROVE  LinkStays
  <2>1. CASE ResumeOpenIso(c)
    BY <2>1 DEF ResumeOpenIso, deviceVars, LinkStays
  <2>2. CASE OpenDevice(c)
    BY <2>2 DEF OpenDevice, deviceVars, LinkStays
  <2>3. CASE CloseUnopened(c)
    BY <2>3 DEF CloseUnopened, Reset, deviceVars, LinkStays
  <2>4. CASE CloseIso(c)
    BY <2>4 DEF CloseIso, deviceVars, LinkStays
  <2>5. CASE AddIsoFilter(c) \/ RemIsoFilter(c)
    BY <2>5 DEF AddIsoFilter, RemIsoFilter, deviceVars, LinkStays
  <2>6. CASE ChangeFilters(c)
    <3>1. UNCHANGED <<port, can_open, iso_tp_open, iso_tp_filter, receive_queue,
                      iso_receive_queue, callVars, toDevice, toHost, deviceVars>>
      BY <2>6 DEF ChangeFilters
    <3> QED
      BY <3>1 DEF deviceVars, LinkStays
  <2> QED
    BY <1>8, <2>1, <2>2, <2>3, <2>4, <2>5, <2>6 DEF Local
<1>9. ASSUME NEW c \in Clients, ResumeCloseDevice(c)
      PROVE  LinkDropped
  BY <1>9 DEF ResumeCloseDevice, deviceVars, LinkDropped
<1>10. CASE OpenClosed
  BY <1>0, <1>10 DEF OpenClosed, Write, deviceVars, LinkRead, Left
<1>11. CASE OpenRateSet
  BY <1>0, <1>11 DEF OpenRateSet, QueueFrames, Write, deviceVars, LinkRead, Left
<1>12. CASE OpenDone
  BY <1>0, <1>12 DEF OpenDone, QueueFrames, deviceVars, LinkRead, Left
<1>13. CASE CloseDone
  BY <1>0, <1>13 DEF CloseDone, Reset, deviceVars, LinkRead, Left
<1>14. CASE SendDone \/ CommandRejected
  BY <1>0, <1>14 DEF SendDone, CommandRejected, QueueFrames, deviceVars, LinkRead, Left
<1>15. CASE DeviceExecutes
  <2>1. UNCHANGED <<receive_queue, iso_receive_queue, iso_tp_open, nextFrame>>
    BY <1>15 DEF DeviceExecutes, innerVars
  <2>2. Head(toDevice) \in Command
    BY <1>15 DEF DeviceExecutes, Typed, CallsTypeOK
  <2>3. PICK kind \in {"ack", "nack", "accepted"} :
          toHost' = toHost \/ toHost' = Append(toHost, Reply(kind, Head(toDevice).own))
    BY <1>15 DEF DeviceExecutes
  <2>4. Head(toDevice).own \in BOOLEAN
    BY <2>2 DEF Command
  <2>5. /\ Reply(kind, Head(toDevice).own) \in Event
        /\ ~IsFrame(Reply(kind, Head(toDevice).own))
    BY <2>4 DEF Reply, Event, IsFrame
  <2>6. CASE toHost' = toHost
    BY <2>1, <2>6 DEF LinkStays
  <2>7. CASE toHost' = Append(toHost, Reply(kind, Head(toDevice).own))
    <3> DEFINE e == Reply(kind, Head(toDevice).own)
    <3>1. e \in Event /\ ~IsFrame(e) /\ toHost' = Append(toHost, e)
      BY <2>5, <2>7
    <3> HIDE DEF e
    <3> QED
      BY <2>1, <3>1 DEF LinkGrows
  <2> QED
    BY <2>3, <2>6, <2>7
<1>16. CASE DeviceReceives
  <2>1. /\ UNCHANGED <<receive_queue, iso_receive_queue, iso_tp_open>>
        /\ nextFrame' = nextFrame + 1
    BY <1>16 DEF DeviceReceives, innerVars
  <2>2. PICK id \in Ids : toHost' = Append(toHost, BusFrame(nextFrame, id))
    BY <1>16 DEF DeviceReceives
  <2> DEFINE e == BusFrame(nextFrame, id)
  <2>3. e \in Event /\ IsFrame(e) /\ e.n = nextFrame
    BY AdapterAssumption DEF BusFrame, IsFrame, Event, Typed, CallsTypeOK
  <2>4. toHost' = Append(toHost, e)
    BY <2>2
  <2> HIDE DEF e
  <2> QED
    BY <2>1, <2>3, <2>4 DEF LinkGrows
<1> QED
  BY <1>1, <1>2, <1>3, <1>4, <1>5, <1>6, <1>7, <1>8, <1>9, <1>10, <1>11, <1>12, <1>13, <1>14,
     <1>15, <1>16, NextCases DEF Reads

LEMMA LeftAhead ==
  ASSUME NEW before, NEW after, NEW link, NEW next,
         Left(before, after), Ahead(before, link, next), OrderedLink(link, next)
  PROVE  /\ Ahead(after, link, next)
         /\ Unbroken(Numbers(before) \cup Numbers(link), next)
              => Unbroken(Numbers(after) \cup Numbers(link), next)
<1>0. Carried(Numbers(link), next) /\ Unbroken(Numbers(link), next)
  BY DEF OrderedLink
<1>1. CASE after = <<>>
  <2>1. Numbers(after) = {} /\ Ahead(after, link, next)
    BY <1>1, EmptyAhead
  <2>2. Numbers(after) \cup Numbers(link) = Numbers(link)
    BY <2>1
  <2> QED
    BY <1>0, <2>1, <2>2
<1>2. CASE after = before
  BY <1>2
<1>3. ASSUME NEW m \in 0..Len(before), after = SubSeq(before, m + 1, Len(before))
      PROVE  /\ Ahead(after, link, next)
             /\ Unbroken(Numbers(before) \cup Numbers(link), next)
                  => Unbroken(Numbers(after) \cup Numbers(link), next)
  BY <1>0, <1>3, Shrinks
<1> QED
  BY <1>1, <1>2, <1>3 DEF Left

(* Every frame on the link is newer than all that are queued, and both are *)
(* in the order of the bus; the link is cut off only at its old end.       *)
Ordered ==
  /\ OrderedLink(toHost, nextFrame)
  /\ Ahead(receive_queue, toHost, nextFrame)
  /\ Ahead(iso_receive_queue, toHost, nextFrame)

(* While ISO-TP is open, no frame is missing between its queue, the link   *)
(* and the bus.                                                            *)
IsoWhole ==
  iso_tp_open => Unbroken(Numbers(iso_receive_queue) \cup Numbers(toHost), nextFrame)

LEMMA ReadOrdered ==
  ASSUME Typed, Ordered, NEW k \in 0..Len(toHost), LinkRead(k)
  PROVE  Ordered' /\ (IsoWhole => IsoWhole')
<1>1. toHost \in Seq(Event)
  BY DEF Typed, CallsTypeOK
<1>2. /\ Rest(k) \in Seq(Event) /\ OrderedLink(Rest(k), nextFrame)
      /\ Ahead(CanQueueAfter(k), Rest(k), nextFrame)
      /\ Ahead(IsoQueueAfter(k), Rest(k), nextFrame)
  BY <1>1, RestOfLink, RestOrdered, CanGrows, IsoGrows DEF Ordered
<1>3. /\ Ahead(receive_queue', Rest(k), nextFrame)
      /\ Ahead(iso_receive_queue', Rest(k), nextFrame)
  BY <1>2, LeftAhead DEF LinkRead
<1>4. /\ OrderedLink(toHost', nextFrame)
      /\ Ahead(receive_queue', toHost', nextFrame)
      /\ Ahead(iso_receive_queue', toHost', nextFrame)
      /\ Numbers(toHost') = Numbers(Rest(k))
  <2>1. CASE toHost' = Rest(k)
    BY <1>2, <1>3, <2>1
  <2>2. CASE toHost' = Foreign(Rest(k))
    BY <1>2, <1>3, <2>2, ForeignOrdered
  <2> QED
    BY <2>1, <2>2 DEF LinkRead
<1>5. nextFrame' = nextFrame
  BY DEF LinkRead
<1>6. Ordered'
  BY <1>4, <1>5 DEF Ordered
<1>7. ASSUME IsoWhole, iso_tp_open'
      PROVE  Unbroken(Numbers(iso_receive_queue') \cup Numbers(toHost'), nextFrame')
  <2>1. iso_tp_open
    BY <1>7 DEF LinkRead
  <2>2. Unbroken(Numbers(iso_receive_queue) \cup Numbers(toHost), nextFrame)
    BY <1>7, <2>1 DEF IsoWhole
  <2>3. Numbers(IsoQueueAfter(k)) \cup Numbers(Rest(k))
          = Numbers(iso_receive_queue) \cup Numbers(toHost)
    BY <1>1, <2>1, IsoGrows DEF Ordered
  <2>4. Unbroken(Numbers(iso_receive_queue') \cup Numbers(Rest(k)), nextFrame)
    BY <1>2, <2>2, <2>3, LeftAhead DEF LinkRead
  <2> QED
    BY <1>4, <1>5, <2>4
<1> QED
  BY <1>6, <1>7 DEF IsoWhole

LEMMA StaysOrdered ==
  ASSUME Typed, Ordered, LinkStays
  PROVE  Ordered' /\ (IsoWhole => IsoWhole')
<1>1. toHost \in Seq(Event) /\ OrderedLink(toHost, nextFrame) /\ nextFrame' = nextFrame
  BY DEF Typed, CallsTypeOK, Ordered, LinkStays
<1>2. /\ Ahead(receive_queue', toHost, nextFrame)
      /\ Ahead(iso_receive_queue', toHost, nextFrame)
  BY EmptyAhead DEF LinkStays, Ordered
<1>3. /\ OrderedLink(toHost', nextFrame)
      /\ Ahead(receive_queue', toHost', nextFrame)
      /\ Ahead(iso_receive_queue', toHost', nextFrame)
      /\ Numbers(toHost') = Numbers(toHost)
  <2>1. CASE toHost' = toHost
    BY <1>1, <1>2, <2>1
  <2>2. CASE toHost' = Foreign(toHost)
    BY <1>1, <1>2, <2>2, ForeignOrdered
  <2> QED
    BY <2>1, <2>2 DEF LinkStays
<1>4. Ordered'
  BY <1>1, <1>3 DEF Ordered
<1>5. ASSUME IsoWhole, iso_tp_open'
      PROVE  Unbroken(Numbers(iso_receive_queue') \cup Numbers(toHost'), nextFrame')
  <2>1. CASE iso_receive_queue' = <<>>
    <3>1. Numbers(iso_receive_queue') = {} /\ Unbroken(Numbers(toHost), nextFrame)
      BY <1>1, <2>1, EmptyAhead DEF OrderedLink
    <3>2. Numbers(iso_receive_queue') \cup Numbers(toHost') = Numbers(toHost)
      BY <1>3, <3>1
    <3> QED
      BY <1>1, <3>1, <3>2
  <2>2. CASE iso_receive_queue' = iso_receive_queue /\ iso_tp_open
    BY <1>1, <1>3, <1>5, <2>2 DEF IsoWhole
  <2> QED
    BY <1>5, <2>1, <2>2 DEF LinkStays
<1> QED
  BY <1>4, <1>5 DEF IsoWhole

LEMMA DroppedOrdered ==
  ASSUME Ordered, LinkDropped
  PROVE  Ordered'
<1>1. Ahead(iso_receive_queue, <<>>, nextFrame)
  BY EmptyAhead DEF Ordered, Ahead, Older
<1>2. OrderedLink(<<>>, nextFrame) /\ Ahead(<<>>, <<>>, nextFrame)
  BY EmptyAhead
<1> QED
  BY <1>1, <1>2 DEF LinkDropped, Ordered

LEMMA GrowsOrdered ==
  ASSUME Typed, Ordered, LinkGrows
  PROVE  Ordered' /\ (IsoWhole => IsoWhole')
<1>1. /\ toHost \in Seq(Event) /\ nextFrame \in Nat
      /\ UNCHANGED <<receive_queue, iso_receive_queue, iso_tp_open>>
  BY AdapterAssumption DEF Typed, CallsTypeOK, LinkGrows
<1>2. PICK e \in Event :
        /\ toHost' = Append(toHost, e)
        /\ IsFrame(e) => e.n = nextFrame /\ nextFrame' = nextFrame + 1
        /\ ~IsFrame(e) => nextFrame' = nextFrame
  BY DEF LinkGrows
<1>3. /\ Rising(toHost) /\ Carried(Numbers(toHost), nextFrame)
      /\ Unbroken(Numbers(toHost), nextFrame)
  BY DEF Ordered, OrderedLink
<1>4. CASE IsFrame(e)
  <2>1. \A a \in Numbers(toHost) : a < e.n
    BY <1>2, <1>3, <1>4 DEF Carried
  <2>2. Rising(toHost') /\ Numbers(toHost') = Numbers(toHost) \cup {nextFrame}
    BY <1>1, <1>2, <1>3, <1>4, <2>1, AppendNumbers
  <2>3. nextFrame' = nextFrame + 1
    BY <1>2, <1>4
  <2>4. \A S : Carried(S, nextFrame) => Carried(S, nextFrame')
    BY <1>1, <2>3 DEF Carried
  <2>5. Carried(Numbers(toHost'), nextFrame')
    BY <1>1, <1>3, <2>2, <2>3 DEF Carried
  <2>6. ASSUME NEW S, Carried(S, nextFrame), Unbroken(S, nextFrame)
        PROVE  Unbroken(S \cup {nextFrame}, nextFrame')
    BY <1>1, <2>3, <2>6 DEF Unbroken, Carried
  <2>7. OrderedLink(toHost', nextFrame')
    BY <1>3, <2>2, <2>5, <2>6 DEF OrderedLink
  <2>8. ASSUME NEW queue, Ahead(queue, toHost, nextFrame)
        PROVE  Ahead(queue, toHost', nextFrame')
    <3>1. /\ queue \in Seq(Event) /\ OnlyFrames(queue) /\ Rising(queue)
          /\ Carried(Numbers(queue), nextFrame) /\ Older(Numbers(queue), Numbers(toHost))
      BY <2>8 DEF Ahead
    <3>2. Older(Numbers(queue), Numbers(toHost'))
      BY <2>2, <3>1 DEF Older, Carried
    <3> QED
      BY <2>4, <3>1, <3>2 DEF Ahead
  <2>9. Ordered'
    BY <1>1, <2>7, <2>8 DEF Ordered
  <2>10. ASSUME IsoWhole, iso_tp_open
         PROVE  Unbroken(Numbers(iso_receive_queue) \cup Numbers(toHost'), nextFrame')
    <3> DEFINE S == Numbers(iso_receive_queue) \cup Numbers(toHost)
    <3>1. Unbroken(S, nextFrame)
      BY <2>10 DEF IsoWhole
    <3>2. Carried(S, nextFrame)
      BY <1>3 DEF Ordered, Ahead, Carried
    <3>3. Numbers(iso_receive_queue) \cup Numbers(toHost') = S \cup {nextFrame}
      BY <2>2
    <3> HIDE DEF S
    <3> QED
      BY <2>6, <3>1, <3>2, <3>3
  <2> QED
    BY <1>1, <2>9, <2>10 DEF IsoWhole
<1>5. CASE ~IsFrame(e)
  <2>1. Rising(toHost') /\ Numbers(toHost') = Numbers(toHost) /\ nextFrame' = nextFrame
    <3>1. Rising(toHost')
      BY <1>1, <1>2, <1>3, <1>5, AppendNumbers
    <3>2. Numbers(toHost') = Numbers(toHost) \cup {}
      BY <1>1, <1>2, <1>5, AppendNumbers
    <3> QED
      BY <1>2, <1>5, <3>1, <3>2
  <2>2. OrderedLink(toHost', nextFrame')
    BY <1>3, <2>1 DEF OrderedLink
  <2>3. \A queue : Ahead(queue, toHost, nextFrame) => Ahead(queue, toHost', nextFrame')
    BY <2>1 DEF Ahead
  <2>4. Ordered'
    BY <1>1, <2>2, <2>3 DEF Ordered
  <2> QED
    BY <1>1, <2>1, <2>4 DEF IsoWhole
<1> QED
  BY <1>4, <1>5
-----------------------------------------------------------------------------
(* Types and queues, for any number of clones.                             *)

Filtered == filters \in [Slots -> Filter \cup {NoFilter}]

QInv == Typed /\ Filtered /\ Ordered

LEMMA FilteredStep == Filtered /\ [Next]_vars => Filtered'
<1> SUFFICES ASSUME Filtered, [Next]_vars PROVE Filtered'
  OBVIOUS
<1>1. CASE UNCHANGED filters
  BY <1>1 DEF Filtered
<1>2. CASE Reset
  BY <1>2 DEF Reset, Filtered
<1>3. ASSUME NEW c \in Clients, ChangeFilters(c)
      PROVE  Filtered'
  <2>1. PICK s \in Slots, f \in Filter \cup {NoFilter} : filters' = [filters EXCEPT ![s] = f]
    BY <1>3 DEF ChangeFilters
  <2> QED
    BY <2>1 DEF Filtered
<1>4. UNCHANGED filters \/ Reset \/ \E c \in Clients : ChangeFilters(c)
  <2>1. CASE UNCHANGED vars
    BY <2>1 DEF vars, innerVars
  <2>2. CASE Next
    BY <2>2 DEF Next, Calls, Resume, Host, Device, BeginOpen, BeginClose, BeginSend, Begin,
         OpenDevice, CloseUnopened, CloseIso, AddIsoFilter, RemIsoFilter, ReadCan, ReadIso,
         ClearRxBuffer, ResumeOpenIso, ResumeCloseDevice, PollMore, OpenClosed, OpenRateSet,
         OpenDone, CloseDone, SendDone, CommandRejected, CommandTimeout, DeviceExecutes,
         DeviceReceives, innerVars
  <2> QED
    BY <2>1, <2>2
<1> QED
  BY <1>1, <1>2, <1>3, <1>4

LEMMA InitQInv == Init => QInv
<1> SUFFICES ASSUME Init PROVE QInv
  OBVIOUS
<1>1. Filtered
  BY DEF Init, Filtered
<1>2. Ordered
  BY EmptyAhead DEF Init, Ordered
<1> QED
  BY <1>1, <1>2, InitTyped DEF QInv

LEMMA QInvStep == QInv /\ [Next]_vars => QInv'
<1> SUFFICES ASSUME QInv, [Next]_vars PROVE QInv'
  OBVIOUS
<1>1. Typed /\ Filtered /\ Ordered /\ Typed' /\ Filtered'
  BY TypeStep, FilteredStep DEF QInv
<1>2. Ordered'
  BY <1>1, LinkMoves, ReadOrdered, StaysOrdered, DroppedOrdered, GrowsOrdered
<1> QED
  BY <1>1, <1>2 DEF QInv

LEMMA QueueInOrder ==
  ASSUME NEW queue, NEW link, NEW next, Ahead(queue, link, next)
  PROVE  /\ \A i \in 1..(Len(queue) - 1) : queue[i].n < queue[i + 1].n
         /\ \A i \in DOMAIN queue : queue[i] \in Event /\ IsFrame(queue[i])
<1>1. /\ queue \in Seq(Event) /\ Len(queue) \in Nat /\ DOMAIN queue = 1..Len(queue)
      /\ \A i \in 1..Len(queue) : queue[i] \in Event
  BY DEF Ahead
<1>2. \A i \in 1..(Len(queue) - 1) : i \in 1..Len(queue) /\ i + 1 \in 1..Len(queue) /\ i < i + 1
  BY <1>1
<1> QED
  BY <1>1, <1>2 DEF Ahead, OnlyFrames, Rising

(* The queues hold frames and nothing else, and every piece of the state   *)
(* keeps its type, for any number of clones.                               *)
THEOREM AdapterTyped == Spec => []TypeOK
<1>1. ASSUME QInv PROVE TypeOK
  <2>1. CallsTypeOK /\ filters \in [Slots -> Filter \cup {NoFilter}]
    BY <1>1 DEF QInv, Typed, Filtered
  <2>2. \A q \in {receive_queue, iso_receive_queue} : \A i \in DOMAIN q :
          q[i] \in Event /\ IsFrame(q[i])
    BY <1>1, QueueInOrder DEF QInv, Ordered
  <2> QED
    BY <2>1, <2>2 DEF TypeOK, QueuesTypeOK
<1> QED
  BY <1>1, InitQInv, QInvStep, PTL DEF Spec

(* Filters and replies between the frames thin out the CAN queue, and      *)
(* never reorder or repeat what is in it, for any number of clones.        *)
THEOREM CanQueueOrdered == Spec => []CanQueueInOrder
<1>1. ASSUME QInv PROVE CanQueueInOrder
  BY <1>1, QueueInOrder DEF QInv, Ordered, CanQueueInOrder
<1> QED
  BY <1>1, InitQInv, QInvStep, PTL DEF Spec
-----------------------------------------------------------------------------
(* No frame is lost, with one clone of the API.                            *)

FInv(c) == LInv(c) /\ QInv /\ IsoWhole

\* In order and unbroken is consecutive.
LEMMA NoneMissing ==
  ASSUME NEW frames \in Seq(Event), OnlyFrames(frames), Rising(frames), NEW next \in Nat,
         Carried(Numbers(frames), next), Unbroken(Numbers(frames), next)
  PROVE  Consecutive(frames)
<1>1. Len(frames) \in Nat
  OBVIOUS
<1> SUFFICES ASSUME NEW i \in 1..(Len(frames) - 1)
             PROVE  frames[i + 1].n = frames[i].n + 1
  BY DEF Consecutive
<1>2. i \in 1..Len(frames) /\ i + 1 \in 1..Len(frames) /\ i < i + 1
  BY <1>1
<1>3. /\ frames[i].n \in Numbers(frames) /\ frames[i + 1].n \in Numbers(frames)
      /\ frames[i].n < frames[i + 1].n
  BY <1>2 DEF OnlyFrames, Rising, Numbers
<1>4. frames[i].n \in Nat /\ frames[i + 1].n \in Nat /\ frames[i + 1].n < next
  BY <1>3 DEF Carried
<1>5. ASSUME frames[i].n + 1 < frames[i + 1].n PROVE FALSE
  <2>1. frames[i].n + 1 \in Numbers(frames)
    BY <1>3, <1>4, <1>5 DEF Unbroken
  <2>2. PICK j \in 1..Len(frames) : IsFrame(frames[j]) /\ frames[j].n = frames[i].n + 1
    BY <2>1 DEF Numbers
  <2>3. IsFrame(frames[i]) /\ IsFrame(frames[i + 1])
    BY <1>2 DEF OnlyFrames
  <2>4. CASE j < i
    <3>1. frames[j].n < frames[i].n
      BY <1>2, <2>2, <2>3, <2>4 DEF Rising
    <3> QED
      BY <1>4, <2>2, <3>1
  <2>5. CASE j > i + 1
    <3>1. frames[i + 1].n < frames[j].n
      BY <1>2, <2>2, <2>3, <2>5 DEF Rising
    <3> QED
      BY <1>4, <1>5, <2>2, <3>1
  <2>6. CASE j = i
    BY <1>4, <2>2, <2>6
  <2>7. CASE j = i + 1
    BY <1>4, <1>5, <2>2, <2>7
  <2> QED
    BY <1>2, <2>4, <2>5, <2>6, <2>7
<1> QED
  BY <1>3, <1>4, <1>5

LEMMA FInvStep ==
  ASSUME NEW c, Clients = {c}, FInv(c), [Next]_vars
  PROVE  FInv(c)'
<1>1. LInv(c)' /\ QInv'
  BY LayersStep, QInvStep DEF FInv
<1>2. Typed /\ Ordered /\ Nested(c) /\ IsoWhole
  BY DEF FInv, LInv, QInv
<1>3. ASSUME LinkDropped, NEW d \in Clients, ResumeCloseDevice(d) PROVE IsoWhole'
  <2>1. resume[c] = "close_device"
    BY <1>3 DEF ResumeCloseDevice
  <2>2. ~iso_tp_open'
    BY <1>2, <1>3, <2>1 DEF Nested, LinkDropped
  <2> QED
    BY <2>2 DEF IsoWhole
<1>4. IsoWhole'
  BY <1>2, <1>3, LinkMoves, ReadOrdered, StaysOrdered, GrowsOrdered
<1> QED
  BY <1>1, <1>4 DEF FInv

(* "The device can send received CAN-frame lines at any time, including    *)
(* while a command response is pending": with one holder of the adapter    *)
(* every frame read from the link is queued once and in bus order, and     *)
(* none is missing while ISO-TP is open, whichever command was waiting,    *)
(* failed or timed out, and however the reads divide the link.             *)
THEOREM OneCloneFramesKept ==
  ASSUME NEW c, Clients = {c}
  PROVE  Spec => []FramesKept
<1>1. ASSUME Init PROVE FInv(c)
  <2>1. LInv(c)
    BY <1>1, InitTyped DEF Init, LInv, Nested, IsoFilterNeedsIso
  <2>2. IsoWhole
    BY <1>1 DEF Init, IsoWhole
  <2> QED
    BY <1>1, <2>1, <2>2, InitQInv DEF FInv
<1>2. FInv(c) /\ [Next]_vars => FInv(c)'
  BY FInvStep
<1>3. ASSUME FInv(c) PROVE FramesKept
  <2>1. CanQueueInOrder
    BY <1>3, QueueInOrder DEF FInv, QInv, Ordered, CanQueueInOrder
  <2>2. ASSUME iso_tp_open PROVE Consecutive(iso_receive_queue \o Frames(toHost))
    <3>1. /\ toHost \in Seq(Event) /\ nextFrame \in Nat
          /\ OrderedLink(toHost, nextFrame)
          /\ Ahead(iso_receive_queue, toHost, nextFrame)
          /\ Unbroken(Numbers(iso_receive_queue) \cup Numbers(toHost), nextFrame)
      BY <1>3, <2>2, AdapterAssumption DEF FInv, QInv, Ordered, Typed, CallsTypeOK, IsoWhole
    <3> DEFINE unread == Frames(toHost)
               all == iso_receive_queue \o unread
    <3>2. /\ unread \in Seq(Event) /\ OnlyFrames(unread) /\ Rising(unread)
          /\ Numbers(unread) = Numbers(toHost)
      BY <3>1, FramesNumbers DEF OrderedLink
    <3> HIDE DEF unread
    <3>3. /\ iso_receive_queue \in Seq(Event) /\ OnlyFrames(iso_receive_queue)
          /\ Rising(iso_receive_queue) /\ Carried(Numbers(iso_receive_queue), nextFrame)
          /\ Older(Numbers(iso_receive_queue), Numbers(unread))
          /\ Carried(Numbers(unread), nextFrame)
      BY <3>1, <3>2 DEF Ahead, OrderedLink
    <3>4. /\ all \in Seq(Event) /\ OnlyFrames(all) /\ Rising(all)
          /\ Numbers(all) = Numbers(iso_receive_queue) \cup Numbers(unread)
      BY <3>2, <3>3, Joined
    <3>5. Carried(Numbers(all), nextFrame) /\ Unbroken(Numbers(all), nextFrame)
      BY <3>1, <3>2, <3>3, <3>4 DEF Carried
    <3> HIDE DEF all
    <3>6. Consecutive(all)
      BY <3>1, <3>4, <3>5, NoneMissing
    <3> QED
      BY <3>6 DEF all, unread
  <2> QED
    BY <2>1, <2>2 DEF FramesKept, NoFrameLost
<1> QED
  BY <1>1, <1>2, <1>3, PTL DEF Spec
=============================================================================
