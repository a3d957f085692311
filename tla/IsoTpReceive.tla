----------------------------- MODULE IsoTpReceive -----------------------------
(***************************************************************************)
(* Reception of ISO-TP payloads by the SLCAN adapter's host                *)
(* (receive_iso_tp_frame, read_iso15765_packets and                        *)
(* clear_iso15765_rx_buffer of commapi/slcan_api.rs, called through        *)
(* Interface::send_recv_data).                                             *)
(*                                                                         *)
(* The peer (an ECU, external) cuts a payload into a first frame and       *)
(* consecutive frames, waits for a flow control after the first frame and  *)
(* after every block, and gives a transfer up when none comes.  Frames get *)
(* lost and flow controls fail; what the peer still sends of an answer the *)
(* host gave up arrives under the next request.                            *)
(*                                                                         *)
(* Frames and flow controls carry the number of their payload, and data    *)
(* its position, for the properties only: the host looks at pci, length    *)
(* and seq, the peer at nothing.                                           *)
(***************************************************************************)
EXTENDS Naturals, Sequences

CONSTANTS
  BlockSizes,      \* block sizes set_iso15765_params may be given; 0 asks for no
                   \* further flow control
  SeqModulus,      \* 16 in the code: sequence numbers are four bits wide
  CounterLimit,    \* 256 in the code: frames_since_flow_control is a u8
  Lengths,         \* payload lengths in consecutive frames; 0 is a single frame
  MaxPayloads,     \* bound: payloads the peer sends
  MaxLost          \* bound: frames lost on the way to the host

ASSUME ReceiveAssumption ==
  /\ CounterLimit \in Nat \ {0}
  /\ BlockSizes \subseteq 0..(CounterLimit - 1)
  /\ SeqModulus \in Nat \ {0, 1}
  /\ Lengths \subseteq Nat
  /\ MaxPayloads \in Nat /\ MaxLost \in Nat

VARIABLES
  block_size,      \* IsoTpFilter::block_size
  host,            \* "idle", "reading" (in read_iso15765_packets), "panicked"
  iso_tp_receive,  \* the payload being put together, or None
  payload,         \* the last payload read: its number and whether it is whole
  bus,             \* frames on their way to, or queued at, the host
  flowControls,    \* on their way to the peer, by the payload they are meant for
  peer,            \* the peer's transfer, or None
  started,         \* payloads the peer has begun to send
  lost,            \* frames lost so far
  upset,           \* history: a frame or a flow control of payload "started" did
                   \* not get through, or the host cleared its buffers
  misled           \* history: the peer took a flow control meant for a payload it
                   \* had given up

hostVars == <<block_size, host, iso_tp_receive, payload>>
peerVars == <<peer, started>>
vars == <<hostVars, bus, flowControls, peerVars, lost, upset, misled>>
-----------------------------------------------------------------------------
None == [length |-> 0]

Frame(pci, n, length) ==
  [pci |-> pci, n |-> n, length |-> length, seq |-> 0, position |-> 0]

ConsecutiveFrame(n, position) ==
  [pci |-> "consecutive", n |-> n, length |-> 0,
   seq |-> position % SeqModulus, position |-> position]

Init ==
  /\ block_size \in BlockSizes
  /\ host = "idle" /\ iso_tp_receive = None
  /\ payload = [n |-> 0, whole |-> TRUE]
  /\ bus = <<>> /\ flowControls = <<>>
  /\ peer = None /\ started = 0 /\ lost = 0
  /\ upset = FALSE /\ misled = FALSE
-----------------------------------------------------------------------------
(* The host.                                                               *)

\* send_recv_data begins: clear_buffer(RX), the request goes out, recv_data.
BeginRequest ==
  /\ host = "idle"
  /\ host' = "reading"
  /\ bus' = <<>> /\ iso_tp_receive' = None
  /\ upset' = TRUE
  /\ UNCHANGED <<block_size, payload, flowControls, peerVars, lost, misled>>

\* recv_data alone, for the answer after a pending response.
BeginRead ==
  /\ host = "idle"
  /\ host' = "reading"
  /\ UNCHANGED <<block_size, iso_tp_receive, payload, bus, flowControls,
                 peerVars, lost, upset, misled>>

\* The read's deadline passes.
ReadTimeout ==
  /\ host = "reading"
  /\ host' = "idle"
  /\ UNCHANGED <<block_size, iso_tp_receive, payload, bus, flowControls,
                 peerVars, lost, upset, misled>>

\* send_iso_tp_flow_control: sent; or rejected, or its reply timed out, and
\* then read_iso15765_packets returns the error.
SendFlowControl(n) ==
  \/ /\ flowControls' = Append(flowControls, n)
     /\ UNCHANGED <<host, upset>>
  \/ /\ flowControls' \in {flowControls, Append(flowControls, n)}
     /\ host' = "idle" /\ upset' = TRUE

Return(n, whole) ==
  /\ payload' = [n |-> n, whole |-> whole]
  /\ host' = "idle"

Take(pci) ==
  /\ host = "reading" /\ bus # <<>> /\ Head(bus).pci = pci
  /\ bus' = Tail(bus)
  /\ UNCHANGED <<block_size, peerVars, lost, misled>>

TakeSingleFrame ==
  /\ Take("single")
  /\ Return(Head(bus).n, TRUE)
  /\ UNCHANGED <<iso_tp_receive, flowControls, upset>>

FirstFrame(frame) ==
  [length |-> frame.length, n |-> frame.n, got |-> 0, whole |-> TRUE,
   next_sequence |-> 1, frames_since_flow_control |-> 0]

\* Fault: a first frame does not displace a payload in progress.
TakeFirstFrame_Keeps ==
  /\ Take("first")
  /\ iso_tp_receive' = IF iso_tp_receive = None THEN FirstFrame(Head(bus))
                       ELSE iso_tp_receive
  /\ SendFlowControl(Head(bus).n)
  /\ UNCHANGED payload

\* A first frame displaces whatever was being put together.
TakeFirstFrame ==
  /\ Take("first")
  /\ iso_tp_receive' = FirstFrame(Head(bus))
  /\ SendFlowControl(Head(bus).n)
  /\ UNCHANGED payload

InSequence == iso_tp_receive # None
                /\ Head(bus).seq = iso_tp_receive.next_sequence

\* A consecutive frame nobody waits for is skipped; one out of sequence ends
\* the transfer with error 20.
TakeUnexpectedFrame ==
  /\ Take("consecutive") /\ ~InSequence
  /\ iso_tp_receive' = None
  /\ host' = IF iso_tp_receive = None THEN host ELSE "idle"
  /\ UNCHANGED <<payload, flowControls, upset>>

\* The payload with the data of the next consecutive frame.
Extended ==
  LET frame == Head(bus)
  IN [iso_tp_receive EXCEPT
        !.got = @ + 1,
        !.whole = @ /\ frame.n = iso_tp_receive.n
                    /\ frame.position = iso_tp_receive.got + 1,
        !.next_sequence = (@ + 1) % SeqModulus,
        !.frames_since_flow_control = (@ + 1) % CounterLimit]

\* frames_since_flow_control += 1 overflows: a build with overflow checks
\* panics here, any other wraps and goes on below.
TakePanics ==
  /\ Take("consecutive") /\ InSequence
  /\ iso_tp_receive.frames_since_flow_control + 1 = CounterLimit
  /\ host' = "panicked"
  /\ UNCHANGED <<iso_tp_receive, payload, flowControls, upset>>

\* Fault: the finished payload stays in progress.
TakeLastFrame_Keeps ==
  /\ Take("consecutive") /\ InSequence
  /\ Extended.got = Extended.length
  /\ Return(Extended.n, Extended.whole)
  /\ iso_tp_receive' = Extended
  /\ UNCHANGED <<flowControls, upset>>

TakeLastFrame ==
  /\ Take("consecutive") /\ InSequence
  /\ Extended.got = Extended.length
  /\ Return(Extended.n, Extended.whole)
  /\ iso_tp_receive' = None
  /\ UNCHANGED <<flowControls, upset>>

\* Fault: the flow control comes one frame late.
BlockDone_Late(r) == block_size # 0 /\ r.frames_since_flow_control > block_size

BlockDone(r) == block_size # 0 /\ r.frames_since_flow_control >= block_size

\* Fault: a block that is done does not start the next one's count.
TakeConsecutiveFrame_NoReset ==
  /\ Take("consecutive") /\ InSequence
  /\ Extended.got # Extended.length
  /\ iso_tp_receive' = Extended
  /\ IF BlockDone(Extended) THEN SendFlowControl(Extended.n)
     ELSE UNCHANGED <<host, flowControls, upset>>
  /\ UNCHANGED payload

TakeConsecutiveFrame ==
  /\ Take("consecutive") /\ InSequence
  /\ Extended.got # Extended.length
  /\ IF BlockDone(Extended)
     THEN /\ iso_tp_receive' = [Extended EXCEPT !.frames_since_flow_control = 0]
          /\ SendFlowControl(Extended.n)
     ELSE /\ iso_tp_receive' = Extended
          /\ UNCHANGED <<host, flowControls, upset>>
  /\ UNCHANGED payload
-----------------------------------------------------------------------------
(* The peer and the bus (external).                                        *)

PeerSendsSingle ==
  /\ peer = None /\ started < MaxPayloads /\ 0 \in Lengths
  /\ started' = started + 1
  /\ bus' = Append(bus, Frame("single", started', 0))
  /\ upset' = FALSE
  /\ UNCHANGED <<hostVars, flowControls, peer, lost, misled>>

PeerSendsFirst ==
  /\ peer = None /\ started < MaxPayloads
  /\ started' = started + 1
  /\ \E length \in Lengths \ {0} :
       /\ peer' = [length |-> length, position |-> 1, inBlock |-> 0,
                   waiting |-> TRUE]
       /\ bus' = Append(bus, Frame("first", started', length))
  /\ upset' = FALSE
  /\ UNCHANGED <<hostVars, flowControls, lost, misled>>

PeerSendsConsecutive ==
  /\ peer # None /\ ~peer.waiting
  /\ bus' = Append(bus, ConsecutiveFrame(started, peer.position))
  /\ peer' = IF peer.position = peer.length THEN None
             ELSE [peer EXCEPT !.position = @ + 1,
                               !.inBlock = @ + 1,
                               !.waiting = peer.inBlock + 1 = block_size]
  /\ UNCHANGED <<hostVars, flowControls, started, lost, upset, misled>>

\* A waiting peer goes on with any flow control; otherwise it ignores it.
PeerTakesFlowControl ==
  /\ flowControls # <<>>
  /\ flowControls' = Tail(flowControls)
  /\ IF peer # None /\ peer.waiting
     THEN /\ peer' = [peer EXCEPT !.waiting = FALSE, !.inBlock = 0]
          /\ misled' = (misled \/ Head(flowControls) # started)
     ELSE UNCHANGED <<peer, misled>>
  /\ UNCHANGED <<hostVars, bus, started, lost, upset>>

\* No flow control in time: the peer gives the transfer up.
PeerGivesUp ==
  /\ peer # None /\ peer.waiting
  /\ peer' = None
  /\ UNCHANGED <<hostVars, bus, flowControls, started, lost, upset, misled>>

\* The frame sent last does not arrive.
LoseFrame ==
  /\ lost < MaxLost /\ bus # <<>>
  /\ bus' = SubSeq(bus, 1, Len(bus) - 1)
  /\ lost' = lost + 1 /\ upset' = TRUE
  /\ UNCHANGED <<hostVars, flowControls, peerVars, misled>>
-----------------------------------------------------------------------------
Receive == TakeSingleFrame \/ TakeFirstFrame \/ TakeUnexpectedFrame \/ TakePanics
             \/ TakeLastFrame \/ TakeConsecutiveFrame

Host == BeginRequest \/ BeginRead \/ ReadTimeout \/ Receive

Peer == PeerSendsSingle \/ PeerSendsFirst \/ PeerSendsConsecutive
          \/ PeerTakesFlowControl \/ PeerGivesUp

Next == Host \/ Peer \/ LoseFrame

Spec == Init /\ [][Next]_vars
-----------------------------------------------------------------------------
TypeOK ==
  /\ block_size \in BlockSizes
  /\ host \in {"idle", "reading", "panicked"}
  /\ iso_tp_receive # None =>
       /\ iso_tp_receive.n \in 1..MaxPayloads
       /\ iso_tp_receive.length \in Lengths
       /\ iso_tp_receive.got < iso_tp_receive.length
       /\ iso_tp_receive.next_sequence \in 0..(SeqModulus - 1)
       /\ iso_tp_receive.frames_since_flow_control \in 0..(CounterLimit - 1)
  /\ payload.n \in 0..MaxPayloads /\ payload.whole \in BOOLEAN
  /\ peer # None => peer.position \in 1..peer.length
  /\ started \in 0..MaxPayloads /\ lost \in 0..MaxLost
  /\ upset \in BOOLEAN /\ misled \in BOOLEAN

(* A payload handed to the layers above is one the peer sent, with all its *)
(* data in place: lost frames, abandoned transfers and answers to earlier  *)
(* requests never end up in it.                                            *)
PayloadsWhole == ~misled => payload.whole

(* Host and peer never wait for each other: while the peer waits for a     *)
(* flow control and nothing went wrong with its payload, a frame is on its *)
(* way to the host or a flow control to the peer.                          *)
NobodyWaits ==
  ~upset /\ peer # None /\ peer.waiting => bus # <<>> \/ flowControls # <<>>

(* Every block that is cleared starts its own count: with blocks of any    *)
(* size the u8 frames_since_flow_control never overflows, however long the *)
(* payload and however many transfers are abandoned in a block.  (Without  *)
(* blocks it does, CounterLimit frames into a payload.)                    *)
PanicsOnlyUnbounded == host = "panicked" => block_size = 0

(* The counters stay in their widths, and each transfer in its bounds.     *)
CountersFit == TypeOK /\ PanicsOnlyUnbounded

Channel == INSTANCE PayloadChannel WITH sent <- started, delivered <- payload.n

(* Payloads are read in the order they were sent, and none twice: short of *)
(* a misled peer, reception implements PayloadChannel.                     *)
PayloadsInOrder ==
  Channel!Init /\ [][~misled' => Channel!Next]_<<started, payload.n>>
=============================================================================
