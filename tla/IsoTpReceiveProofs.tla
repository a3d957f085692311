-------------------------- MODULE IsoTpReceiveProofs --------------------------
(***************************************************************************)
(* Proofs about the reception of ISO-TP payloads, for every block size,    *)
(* payload length, modulus of the sequence numbers and width of the        *)
(* counter, however many payloads are sent and frames are lost.            *)
(*                                                                         *)
(* What a read hands over is whole and in order because of where frames    *)
(* can be: consecutive frames follow a flow control, and that a first      *)
(* frame the host has taken.  So everything on the bus that continues a    *)
(* payload lies before everything that begins one, and continues the       *)
(* payload being put together.  Of that, each frame that got lost leaves   *)
(* one frame too few to reach the length.                                  *)
(***************************************************************************)
EXTENDS IsoTpReceive, SequenceTheorems, TLAPS

FrameType == [pci : {"single", "first", "consecutive"}, n : Nat, length : Nat,
              seq : Nat, position : Nat]

Transfer == [length : Nat, n : Nat, got : Nat, whole : BOOLEAN,
             next_sequence : Nat, frames_since_flow_control : Nat]

PeerTransfer == [length : Nat, position : Nat, inBlock : Nat, waiting : BOOLEAN]

Begins(frame) == frame.pci # "consecutive"
Continues(frame) == frame.pci = "consecutive"

Receiving == iso_tp_receive # None
Sending == peer # None

(* Everything under way carries the number of a payload that was started.  *)
BusNumbered ==
  /\ bus \in Seq(FrameType)
  /\ \A i \in 1..Len(bus) : /\ bus[i].n \in 1..started
                            /\ bus[i].pci = "first" => bus[i].length \in Lengths \ {0}

FlowsNumbered ==
  /\ flowControls \in Seq(Nat)
  /\ \A i \in 1..Len(flowControls) : flowControls[i] \in 1..started

TransfersNumbered ==
  /\ Receiving => /\ iso_tp_receive \in Transfer /\ iso_tp_receive.n \in 1..started
                  /\ iso_tp_receive.length \in Lengths \ {0}
  /\ Sending => peer \in PeerTransfer /\ started > 0
  /\ payload \in [n : Nat, whole : BOOLEAN] /\ payload.n \in 0..started
  /\ started \in Nat

Numbered == BusNumbered /\ FlowsNumbered /\ TransfersNumbered

BlockCounted ==
  block_size # 0 /\ Receiving => iso_tp_receive.frames_since_flow_control < block_size

CInv == TypeOK /\ Numbered /\ BlockCounted /\ PanicsOnlyUnbounded

(* A frame that begins a payload is newer than all that lies before it.    *)
NewOnesBegin ==
  \A i \in 1..Len(bus) : Begins(bus[i]) =>
    /\ payload.n < bus[i].n
    /\ Receiving => iso_tp_receive.n < bus[i].n
    /\ \A j \in 1..(i - 1) : bus[j].n < bus[i].n

NotYetRead == Receiving => iso_tp_receive.n # payload.n

\* The host has the beginning of payload n, and may be waiting for more of it.
Begun(n) ==
  /\ payload.n <= n
  /\ Receiving => iso_tp_receive.n = n

OldOnesContinue ==
  \A i \in 1..Len(bus) : Continues(bus[i]) =>
    /\ \A j \in 1..(i - 1) : Continues(bus[j])
    /\ Begun(bus[i].n)

MayContinue ==
  Sending /\ (~peer.waiting \/ \E i \in 1..Len(flowControls) : flowControls[i] = started)

ContinuesBegun ==
  MayContinue =>
    /\ Begun(started)
    /\ \A i \in 1..Len(bus) : Continues(bus[i]) /\ bus[i].n = started

Ordered == NewOnesBegin /\ NotYetRead /\ OldOnesContinue /\ ContinuesBegun

\* The payload whose first frame the peer sent is as long as the frame says.
LengthsAgree ==
  /\ \A i \in 1..Len(bus) :
       bus[i].pci = "first" /\ bus[i].n = started /\ Sending => peer.length = bus[i].length
  /\ Receiving /\ Sending /\ iso_tp_receive.n = started => peer.length = iso_tp_receive.length

\* Frames get lost, but none is sent twice.
Spaced ==
  \A j \in 1..Len(bus) : Continues(bus[j]) =>
    /\ \A i \in 1..(j - 1) : bus[j].position >= bus[i].position + (j - i)
    /\ Sending /\ bus[j].n = started => peer.position > bus[j].position + (Len(bus) - j)

(* At least one position later if a frame is missing.                      *)
Missing == IF iso_tp_receive.whole THEN 0 ELSE 1

Reaches ==
  Receiving =>
    /\ \A i \in 1..Len(bus) : Continues(bus[i]) =>
         /\ bus[i].position >= iso_tp_receive.got + i + Missing
         /\ bus[i].position <= iso_tp_receive.length
    /\ Sending /\ iso_tp_receive.n = started =>
         peer.position > iso_tp_receive.got + Len(bus) + Missing

Whole == LengthsAgree /\ Spaced /\ Reaches /\ payload.whole

OInv == CInv /\ (~misled => Ordered /\ Whole)

(* While nothing went wrong with the payload being sent, its frames are in *)
(* place, behind its first frame or behind what the host has of them.      *)
FirstUnderway ==
  \E i \in 1..Len(bus) :
    /\ bus[i].pci = "first" /\ bus[i].n = started /\ bus[i].length = peer.length
    /\ Len(bus) - i = peer.position - 1
    /\ \A j \in (i + 1)..Len(bus) : bus[j] = ConsecutiveFrame(started, j - i)

Taken ==
  /\ Receiving /\ iso_tp_receive.n = started /\ iso_tp_receive.length = peer.length
  /\ iso_tp_receive.next_sequence = (iso_tp_receive.got + 1) % SeqModulus
  /\ Len(bus) = peer.position - 1 - iso_tp_receive.got
  /\ \A j \in 1..Len(bus) : bus[j] = ConsecutiveFrame(started, iso_tp_receive.got + j)

Tracked ==
  ~upset /\ Sending /\ (host # "panicked" \/ peer.waiting) => FirstUnderway \/ Taken

(* Both count the same blocks: the peer waits between two of them, and the *)
(* host knows how far into one it is.                                      *)
PeerBlocks ==
  Sending =>
    /\ \E k \in Nat : peer.position - 1 = k * block_size + peer.inBlock
    /\ peer.waiting => peer.inBlock \in {0, block_size}

HostBlocks ==
  Receiving /\ block_size # 0 =>
    \E k \in Nat : iso_tp_receive.got = k * block_size + iso_tp_receive.frames_since_flow_control

WInv == CInv /\ Tracked /\ PeerBlocks /\ HostBlocks /\ NobodyWaits
-----------------------------------------------------------------------------
(* What the actions have in common.                                        *)

BusAfterTake ==
  /\ Len(bus) > 0 /\ Len(bus') = Len(bus) - 1
  /\ Head(bus) = bus[1] /\ \A i \in 1..(Len(bus) - 1) : bus'[i] = bus[i + 1]

LEMMA TakeFrame ==
  ASSUME Numbered, NEW pci, Take(pci)
  PROVE  /\ bus' \in Seq(FrameType) /\ BusAfterTake /\ bus[1].pci = pci
         /\ bus[1] \in FrameType /\ bus[1].n \in 1..started
         /\ UNCHANGED <<block_size, peer, started, lost, misled>>
<1>1. bus \in Seq(FrameType) /\ bus # <<>> /\ bus' = Tail(bus)
  BY DEF Take, Numbered, BusNumbered
<1>2. Len(bus) > 0 /\ bus' \in Seq(FrameType) /\ Len(bus') = Len(bus) - 1
      /\ Head(bus) = bus[1] /\ \A i \in 1..(Len(bus) - 1) : bus'[i] = bus[i + 1]
  BY <1>1, HeadTailProperties, EmptySeq
<1> QED
  BY <1>1, <1>2 DEF Take, peerVars, Numbered, BusNumbered, BusAfterTake

LEMMA SendFrame ==
  ASSUME Numbered, NEW frame \in FrameType, bus' = Append(bus, frame)
  PROVE  /\ bus' \in Seq(FrameType) /\ Len(bus') = Len(bus) + 1
         /\ bus'[Len(bus) + 1] = frame /\ \A i \in 1..Len(bus) : bus'[i] = bus[i]
BY AppendProperties DEF Numbered, BusNumbered

LEMMA DropFrame ==
  ASSUME Numbered, LoseFrame
  PROVE  /\ bus' \in Seq(FrameType) /\ Len(bus) > 0 /\ Len(bus') = Len(bus) - 1
         /\ \A i \in 1..(Len(bus) - 1) : bus'[i] = bus[i]
<1>1. bus \in Seq(FrameType) /\ bus # <<>> /\ bus' = SubSeq(bus, 1, Len(bus) - 1)
  BY DEF LoseFrame, Numbered, BusNumbered
<1>2. Len(bus) \in Nat /\ Len(bus) > 0
  BY <1>1, EmptySeq
<1>3. Len(bus) - 1 \in Int /\ \A i \in 1..(Len(bus) - 1) : bus[i] \in FrameType
  BY <1>1, <1>2
<1>4. /\ bus' \in Seq(FrameType) /\ Len(bus') = Len(bus) - 1
      /\ \A i \in 1..(Len(bus) - 1) : bus'[i] = bus[1 + i - 1]
  <2>1. \A s, m, n : m \in Int /\ n \in Int /\ (\A i \in m..n : s[i] \in FrameType) =>
          /\ SubSeq(s, m, n) \in Seq(FrameType)
          /\ Len(SubSeq(s, m, n)) = IF m <= n THEN n - m + 1 ELSE 0
          /\ \A i \in 1..(n - m + 1) : SubSeq(s, m, n)[i] = s[m + i - 1]
    BY SubSeqProperties
  <2>2. 1 \in Int /\ Len(bus) - 1 - 1 + 1 = Len(bus) - 1
    BY <1>2
  <2> DEFINE last == Len(bus) - 1
  <2>3. /\ SubSeq(bus, 1, last) \in Seq(FrameType)
        /\ Len(SubSeq(bus, 1, last)) = IF 1 <= last THEN last - 1 + 1 ELSE 0
        /\ \A i \in 1..(last - 1 + 1) : SubSeq(bus, 1, last)[i] = bus[1 + i - 1]
    BY <1>3, <2>1, <2>2
  <2> QED
    BY <1>1, <1>2, <2>2, <2>3
<1> QED
  BY <1>2, <1>4

LEMMA AnswerFlow ==
  ASSUME Numbered, NEW n \in 1..started, SendFlowControl(n)
  PROVE  /\ flowControls' \in Seq(Nat)
         /\ flowControls' = flowControls \/ flowControls' = Append(flowControls, n)
         /\ \A i \in 1..Len(flowControls') :
              \/ flowControls'[i] = n
              \/ i \in 1..Len(flowControls) /\ flowControls'[i] = flowControls[i]
         /\ ~upset' => flowControls' # <<>> /\ UNCHANGED <<host, upset>>
         /\ host' \in {host, "idle"} /\ upset' \in {upset, TRUE}
<1>1. flowControls \in Seq(Nat) /\ n \in Nat
  BY DEF Numbered, FlowsNumbered
<1>2. flowControls' = flowControls \/ flowControls' = Append(flowControls, n)
  BY DEF SendFlowControl
<1>3. /\ Append(flowControls, n) \in Seq(Nat) /\ Len(Append(flowControls, n)) = Len(flowControls) + 1
      /\ Append(flowControls, n)[Len(flowControls) + 1] = n
      /\ \A i \in 1..Len(flowControls) : Append(flowControls, n)[i] = flowControls[i]
      /\ Append(flowControls, n) # <<>>
  BY <1>1, AppendProperties
<1>4. /\ ~upset' => flowControls' # <<>> /\ UNCHANGED <<host, upset>>
      /\ host' \in {host, "idle"} /\ upset' \in {upset, TRUE}
  BY <1>3 DEF SendFlowControl
<1>5. CASE flowControls' = flowControls
  BY <1>1, <1>4, <1>5
<1>6. CASE flowControls' = Append(flowControls, n)
  <2>1. \A i \in 1..Len(flowControls') : i \in 1..Len(flowControls) \/ i = Len(flowControls) + 1
    BY <1>1, <1>3, <1>6
  <2> QED
    BY <1>3, <1>4, <1>6, <2>1
<1> QED
  BY <1>2, <1>5, <1>6

LEMMA ExtendedParts ==
  ASSUME CInv, Receiving
  PROVE  /\ Extended \in Transfer
         /\ Extended.length = iso_tp_receive.length /\ Extended.n = iso_tp_receive.n
         /\ Extended.got = iso_tp_receive.got + 1
         /\ Extended.whole <=> iso_tp_receive.whole /\ Head(bus).n = iso_tp_receive.n
                               /\ Head(bus).position = iso_tp_receive.got + 1
         /\ Extended.next_sequence = (iso_tp_receive.next_sequence + 1) % SeqModulus
         /\ Extended.frames_since_flow_control =
              (iso_tp_receive.frames_since_flow_control + 1) % CounterLimit
<1>1. iso_tp_receive \in Transfer /\ SeqModulus \in Nat \ {0} /\ CounterLimit \in Nat \ {0}
  BY ReceiveAssumption DEF CInv, Numbered, TransfersNumbered
<1>2. /\ (iso_tp_receive.next_sequence + 1) % SeqModulus \in Nat
      /\ (iso_tp_receive.frames_since_flow_control + 1) % CounterLimit \in Nat
  BY <1>1 DEF Transfer
<1> DEFINE fits == iso_tp_receive.whole /\ Head(bus).n = iso_tp_receive.n
                     /\ Head(bus).position = iso_tp_receive.got + 1
<1>3. Extended = [iso_tp_receive EXCEPT !.got = iso_tp_receive.got + 1,
                    !.whole = fits,
                    !.next_sequence = (iso_tp_receive.next_sequence + 1) % SeqModulus,
                    !.frames_since_flow_control =
                      (iso_tp_receive.frames_since_flow_control + 1) % CounterLimit]
  BY DEF Extended
<1>4. fits \in BOOLEAN
  OBVIOUS
<1> HIDE DEF fits
<1>6. Extended \in Transfer
  <2>1. iso_tp_receive.got + 1 \in Nat
    BY <1>1 DEF Transfer
  <2> QED
    BY <1>1, <1>2, <1>3, <1>4, <2>1 DEF Transfer
<1>5. /\ Extended.length = iso_tp_receive.length /\ Extended.n = iso_tp_receive.n
      /\ Extended.got = iso_tp_receive.got + 1 /\ Extended.whole = fits
      /\ Extended.next_sequence = (iso_tp_receive.next_sequence + 1) % SeqModulus
      /\ Extended.frames_since_flow_control =
           (iso_tp_receive.frames_since_flow_control + 1) % CounterLimit
  BY <1>1, <1>3 DEF Transfer
<1> QED
  BY <1>5, <1>6 DEF fits

LEMMA FirstFrameParts ==
  ASSUME NEW frame \in FrameType
  PROVE  /\ FirstFrame(frame) \in Transfer
         /\ FirstFrame(frame).length = frame.length /\ FirstFrame(frame).n = frame.n
         /\ FirstFrame(frame).got = 0 /\ FirstFrame(frame).whole
         /\ FirstFrame(frame).next_sequence = 1
         /\ FirstFrame(frame).frames_since_flow_control = 0
BY DEF FirstFrame, FrameType, Transfer

LEMMA SomeTransfer ==
  ASSUME NEW r, r.length # 0
  PROVE  r # None
BY DEF None

\* With blocks, the frames of one are counted within the counter's width.
LEMMA CountFits ==
  ASSUME CInv, Receiving, block_size # 0
  PROVE  /\ iso_tp_receive.frames_since_flow_control + 1 < CounterLimit
         /\ Extended.frames_since_flow_control = iso_tp_receive.frames_since_flow_control + 1
<1>1. /\ block_size \in 0..(CounterLimit - 1) /\ CounterLimit \in Nat \ {0}
      /\ iso_tp_receive.frames_since_flow_control \in Nat
      /\ iso_tp_receive.frames_since_flow_control < block_size
  BY ReceiveAssumption DEF CInv, TypeOK, Numbered, TransfersNumbered, BlockCounted, Transfer
<1>2. iso_tp_receive.frames_since_flow_control + 1 \in 0..(CounterLimit - 1)
  BY <1>1
<1>3. \A a \in 0..(CounterLimit - 1) : a % CounterLimit = a
  BY <1>1
<1> QED
  BY <1>1, <1>2, <1>3, ExtendedParts
-----------------------------------------------------------------------------
(* The counters and the numbers.                                           *)

LEMMA BusStaysNumbered ==
  ASSUME Numbered
  PROVE  /\ \A pci : Take(pci) => BusNumbered'
         /\ LoseFrame => BusNumbered'
         /\ \A frame \in FrameType :
              /\ bus' = Append(bus, frame) /\ started' \in {started, started + 1}
              /\ frame.n \in 1..started' /\ (frame.pci = "first" => frame.length \in Lengths \ {0})
              => BusNumbered'
<1>0. started \in Nat /\ bus \in Seq(FrameType) /\ Len(bus) \in Nat
  BY DEF Numbered, BusNumbered, TransfersNumbered
<1>1. ASSUME NEW pci, Take(pci) PROVE BusNumbered'
  BY <1>1, TakeFrame DEF Numbered, BusNumbered, BusAfterTake
<1>2. ASSUME LoseFrame PROVE BusNumbered'
  <2>1. started' = started
    BY <1>2 DEF LoseFrame, peerVars
  <2> QED
    BY <1>0, <1>2, <2>1, DropFrame DEF Numbered, BusNumbered
<1>3. ASSUME NEW frame \in FrameType, bus' = Append(bus, frame), started' \in {started, started + 1},
             frame.n \in 1..started', frame.pci = "first" => frame.length \in Lengths \ {0}
      PROVE  BusNumbered'
  <2>1. /\ bus' \in Seq(FrameType) /\ Len(bus') = Len(bus) + 1
        /\ bus'[Len(bus) + 1] = frame /\ \A i \in 1..Len(bus) : bus'[i] = bus[i]
    BY <1>3, SendFrame
  <2>2. \A i \in 1..Len(bus') : i = Len(bus) + 1 \/ i \in 1..Len(bus)
    BY <1>0, <2>1
  <2> QED
    BY <1>0, <1>3, <2>1, <2>2 DEF Numbered, BusNumbered
<1> QED
  BY <1>1, <1>2, <1>3

LEMMA FlowsStayNumbered ==
  ASSUME Numbered, started' = started, NEW n \in 1..started, SendFlowControl(n)
  PROVE  FlowsNumbered'
BY AnswerFlow DEF Numbered, FlowsNumbered

\* What TypeOK, the numbers and the count of a block need of a transfer.
Proceeding(r) ==
  /\ r \in Transfer /\ r.n \in 1..started /\ r.length \in Lengths \ {0}
  /\ r.got < r.length
  /\ r.next_sequence \in 0..(SeqModulus - 1)
  /\ r.frames_since_flow_control \in 0..(CounterLimit - 1)
  /\ block_size # 0 => r.frames_since_flow_control < block_size

LEMMA ProceedingParts ==
  ASSUME CInv, NEW r, Proceeding(r)
  PROVE  /\ r # None /\ r.n \in 1..MaxPayloads /\ r.length \in Lengths
BY SomeTransfer, ReceiveAssumption DEF Proceeding, CInv, TypeOK

(* A step of the host keeps the invariant if it leaves a transfer it may   *)
(* go on with, or none.                                                    *)
LEMMA HostKeeps ==
  ASSUME CInv, UNCHANGED <<block_size, peer, started, lost>>, misled' \in BOOLEAN, upset' \in BOOLEAN,
         BusNumbered', FlowsNumbered',
         iso_tp_receive' = None \/ Proceeding(iso_tp_receive'),
         payload' \in [n : Nat, whole : BOOLEAN], payload'.n \in 0..started,
         host' \in {"idle", "reading", "panicked"}, host' = "panicked" => block_size = 0
  PROVE  CInv'
<1>1. CASE iso_tp_receive' = None
  <2>1. ~Receiving'
    BY <1>1 DEF Receiving
  <2>2. TypeOK'
    <3>1. payload'.n \in 0..MaxPayloads
      BY ReceiveAssumption DEF CInv, TypeOK
    <3> QED
      BY <1>1, <3>1 DEF CInv, TypeOK
  <2>3. TransfersNumbered'
    BY <2>1 DEF CInv, Numbered, TransfersNumbered, Sending
  <2> QED
    BY <2>1, <2>2, <2>3 DEF CInv, Numbered, BlockCounted, PanicsOnlyUnbounded
<1>2. CASE Proceeding(iso_tp_receive')
  <2>1. /\ iso_tp_receive' # None /\ iso_tp_receive'.n \in 1..MaxPayloads
        /\ iso_tp_receive'.length \in Lengths
    BY <1>2, ProceedingParts
  <2>2. TypeOK'
    <3>1. payload'.n \in 0..MaxPayloads
      BY ReceiveAssumption DEF CInv, TypeOK
    <3> QED
      BY <1>2, <2>1, <3>1 DEF CInv, TypeOK, Proceeding
  <2>3. TransfersNumbered'
    BY <1>2 DEF CInv, Numbered, TransfersNumbered, Proceeding, Sending
  <2> QED
    BY <1>2, <2>2, <2>3 DEF CInv, Numbered, BlockCounted, PanicsOnlyUnbounded, Proceeding
<1> QED
  BY <1>1, <1>2

LEMMA StaysProceeding ==
  ASSUME CInv, Receiving
  PROVE  Proceeding(iso_tp_receive)
BY DEF CInv, TypeOK, Numbered, TransfersNumbered, BlockCounted, Receiving, Proceeding

\* The next frame of a payload: its last, one that ends a block, or another.
LEMMA NextFrame ==
  ASSUME CInv, Receiving
  PROVE  /\ Extended.got # Extended.length /\ ~BlockDone(Extended) => Proceeding(Extended)
         /\ Extended.got # Extended.length =>
              Proceeding([Extended EXCEPT !.frames_since_flow_control = 0])
<1>1. Proceeding(iso_tp_receive) /\ block_size \in 0..(CounterLimit - 1)
  BY StaysProceeding, ReceiveAssumption DEF CInv, TypeOK
<1>2. /\ SeqModulus \in Nat \ {0} /\ CounterLimit \in Nat \ {0} /\ Lengths \subseteq Nat
  BY ReceiveAssumption
<1>3. /\ Extended \in Transfer /\ Extended.length = iso_tp_receive.length
      /\ Extended.n = iso_tp_receive.n /\ Extended.got = iso_tp_receive.got + 1
      /\ Extended.next_sequence \in 0..(SeqModulus - 1)
      /\ Extended.frames_since_flow_control \in 0..(CounterLimit - 1)
  <2>1. iso_tp_receive.next_sequence + 1 \in Nat /\ iso_tp_receive.frames_since_flow_control + 1 \in Nat
    BY <1>1 DEF Proceeding, Transfer
  <2>2. \A a \in Nat, m \in Nat \ {0} : a % m \in 0..(m - 1)
    OBVIOUS
  <2> QED
    BY <1>2, <2>1, <2>2, ExtendedParts
<1>4. ASSUME Extended.got # Extended.length
      PROVE  Extended.got < Extended.length
  BY <1>1, <1>2, <1>3, <1>4 DEF Proceeding, Transfer
<1>5. ASSUME Extended.got # Extended.length, ~BlockDone(Extended)
      PROVE  Proceeding(Extended)
  <2>1. block_size # 0 => Extended.frames_since_flow_control < block_size
    BY <1>1, <1>2, <1>3, <1>5 DEF BlockDone
  <2> QED
    BY <1>1, <1>3, <1>4, <1>5, <2>1 DEF Proceeding
<1>6. ASSUME Extended.got # Extended.length
      PROVE  Proceeding([Extended EXCEPT !.frames_since_flow_control = 0])
  <2> DEFINE reset == [Extended EXCEPT !.frames_since_flow_control = 0]
  <2>1. /\ reset \in Transfer /\ reset.length = Extended.length /\ reset.n = Extended.n
        /\ reset.got = Extended.got /\ reset.next_sequence = Extended.next_sequence
        /\ reset.frames_since_flow_control = 0
    BY <1>3 DEF Transfer
  <2> HIDE DEF reset
  <2>2. block_size # 0 => 0 < block_size
    BY <1>1, <1>2
  <2>3. 0 \in 0..(CounterLimit - 1)
    BY <1>2
  <2> QED
    BY <1>1, <1>3, <1>4, <1>6, <2>1, <2>2, <2>3 DEF Proceeding, reset
<1> QED
  BY <1>5, <1>6

LEMMA ReceiveStep ==
  ASSUME CInv, Receive
  PROVE  CInv'
<1>0. /\ Numbered /\ misled' \in BOOLEAN /\ BusNumbered'
      /\ UNCHANGED <<block_size, peer, started, lost>>
      /\ bus[1] \in FrameType /\ Head(bus) = bus[1] /\ bus[1].n \in 1..started
      /\ host = "reading"
      /\ bus[1].pci = "first" => bus[1].length \in Lengths \ {0}
      /\ payload \in [n : Nat, whole : BOOLEAN] /\ payload.n \in 0..started
  <2>1. PICK pci : Take(pci)
    BY DEF Receive, TakeSingleFrame, TakeFirstFrame, TakeUnexpectedFrame, TakePanics, TakeLastFrame,
           TakeConsecutiveFrame
  <2>2. Len(bus) > 0 /\ Len(bus) \in Nat
    BY <2>1, TakeFrame DEF CInv, BusAfterTake, Numbered, BusNumbered
  <2> QED
    BY <2>1, <2>2, TakeFrame, BusStaysNumbered
    DEF CInv, TypeOK, Take, BusAfterTake, Numbered, BusNumbered, TransfersNumbered
<1>1. CASE TakeSingleFrame
  <2>1. /\ payload' = [n |-> bus[1].n, whole |-> TRUE] /\ host' = "idle"
        /\ UNCHANGED <<iso_tp_receive, flowControls, upset>>
    BY <1>0, <1>1 DEF TakeSingleFrame, Return
  <2>2. payload' \in [n : Nat, whole : BOOLEAN] /\ payload'.n \in 0..started
    BY <1>0, <2>1
  <2>3. FlowsNumbered' /\ upset' \in BOOLEAN
    BY <1>0, <2>1 DEF CInv, TypeOK, Numbered, FlowsNumbered
  <2>4. iso_tp_receive' = None \/ Proceeding(iso_tp_receive')
    BY <2>1, StaysProceeding DEF Receiving
  <2> QED
    BY <1>0, <2>1, <2>2, <2>3, <2>4, HostKeeps
<1>2. CASE TakeFirstFrame
  <2>1. /\ bus[1].pci = "first" /\ iso_tp_receive' = FirstFrame(bus[1]) /\ payload' = payload
        /\ SendFlowControl(bus[1].n)
    BY <1>0, <1>2, TakeFrame DEF TakeFirstFrame
  <2>2. Proceeding(FirstFrame(bus[1]))
    <3>4. bus[1].length \in Lengths \ {0} /\ Lengths \subseteq Nat
      BY <1>0, <2>1, ReceiveAssumption
    <3>5. bus[1].length \in Nat \ {0}
      BY <3>4
    <3>1. bus[1].length \in Lengths \ {0} /\ bus[1].length > 0
      BY <3>4, <3>5
    <3>3. 1 \in 0..(SeqModulus - 1) /\ 0 \in 0..(CounterLimit - 1)
      BY ReceiveAssumption
    <3>2. block_size # 0 => 0 < block_size
      BY ReceiveAssumption DEF CInv, TypeOK
    <3> QED
      BY <1>0, <3>1, <3>2, <3>3, FirstFrameParts DEF Proceeding
  <2>3. FlowsNumbered' /\ upset' \in BOOLEAN /\ host' \in {"idle", "reading"}
    BY <1>0, <2>1, FlowsStayNumbered, AnswerFlow DEF CInv, TypeOK
  <2> QED
    BY <1>0, <2>1, <2>2, <2>3, HostKeeps
<1>3. CASE TakeUnexpectedFrame
  <2>1. /\ iso_tp_receive' = None /\ host' \in {host, "idle"}
        /\ UNCHANGED <<payload, flowControls, upset>>
    BY <1>3 DEF TakeUnexpectedFrame
  <2>2. FlowsNumbered' /\ upset' \in BOOLEAN
    BY <1>0, <2>1 DEF CInv, TypeOK, Numbered, FlowsNumbered
  <2> QED
    BY <1>0, <2>1, <2>2, HostKeeps
<1>4. CASE TakePanics
  <2>1. /\ host' = "panicked" /\ Receiving
        /\ iso_tp_receive.frames_since_flow_control + 1 = CounterLimit
        /\ UNCHANGED <<iso_tp_receive, payload, flowControls, upset>>
    BY <1>4 DEF TakePanics, InSequence, Receiving
  <2>2. block_size = 0
    BY <2>1, CountFits, ReceiveAssumption
  <2>3. FlowsNumbered' /\ upset' \in BOOLEAN
    BY <1>0, <2>1 DEF CInv, TypeOK, Numbered, FlowsNumbered
  <2>4. Proceeding(iso_tp_receive')
    BY <2>1, StaysProceeding
  <2> QED
    BY <1>0, <2>1, <2>2, <2>3, <2>4, HostKeeps
<1>5. CASE TakeLastFrame
  <2>1. /\ payload' = [n |-> Extended.n, whole |-> Extended.whole] /\ host' = "idle"
        /\ iso_tp_receive' = None /\ Receiving /\ UNCHANGED <<flowControls, upset>>
    BY <1>5 DEF TakeLastFrame, Return, InSequence, Receiving
  <2>2. Extended.n \in 1..started /\ Extended.whole \in BOOLEAN
    BY <2>1, ExtendedParts, StaysProceeding DEF Proceeding, Transfer
  <2>3. payload' \in [n : Nat, whole : BOOLEAN] /\ payload'.n \in 0..started
    BY <1>0, <2>1, <2>2
  <2>4. FlowsNumbered' /\ upset' \in BOOLEAN
    BY <1>0, <2>1 DEF CInv, TypeOK, Numbered, FlowsNumbered
  <2> QED
    BY <1>0, <2>1, <2>3, <2>4, HostKeeps
<1>6. CASE TakeConsecutiveFrame
  <2>1. Receiving /\ Extended.got # Extended.length /\ payload' = payload
    BY <1>6 DEF TakeConsecutiveFrame, InSequence, Receiving
  <2>2. Extended.n \in 1..started
    BY <2>1, ExtendedParts, StaysProceeding DEF Proceeding
  <2>3. CASE BlockDone(Extended)
    <3>1. /\ iso_tp_receive' = [Extended EXCEPT !.frames_since_flow_control = 0]
          /\ SendFlowControl(Extended.n)
      BY <1>6, <2>3 DEF TakeConsecutiveFrame
    <3>2. FlowsNumbered' /\ upset' \in BOOLEAN /\ host' \in {"idle", "reading"}
      BY <1>0, <2>2, <3>1, FlowsStayNumbered, AnswerFlow DEF CInv, TypeOK
    <3> QED
      BY <1>0, <2>1, <3>1, <3>2, NextFrame, HostKeeps
  <2>4. CASE ~BlockDone(Extended)
    <3>1. iso_tp_receive' = Extended /\ UNCHANGED <<host, flowControls, upset>>
      BY <1>6, <2>4 DEF TakeConsecutiveFrame
    <3>2. FlowsNumbered' /\ upset' \in BOOLEAN
      BY <1>0, <3>1 DEF CInv, TypeOK, Numbered, FlowsNumbered
    <3> QED
      BY <1>0, <2>1, <2>4, <3>1, <3>2, NextFrame, HostKeeps
  <2> QED
    BY <2>3, <2>4
<1> QED
  BY <1>1, <1>2, <1>3, <1>4, <1>5, <1>6 DEF Receive

LEMMA FrameTypes ==
  ASSUME NEW n \in Nat, NEW length \in Nat, NEW position \in Nat
  PROVE  /\ \A pci \in {"single", "first"} : Frame(pci, n, length) \in FrameType
         /\ ConsecutiveFrame(n, position) \in FrameType
<1>1. position % SeqModulus \in Nat
  BY ReceiveAssumption
<1> QED
  BY <1>1 DEF Frame, ConsecutiveFrame, FrameType

(* The peer and the bus keep it too.                                       *)
LEMMA PeerKeeps ==
  ASSUME CInv, UNCHANGED hostVars, misled' \in BOOLEAN, upset' \in BOOLEAN,
         BusNumbered', FlowsNumbered', started' \in {started, started + 1},
         started' \in 0..MaxPayloads, lost' \in 0..MaxLost,
         peer' # None => /\ peer' \in PeerTransfer /\ peer'.position \in 1..peer'.length
                         /\ started' > 0
  PROVE  CInv'
<1>1. UNCHANGED <<block_size, host, iso_tp_receive, payload>> /\ started \in Nat
  BY DEF hostVars, CInv, Numbered, TransfersNumbered
<1>2. TypeOK'
  BY <1>1 DEF CInv, TypeOK
<1>3. TransfersNumbered'
  BY <1>1 DEF CInv, Numbered, TransfersNumbered, Sending, Receiving
<1> QED
  BY <1>1, <1>2, <1>3 DEF CInv, Numbered, BlockCounted, PanicsOnlyUnbounded, Receiving

LEMMA PeerStep ==
  ASSUME CInv, Peer \/ LoseFrame
  PROVE  CInv'
<1>0. /\ Numbered /\ started \in Nat /\ misled \in BOOLEAN /\ upset \in BOOLEAN
      /\ lost \in 0..MaxLost /\ started \in 0..MaxPayloads
      /\ Sending => /\ peer \in PeerTransfer /\ peer.position \in 1..peer.length /\ started > 0
  BY DEF CInv, TypeOK, Numbered, TransfersNumbered, Sending
<1>1. CASE PeerSendsSingle
  <2>0. /\ Frame("single", started + 1, 0).n = started + 1
        /\ Frame("single", started + 1, 0).pci = "single"
    BY DEF Frame
  <2>1. Frame("single", started + 1, 0) \in FrameType
    BY <1>0, FrameTypes
  <2>2. started' = started + 1 /\ bus' = Append(bus, Frame("single", started + 1, 0))
    BY <1>1 DEF PeerSendsSingle
  <2>3. BusNumbered' /\ started' \in 0..MaxPayloads
    BY <1>0, <1>1, <2>0, <2>1, <2>2, BusStaysNumbered, ReceiveAssumption DEF PeerSendsSingle
  <2>4. FlowsNumbered'
    BY <1>0, <1>1, <2>2 DEF PeerSendsSingle, Numbered, FlowsNumbered
  <2> QED
    BY <1>0, <1>1, <2>2, <2>3, <2>4, PeerKeeps DEF PeerSendsSingle, Sending
<1>2. CASE PeerSendsFirst
  <2>1. PICK length \in Lengths \ {0} :
          /\ peer' = [length |-> length, position |-> 1, inBlock |-> 0, waiting |-> TRUE]
          /\ bus' = Append(bus, Frame("first", started', length))
    BY <1>2 DEF PeerSendsFirst
  <2>2. started' = started + 1 /\ length \in Nat /\ length > 0
    BY <1>2, <2>1, ReceiveAssumption DEF PeerSendsFirst
  <2>0. /\ Frame("first", started + 1, length).n = started + 1
        /\ Frame("first", started + 1, length).length = length
    BY DEF Frame
  <2>3. Frame("first", started + 1, length) \in FrameType
    BY <1>0, <2>2, FrameTypes
  <2>4. BusNumbered' /\ started' \in 0..MaxPayloads
    BY <1>0, <1>2, <2>0, <2>1, <2>2, <2>3, BusStaysNumbered, ReceiveAssumption DEF PeerSendsFirst
  <2>5. FlowsNumbered'
    BY <1>0, <1>2, <2>2 DEF PeerSendsFirst, Numbered, FlowsNumbered
  <2>6. peer' \in PeerTransfer /\ peer'.position \in 1..peer'.length
    BY <2>1, <2>2 DEF PeerTransfer
  <2> QED
    <3>1. UNCHANGED <<hostVars, lost, misled>> /\ upset' = FALSE /\ started' > 0
      BY <1>0, <1>2, <2>2 DEF PeerSendsFirst
    <3> QED
      BY <1>0, <2>2, <2>4, <2>5, <2>6, <3>1, PeerKeeps
<1>3. CASE PeerSendsConsecutive
  <2>1. /\ Sending /\ started' = started
        /\ bus' = Append(bus, ConsecutiveFrame(started, peer.position))
    BY <1>3 DEF PeerSendsConsecutive, Sending
  <2>2. /\ ConsecutiveFrame(started, peer.position) \in FrameType
        /\ ConsecutiveFrame(started, peer.position).n = started
        /\ ConsecutiveFrame(started, peer.position).pci = "consecutive"
    BY <1>0, <2>1, FrameTypes DEF ConsecutiveFrame, PeerTransfer
  <2>3. BusNumbered'
    BY <1>0, <2>1, <2>2, BusStaysNumbered
  <2>4. FlowsNumbered'
    BY <1>0, <1>3, <2>1 DEF PeerSendsConsecutive, Numbered, FlowsNumbered
  <2>5. peer' # None => peer' \in PeerTransfer /\ peer'.position \in 1..peer'.length
    <3> SUFFICES ASSUME peer' # None PROVE peer' \in PeerTransfer /\ peer'.position \in 1..peer'.length
      OBVIOUS
    <3>1. /\ peer.position # peer.length
          /\ peer' = [peer EXCEPT !.position = @ + 1, !.inBlock = @ + 1,
                                  !.waiting = peer.inBlock + 1 = block_size]
      BY <1>3 DEF PeerSendsConsecutive
    <3> DEFINE waits == peer.inBlock + 1 = block_size
    <3>2. waits \in BOOLEAN
      OBVIOUS
    <3>3. peer' = [peer EXCEPT !.position = peer.position + 1, !.inBlock = peer.inBlock + 1,
                               !.waiting = waits]
      BY <3>1
    <3> HIDE DEF waits
    <3>4. /\ peer.position + 1 \in Nat /\ peer.inBlock + 1 \in Nat
          /\ peer \in PeerTransfer
      BY <1>0, <2>1 DEF PeerTransfer
    <3>5. peer' \in PeerTransfer
      BY <3>2, <3>3, <3>4 DEF PeerTransfer
    <3>6. peer'.position = peer.position + 1 /\ peer'.length = peer.length
      BY <3>3, <3>4 DEF PeerTransfer
    <3>7. peer.position \in Nat /\ peer.length \in Nat /\ peer.position \in 1..peer.length
      BY <1>0, <2>1 DEF PeerTransfer
    <3> QED
      BY <3>1, <3>5, <3>6, <3>7
  <2> QED
    BY <1>0, <1>3, <2>1, <2>3, <2>4, <2>5, PeerKeeps DEF PeerSendsConsecutive
<1>4. CASE PeerTakesFlowControl
  <2>1. started' = started /\ bus' = bus /\ flowControls # <<>> /\ flowControls' = Tail(flowControls)
    BY <1>4 DEF PeerTakesFlowControl
  <2>2. BusNumbered'
    BY <1>0, <2>1 DEF Numbered, BusNumbered
  <2>3. FlowsNumbered'
    <3>1. /\ flowControls' \in Seq(Nat) /\ Len(flowControls') = Len(flowControls) - 1
          /\ \A i \in 1..(Len(flowControls) - 1) : flowControls'[i] = flowControls[i + 1]
      BY <1>0, <2>1, HeadTailProperties DEF Numbered, FlowsNumbered
    <3>2. \A i \in 1..(Len(flowControls) - 1) : i + 1 \in 1..Len(flowControls)
      BY <1>0 DEF Numbered, FlowsNumbered
    <3> QED
      BY <1>0, <2>1, <3>1, <3>2 DEF Numbered, FlowsNumbered
  <2>4. CASE Sending /\ peer.waiting
    <3>1. peer' = [peer EXCEPT !.waiting = FALSE, !.inBlock = 0]
          /\ misled' = (misled \/ Head(flowControls) # started)
      BY <1>4, <2>4 DEF PeerTakesFlowControl, Sending
    <3>2. peer' \in PeerTransfer /\ peer'.position = peer.position /\ peer'.length = peer.length
      BY <1>0, <2>4, <3>1 DEF PeerTransfer
    <3> QED
      BY <1>0, <1>4, <2>1, <2>2, <2>3, <2>4, <3>1, <3>2, PeerKeeps DEF PeerTakesFlowControl
  <2>5. CASE ~(Sending /\ peer.waiting)
    <3>1. UNCHANGED <<peer, misled>>
      BY <1>4, <2>5 DEF PeerTakesFlowControl, Sending
    <3> QED
      BY <1>0, <1>4, <2>1, <2>2, <2>3, <3>1, PeerKeeps DEF PeerTakesFlowControl, Sending
  <2> QED
    BY <2>4, <2>5
<1>5. CASE PeerGivesUp
  <2>1. BusNumbered' /\ FlowsNumbered'
    BY <1>0, <1>5 DEF PeerGivesUp, Numbered, BusNumbered, FlowsNumbered
  <2> QED
    BY <1>0, <1>5, <2>1, PeerKeeps DEF PeerGivesUp
<1>6. CASE LoseFrame
  <2>1. UNCHANGED <<peer, started, flowControls, misled, hostVars>> /\ upset' \in BOOLEAN
    BY <1>6 DEF LoseFrame, peerVars
  <2>2. BusNumbered' /\ FlowsNumbered'
    BY <1>0, <1>6, <2>1, BusStaysNumbered DEF Numbered, FlowsNumbered
  <2>3. lost' \in 0..MaxLost
    BY <1>0, <1>6, ReceiveAssumption DEF LoseFrame
  <2> QED
    BY <1>0, <2>1, <2>2, <2>3, PeerKeeps DEF Sending
<1> QED
  BY <1>1, <1>2, <1>3, <1>4, <1>5, <1>6 DEF Peer

LEMMA InitCInv == Init => CInv
<1> SUFFICES ASSUME Init PROVE CInv
  OBVIOUS
<1>1. ~Receiving /\ ~Sending
  BY DEF Init, Receiving, Sending
<1>2. TypeOK
  <2>1. payload.n \in 0..MaxPayloads /\ payload.whole \in BOOLEAN
    BY ReceiveAssumption DEF Init
  <2>2. started \in 0..MaxPayloads /\ lost \in 0..MaxLost
    BY ReceiveAssumption DEF Init
  <2> QED
    BY <1>1, <2>1, <2>2 DEF Init, TypeOK
<1>3. BusNumbered /\ FlowsNumbered /\ TransfersNumbered
  BY <1>1 DEF Init, BusNumbered, FlowsNumbered, TransfersNumbered
<1> QED
  BY <1>1, <1>2, <1>3 DEF Init, CInv, Numbered, BlockCounted, PanicsOnlyUnbounded

LEMMA CInvStep == CInv /\ [Next]_vars => CInv'
<1> SUFFICES ASSUME CInv, [Next]_vars PROVE CInv'
  OBVIOUS
<1>0. Numbered /\ payload \in [n : Nat, whole : BOOLEAN] /\ payload.n \in 0..started
      /\ misled \in BOOLEAN /\ upset \in BOOLEAN
  BY DEF CInv, TypeOK, Numbered, TransfersNumbered
<1>1. CASE UNCHANGED vars
  BY <1>1 DEF vars, hostVars, peerVars, CInv, TypeOK, Numbered, BusNumbered, FlowsNumbered,
              TransfersNumbered, BlockCounted, PanicsOnlyUnbounded, Receiving, Sending
<1>2. CASE BeginRequest
  <2>1. BusNumbered' /\ FlowsNumbered'
    BY <1>0, <1>2 DEF BeginRequest, peerVars, Numbered, BusNumbered, FlowsNumbered
  <2> QED
    BY <1>0, <1>2, <2>1, HostKeeps DEF BeginRequest, peerVars
<1>3. CASE BeginRead \/ ReadTimeout
  <2>1. BusNumbered' /\ FlowsNumbered'
    BY <1>0, <1>3 DEF BeginRead, ReadTimeout, peerVars, Numbered, BusNumbered, FlowsNumbered
  <2>2. iso_tp_receive' = None \/ Proceeding(iso_tp_receive')
    BY <1>3, StaysProceeding DEF BeginRead, ReadTimeout, Receiving
  <2> QED
    BY <1>0, <1>3, <2>1, <2>2, HostKeeps DEF BeginRead, ReadTimeout, peerVars
<1> QED
  BY <1>1, <1>2, <1>3, ReceiveStep, PeerStep DEF Next, Host

(* The counters stay in their widths and each transfer in its bounds; the  *)
(* u8 that counts a block never overflows if there are blocks.             *)
THEOREM CountersAlwaysFit == Spec => []CountersFit
<1>1. CInv => CountersFit
  BY DEF CInv, CountersFit
<1> QED
  BY <1>1, InitCInv, CInvStep, PTL DEF Spec
-----------------------------------------------------------------------------
(* The order of what is under way.                                         *)

LEMMA RestOfBus ==
  ASSUME CInv, NEW pci, Take(pci)
  PROVE  /\ Len(bus) \in Nat /\ Len(bus') = Len(bus) - 1 /\ 1 \in 1..Len(bus)
         /\ bus[1] = Head(bus) /\ bus[1].pci = pci /\ bus[1] \in FrameType
         /\ \A i \in 1..Len(bus) : /\ bus[i] \in FrameType /\ bus[i].n \in Nat
                                   /\ bus[i].n <= started
         /\ \A i \in 1..Len(bus') : /\ i + 1 \in 1..Len(bus) /\ bus'[i] = bus[i + 1]
                                    /\ bus'[i].n \in Nat /\ bus'[i].n <= started
                                    /\ 1 \in 1..((i + 1) - 1)
                                    /\ \A j \in 1..(i - 1) : /\ j + 1 \in 1..((i + 1) - 1)
                                                             /\ j \in 1..Len(bus')
         /\ started \in Nat /\ UNCHANGED <<block_size, peer, started, lost, misled>>
<1>1. Numbered /\ bus \in Seq(FrameType) /\ started \in Nat
  BY DEF CInv, Numbered, BusNumbered, TransfersNumbered
<1>2. Len(bus) \in Nat /\ Len(bus) > 0 /\ Len(bus') = Len(bus) - 1
      /\ \A i \in 1..(Len(bus) - 1) : bus'[i] = bus[i + 1]
  BY <1>1, TakeFrame DEF BusAfterTake
<1>3. bus[1] = Head(bus) /\ bus[1].pci = pci /\ UNCHANGED <<block_size, peer, started, lost, misled>>
  BY <1>1, TakeFrame DEF BusAfterTake
<1>4. \A i \in 1..Len(bus) : bus[i] \in FrameType /\ bus[i].n \in Nat /\ bus[i].n <= started
  BY <1>1 DEF Numbered, BusNumbered
<1>5. \A i \in 1..Len(bus') : i + 1 \in 1..Len(bus) /\ bus'[i] = bus[i + 1]
  BY <1>2
<1>6. \A i \in 1..Len(bus') : /\ 1 \in 1..((i + 1) - 1)
                               /\ \A j \in 1..(i - 1) : j + 1 \in 1..((i + 1) - 1) /\ j \in 1..Len(bus')
  BY <1>2
<1>7. 1 \in 1..Len(bus)
  BY <1>2
<1> QED
  BY <1>1, <1>2, <1>3, <1>4, <1>5, <1>6, <1>7

\* Behind a frame that begins a payload nothing continues one.
LEMMA OrderBehindBeginning ==
  ASSUME CInv, Ordered, NEW pci \in {"single", "first"}, Take(pci)
  PROVE  /\ Begins(bus[1]) /\ payload.n < bus[1].n /\ (Receiving => iso_tp_receive.n < bus[1].n)
         /\ \A i \in 1..Len(bus') : Begins(bus'[i]) /\ bus[1].n < bus'[i].n
         /\ ~MayContinue
<1>0. Begins(bus[1])
  BY RestOfBus DEF Begins
<1>1. payload.n < bus[1].n /\ (Receiving => iso_tp_receive.n < bus[1].n)
  BY <1>0, RestOfBus DEF Ordered, NewOnesBegin
<1>2. \A i \in 1..Len(bus') : Begins(bus'[i])
  BY <1>0, RestOfBus DEF Ordered, OldOnesContinue, Continues, Begins
<1>3. \A i \in 1..Len(bus') : bus[1].n < bus'[i].n
  BY <1>2, RestOfBus DEF Ordered, NewOnesBegin
<1>4. ~MayContinue
  BY <1>0, RestOfBus DEF Ordered, ContinuesBegun, Continues, Begins
<1> QED
  BY <1>0, <1>1, <1>2, <1>3, <1>4

LEMMA SingleKeepsOrder ==
  ASSUME CInv, Ordered, TakeSingleFrame
  PROVE  Ordered'
<1>1. /\ Take("single") /\ payload'.n = bus[1].n /\ UNCHANGED <<iso_tp_receive, flowControls>>
  BY RestOfBus DEF TakeSingleFrame, Return
<1>2. /\ UNCHANGED <<started, peer>>
      /\ \A i \in 1..Len(bus') : /\ bus'[i] = bus[i + 1] /\ i + 1 \in 1..Len(bus)
                                 /\ \A j \in 1..(i - 1) : j + 1 \in 1..((i + 1) - 1) /\ j \in 1..Len(bus')
  BY <1>1, RestOfBus
<1>3. \A i \in 1..Len(bus') : Begins(bus'[i]) /\ Begins(bus[i + 1]) /\ bus[1].n < bus'[i].n
  BY <1>1, <1>2, OrderBehindBeginning
<1>4. Receiving' = Receiving /\ MayContinue' = MayContinue
  BY <1>1, <1>2 DEF Receiving, MayContinue, Sending
<1>5. NewOnesBegin'
  <2>1. ASSUME NEW i \in 1..Len(bus')
        PROVE  /\ payload'.n < bus'[i].n /\ (Receiving => iso_tp_receive.n < bus'[i].n)
               /\ \A j \in 1..(i - 1) : bus'[j].n < bus'[i].n
    BY <1>1, <1>2, <1>3 DEF Ordered, NewOnesBegin
  <2> QED
    BY <1>1, <1>4, <2>1 DEF NewOnesBegin
<1>6. NotYetRead'
  <2>1. Receiving => iso_tp_receive.n < bus[1].n /\ iso_tp_receive.n \in Nat /\ bus[1].n \in Nat
    BY <1>1, OrderBehindBeginning, RestOfBus DEF CInv, Numbered, TransfersNumbered, Transfer
  <2> QED
    BY <1>1, <1>4, <2>1 DEF NotYetRead
<1>7. OldOnesContinue'
  BY <1>3 DEF OldOnesContinue, Continues, Begins
<1>8. ContinuesBegun'
  BY <1>1, <1>4, OrderBehindBeginning DEF ContinuesBegun
<1> QED
  BY <1>5, <1>6, <1>7, <1>8 DEF Ordered

LEMMA FirstKeepsOrder ==
  ASSUME CInv, Ordered, TakeFirstFrame
  PROVE  /\ Ordered' /\ Receiving' /\ \A i \in 1..Len(bus') : Begins(bus'[i])
         /\ bus[1].n = started => bus' = <<>>
<1>0. /\ Take("first") /\ iso_tp_receive' = FirstFrame(bus[1]) /\ SendFlowControl(bus[1].n)
      /\ payload' = payload /\ bus[1] \in FrameType /\ bus[1].n \in 1..started
      /\ bus[1].length \in Lengths \ {0} /\ bus' \in Seq(FrameType)
  BY TakeFrame, RestOfBus DEF TakeFirstFrame, CInv, Numbered, BusNumbered
<1>1. iso_tp_receive'.n = bus[1].n /\ Receiving'
  BY <1>0, FirstFrameParts, SomeTransfer DEF Receiving
<1>2. /\ UNCHANGED <<started, peer>> /\ started \in Nat
      /\ \A i \in 1..Len(bus') : /\ bus'[i] = bus[i + 1] /\ i + 1 \in 1..Len(bus)
                                 /\ bus'[i].n \in Nat /\ bus'[i].n <= started
                                 /\ \A j \in 1..(i - 1) : j + 1 \in 1..((i + 1) - 1) /\ j \in 1..Len(bus')
  BY <1>0, RestOfBus
<1>3. \A i \in 1..Len(bus') : Begins(bus'[i]) /\ Begins(bus[i + 1]) /\ bus[1].n < bus'[i].n
  BY <1>0, <1>2, OrderBehindBeginning
<1>4. payload.n < bus[1].n /\ payload.n \in Nat /\ bus[1].n \in Nat /\ ~MayContinue
  BY <1>0, OrderBehindBeginning DEF CInv, Numbered, TransfersNumbered
<1>5. bus[1].n = started => bus' = <<>>
  <2>1. bus[1].n = started => Len(bus') = 0
    <3>1. bus[1].n = started => ~(1 \in 1..Len(bus'))
      BY <1>2, <1>3, <1>4
    <3> QED
      BY <1>0, <3>1
  <2> QED
    BY <1>0, <2>1, EmptySeq
<1>6. NewOnesBegin'
  <2>1. ASSUME NEW i \in 1..Len(bus')
        PROVE  /\ payload.n < bus'[i].n /\ bus[1].n < bus'[i].n
               /\ \A j \in 1..(i - 1) : bus'[j].n < bus'[i].n
    BY <1>2, <1>3, <1>4 DEF Ordered, NewOnesBegin
  <2> QED
    BY <1>0, <1>1, <2>1 DEF NewOnesBegin
<1>7. NotYetRead'
  BY <1>0, <1>1, <1>4 DEF NotYetRead
<1>8. OldOnesContinue'
  BY <1>3 DEF OldOnesContinue, Continues, Begins
<1>9. ContinuesBegun'
  <2> SUFFICES ASSUME MayContinue' PROVE ContinuesBegun'
    BY DEF ContinuesBegun
  <2>1. bus[1].n = started
    BY <1>0, <1>2, <1>4, AnswerFlow DEF CInv, MayContinue, Sending
  <2>2. Begun(started)'
    BY <1>0, <1>1, <1>2, <1>4, <2>1 DEF Begun
  <2>3. \A i \in 1..Len(bus') : FALSE
    BY <1>5, <2>1
  <2> QED
    BY <1>2, <2>2, <2>3 DEF ContinuesBegun
<1> QED
  BY <1>1, <1>3, <1>5, <1>6, <1>7, <1>8, <1>9 DEF Ordered

\* A frame that continues a payload: the host goes on with that payload, is
\* done with it, or gives it up.
LEMMA ContinuationKeepsOrder ==
  ASSUME CInv, Ordered, Take("consecutive"),
         \/ payload'.n = payload.n /\ iso_tp_receive' = None
         \/ payload'.n = payload.n /\ Receiving /\ Receiving' /\ iso_tp_receive'.n = iso_tp_receive.n
         \/ Receiving /\ payload'.n = iso_tp_receive.n /\ iso_tp_receive' = None,
         MayContinue' => MayContinue \/ (Receiving /\ Receiving' /\ iso_tp_receive.n = started)
  PROVE  Ordered'
<1>1. /\ UNCHANGED <<started, peer>> /\ started \in Nat /\ 1 \in 1..Len(bus)
      /\ bus[1].n \in Nat /\ bus[1].n <= started
      /\ \A i \in 1..Len(bus') : /\ bus'[i] = bus[i + 1] /\ i + 1 \in 1..Len(bus)
                                 /\ bus'[i].n \in Nat /\ bus'[i].n <= started
                                 /\ 1 \in 1..((i + 1) - 1)
                                 /\ \A j \in 1..(i - 1) : j + 1 \in 1..((i + 1) - 1) /\ j \in 1..Len(bus')
  BY RestOfBus
<1>2. Continues(bus[1]) /\ payload.n <= bus[1].n /\ (Receiving => iso_tp_receive.n = bus[1].n)
  <2>1. Continues(bus[1])
    BY RestOfBus DEF Continues
  <2> QED
    BY <1>1, <2>1 DEF Ordered, OldOnesContinue, Begun
<1>3. /\ payload.n \in Nat /\ payload'.n \in Nat
      /\ Receiving => iso_tp_receive.n \in Nat
  BY DEF CInv, Numbered, TransfersNumbered, Transfer
<1>4. /\ payload'.n = payload.n \/ (Receiving /\ payload'.n = iso_tp_receive.n)
      /\ Receiving' => Receiving /\ iso_tp_receive'.n = iso_tp_receive.n /\ payload'.n = payload.n
  BY DEF Receiving
<1>5. ASSUME NEW i \in 1..Len(bus'), Begins(bus'[i])
      PROVE  /\ payload'.n < bus'[i].n /\ (Receiving => iso_tp_receive.n < bus'[i].n)
             /\ \A j \in 1..(i - 1) : bus'[j].n < bus'[i].n
  BY <1>1, <1>4, <1>5 DEF Ordered, NewOnesBegin
<1>6. NewOnesBegin'
  BY <1>4, <1>5 DEF NewOnesBegin
<1>7. NotYetRead'
  BY <1>4 DEF Ordered, NotYetRead
<1>8. OldOnesContinue'
  <2>1. ASSUME NEW i \in 1..Len(bus'), Continues(bus'[i])
        PROVE  Begun(bus'[i].n) /\ \A j \in 1..(i - 1) : Continues(bus'[j])
    BY <1>1, <2>1 DEF Ordered, OldOnesContinue
  <2>2. ASSUME NEW i \in 1..Len(bus'), Continues(bus'[i])
        PROVE  payload'.n <= bus'[i].n /\ (Receiving' => iso_tp_receive'.n = bus'[i].n)
    BY <1>1, <1>3, <1>4, <2>1, <2>2 DEF Begun
  <2> QED
    BY <2>1, <2>2 DEF OldOnesContinue, Begun
<1>9. ContinuesBegun'
  <2>1. CASE MayContinue
    <3>1. Begun(started) /\ \A i \in 1..Len(bus) : Continues(bus[i]) /\ bus[i].n = started
      BY <2>1 DEF Ordered, ContinuesBegun
    <3>2. Begun(started)'
      BY <1>1, <1>3, <1>4, <3>1 DEF Begun
    <3>3. \A i \in 1..Len(bus') : Continues(bus'[i]) /\ bus'[i].n = started
      BY <1>1, <3>1
    <3> QED
      BY <1>1, <3>2, <3>3 DEF ContinuesBegun
  <2>2. CASE Receiving /\ Receiving' /\ iso_tp_receive.n = started
    <3>1. Begun(started)'
      BY <1>1, <1>2, <1>3, <1>4, <2>2 DEF Begun
    <3>2. ASSUME NEW i \in 1..Len(bus')
          PROVE  Continues(bus'[i]) /\ bus'[i].n = started
      <4>1. Continues(bus'[i])
        BY <1>1, <1>5, <2>2 DEF Begins, Continues
      <4>2. Begun(bus[i + 1].n)
        BY <1>1, <4>1 DEF Ordered, OldOnesContinue
      <4> QED
        BY <1>1, <2>2, <4>1, <4>2 DEF Begun
    <3> QED
      BY <1>1, <3>1, <3>2 DEF ContinuesBegun
  <2> QED
    BY <2>1, <2>2 DEF ContinuesBegun
<1> QED
  BY <1>6, <1>7, <1>8, <1>9 DEF Ordered

LEMMA ReceiveKeepsOrder ==
  ASSUME CInv, Ordered, Receive
  PROVE  Ordered'
<1>1. CASE TakeUnexpectedFrame \/ TakePanics
  <2>1. /\ Take("consecutive") /\ UNCHANGED <<payload, flowControls>>
        /\ iso_tp_receive' = None \/ (Receiving /\ iso_tp_receive' = iso_tp_receive)
    BY <1>1 DEF TakeUnexpectedFrame, TakePanics, InSequence, Receiving
  <2>2. MayContinue' => MayContinue
    BY <2>1, RestOfBus DEF MayContinue, Sending
  <2> QED
    BY <2>1, <2>2, ContinuationKeepsOrder DEF Receiving
<1>2. CASE TakeLastFrame
  <2>1. /\ Take("consecutive") /\ Receiving /\ payload'.n = Extended.n /\ iso_tp_receive' = None
        /\ UNCHANGED flowControls
    BY <1>2 DEF TakeLastFrame, Return, InSequence, Receiving
  <2>2. MayContinue' => MayContinue
    BY <2>1, RestOfBus DEF MayContinue, Sending
  <2> QED
    BY <2>1, <2>2, ContinuationKeepsOrder, ExtendedParts
<1>3. CASE TakeConsecutiveFrame
  <2>1. /\ Take("consecutive") /\ Receiving /\ payload' = payload /\ Extended.got # Extended.length
    BY <1>3 DEF TakeConsecutiveFrame, InSequence, Receiving
  <2>2. Extended.n = iso_tp_receive.n /\ Extended.n \in 1..started
    BY <2>1, ExtendedParts, StaysProceeding DEF Proceeding
  <2>3. Receiving' /\ iso_tp_receive'.n = iso_tp_receive.n
    <3> DEFINE reset == [Extended EXCEPT !.frames_since_flow_control = 0]
    <3>1. iso_tp_receive' = IF BlockDone(Extended) THEN reset ELSE Extended
      BY <1>3 DEF TakeConsecutiveFrame
    <3>2. reset.n = Extended.n
      BY <2>1, ExtendedParts DEF Transfer
    <3>3. Proceeding(iso_tp_receive')
      BY <2>1, <3>1, NextFrame
    <3>4. Receiving'
      BY <3>3, ProceedingParts DEF Receiving
    <3> QED
      BY <2>2, <3>1, <3>2, <3>4
  <2>4. MayContinue' => MayContinue \/ iso_tp_receive.n = started
    <3>1. SendFlowControl(Extended.n) \/ UNCHANGED flowControls
      BY <1>3 DEF TakeConsecutiveFrame
    <3>2. UNCHANGED <<started, peer>>
      BY <2>1, RestOfBus
    <3> QED
      BY <2>2, <3>1, <3>2, AnswerFlow DEF CInv, MayContinue, Sending
  <2> QED
    BY <2>1, <2>3, <2>4, ContinuationKeepsOrder
<1> QED
  BY <1>1, <1>2, <1>3, SingleKeepsOrder, FirstKeepsOrder DEF Receive

LEMMA LongerBus ==
  ASSUME CInv, NEW frame \in FrameType, bus' = Append(bus, frame)
  PROVE  /\ Len(bus) \in Nat /\ Len(bus') = Len(bus) + 1 /\ started \in Nat
         /\ \A i \in 1..Len(bus') : \/ i \in 1..Len(bus) /\ bus'[i] = bus[i]
                                    \/ i = Len(bus) + 1 /\ bus'[i] = frame
         /\ \A i \in 1..Len(bus') : \A j \in 1..(i - 1) : j \in 1..Len(bus) /\ bus'[j] = bus[j]
         /\ \A i \in 1..Len(bus) : bus[i] \in FrameType /\ bus[i].n \in Nat /\ bus[i].n <= started
<1>1. /\ Len(bus') = Len(bus) + 1 /\ bus'[Len(bus) + 1] = frame
      /\ \A i \in 1..Len(bus) : bus'[i] = bus[i]
  BY SendFrame DEF CInv
<1>2. Len(bus) \in Nat /\ started \in Nat
  BY DEF CInv, Numbered, BusNumbered, TransfersNumbered
<1>3. \A i \in 1..Len(bus) : bus[i] \in FrameType /\ bus[i].n \in Nat /\ bus[i].n <= started
  BY <1>2 DEF CInv, Numbered, BusNumbered
<1>4. /\ \A i \in 1..Len(bus') : i \in 1..Len(bus) \/ i = Len(bus) + 1
      /\ \A i \in 1..Len(bus') : \A j \in 1..(i - 1) : j \in 1..Len(bus)
  BY <1>1, <1>2
<1> QED
  BY <1>1, <1>2, <1>3, <1>4

LEMMA ShorterBus ==
  ASSUME CInv, LoseFrame
  PROVE  /\ Len(bus) \in Nat /\ Len(bus') = Len(bus) - 1
         /\ \A i \in 1..Len(bus') : /\ i \in 1..Len(bus) /\ bus'[i] = bus[i]
                                    /\ bus[i] \in FrameType
                                    /\ \A j \in 1..(i - 1) : j \in 1..Len(bus')
         /\ UNCHANGED <<hostVars, flowControls, peer, started, misled>>
<1>1. /\ Len(bus') = Len(bus) - 1 /\ \A i \in 1..(Len(bus) - 1) : bus'[i] = bus[i]
  BY DropFrame DEF CInv
<1>2. Len(bus) \in Nat /\ \A i \in 1..Len(bus) : bus[i] \in FrameType
  BY DEF CInv, Numbered, BusNumbered
<1>3. \A i \in 1..Len(bus') : i \in 1..Len(bus) /\ \A j \in 1..(i - 1) : j \in 1..Len(bus')
  BY <1>1, <1>2
<1> QED
  BY <1>1, <1>2, <1>3 DEF LoseFrame, peerVars

\* A frame that begins a payload is newer than everything.
LEMMA BeginningKeepsOrder ==
  ASSUME CInv, Ordered, NEW frame \in FrameType, Begins(frame), frame.n = started + 1,
         bus' = Append(bus, frame), UNCHANGED <<iso_tp_receive, payload, flowControls>>,
         started' = started + 1, peer' = None \/ peer'.waiting
  PROVE  Ordered'
<1>1. /\ Len(bus) \in Nat /\ Len(bus') = Len(bus) + 1 /\ started \in Nat
      /\ \A i \in 1..Len(bus') : \/ i \in 1..Len(bus) /\ bus'[i] = bus[i]
                                 \/ i = Len(bus) + 1 /\ bus'[i] = frame
      /\ \A i \in 1..Len(bus') : \A j \in 1..(i - 1) : j \in 1..Len(bus) /\ bus'[j] = bus[j]
      /\ \A i \in 1..Len(bus) : bus[i].n \in Nat /\ bus[i].n <= started
  BY LongerBus
<1>2. /\ payload'.n = payload.n /\ payload.n \in 0..started
      /\ Receiving' = Receiving /\ iso_tp_receive' = iso_tp_receive
      /\ Receiving => iso_tp_receive.n \in 1..started
  BY DEF CInv, Numbered, TransfersNumbered, Receiving
<1>3. NewOnesBegin'
  <2>1. ASSUME NEW i \in 1..Len(bus'), Begins(bus'[i])
        PROVE  /\ payload.n < bus'[i].n /\ (Receiving => iso_tp_receive.n < bus'[i].n)
               /\ \A j \in 1..(i - 1) : bus'[j].n < bus'[i].n
    <3>1. CASE i \in 1..Len(bus) /\ bus'[i] = bus[i]
      BY <1>1, <2>1, <3>1 DEF Ordered, NewOnesBegin
    <3>2. CASE bus'[i] = frame
      BY <1>1, <1>2, <3>2
    <3> QED
      BY <1>1, <3>1, <3>2
  <2> QED
    BY <1>2, <2>1 DEF NewOnesBegin
<1>4. NotYetRead'
  BY <1>2 DEF Ordered, NotYetRead
<1>5. OldOnesContinue'
  <2>1. ASSUME NEW i \in 1..Len(bus'), Continues(bus'[i])
        PROVE  /\ \A j \in 1..(i - 1) : Continues(bus'[j])
               /\ payload.n <= bus'[i].n /\ (Receiving => iso_tp_receive.n = bus'[i].n)
    <3>1. i \in 1..Len(bus) /\ bus'[i] = bus[i]
      BY <1>1, <2>1 DEF Begins, Continues
    <3> QED
      BY <1>1, <2>1, <3>1 DEF Ordered, OldOnesContinue, Begun
  <2> QED
    BY <1>2, <2>1 DEF OldOnesContinue, Begun
<1>6. ~MayContinue'
  <2>1. \A i \in 1..Len(flowControls) : flowControls[i] # started'
    BY <1>1 DEF CInv, Numbered, FlowsNumbered
  <2> QED
    BY <2>1 DEF MayContinue, Sending
<1> QED
  BY <1>3, <1>4, <1>5, <1>6 DEF Ordered, ContinuesBegun

LEMMA PeerKeepsOrder ==
  ASSUME CInv, Ordered, ~misled', Peer
  PROVE  Ordered'
<1>0. started \in Nat /\ (Sending => peer \in PeerTransfer /\ peer.position \in Nat)
  BY DEF CInv, Numbered, TransfersNumbered, PeerTransfer
<1>1. CASE PeerSendsSingle
  <2> DEFINE frame == Frame("single", started + 1, 0)
  <2>0. frame \in FrameType
    BY <1>0, FrameTypes
  <2>1. frame.n = started + 1 /\ Begins(frame)
    BY DEF Frame, Begins
  <2>2. bus' = Append(bus, frame) /\ started' = started + 1 /\ peer' = None
        /\ UNCHANGED <<iso_tp_receive, payload, flowControls>>
    BY <1>1 DEF PeerSendsSingle, hostVars
  <2> QED
    BY <2>0, <2>1, <2>2, BeginningKeepsOrder
<1>2. CASE PeerSendsFirst
  <2>1. PICK length \in Lengths \ {0} :
          /\ peer' = [length |-> length, position |-> 1, inBlock |-> 0, waiting |-> TRUE]
          /\ bus' = Append(bus, Frame("first", started', length))
    BY <1>2 DEF PeerSendsFirst
  <2> DEFINE frame == Frame("first", started + 1, length)
  <2>0. frame \in FrameType
    <3>1. length \in Nat /\ started + 1 \in Nat
      BY <1>0, ReceiveAssumption
    <3> QED
      BY <3>1, FrameTypes
  <2>2. frame.n = started + 1 /\ Begins(frame)
    BY DEF Frame, Begins
  <2>3. bus' = Append(bus, frame) /\ started' = started + 1 /\ peer'.waiting
        /\ UNCHANGED <<iso_tp_receive, payload, flowControls>>
    BY <1>2, <2>1 DEF PeerSendsFirst, hostVars
  <2> QED
    BY <2>0, <2>2, <2>3, BeginningKeepsOrder
<1>3. CASE PeerSendsConsecutive
  <2> DEFINE frame == ConsecutiveFrame(started, peer.position)
  <2>1. /\ MayContinue /\ bus' = Append(bus, frame)
        /\ UNCHANGED <<started, iso_tp_receive, payload, flowControls>>
    BY <1>3 DEF PeerSendsConsecutive, hostVars, MayContinue, Sending
  <2>2. frame.n = started /\ Continues(frame) /\ frame \in FrameType
    BY <1>0, <1>3, FrameTypes DEF ConsecutiveFrame, Continues, PeerSendsConsecutive, Sending
  <2> HIDE DEF frame
  <2>3. Begun(started) /\ \A i \in 1..Len(bus) : Continues(bus[i]) /\ bus[i].n = started
    BY <2>1 DEF Ordered, ContinuesBegun
  <2>4. /\ \A i \in 1..Len(bus') : Continues(bus'[i]) /\ bus'[i].n = started
        /\ \A i \in 1..Len(bus') : \A j \in 1..(i - 1) : Continues(bus'[j])
    BY <2>1, <2>2, <2>3, LongerBus
  <2>5. payload.n <= started /\ (Receiving' => iso_tp_receive.n = started)
    BY <2>1, <2>3 DEF Begun, Receiving
  <2>6. NewOnesBegin'
    BY <2>4 DEF NewOnesBegin, Begins, Continues
  <2>7. NotYetRead'
    BY <2>1 DEF Ordered, NotYetRead, Receiving
  <2>8. OldOnesContinue'
    BY <2>1, <2>4, <2>5 DEF OldOnesContinue, Begun
  <2>9. ContinuesBegun'
    BY <2>1, <2>4, <2>5 DEF ContinuesBegun, Begun
  <2> QED
    BY <2>6, <2>7, <2>8, <2>9 DEF Ordered
<1>4. CASE PeerTakesFlowControl \/ PeerGivesUp
  <2>1. UNCHANGED <<bus, started, iso_tp_receive, payload>>
    BY <1>4 DEF PeerTakesFlowControl, PeerGivesUp, hostVars
  <2>2. MayContinue' => MayContinue
    <3>1. CASE PeerGivesUp
      BY <3>1 DEF PeerGivesUp, MayContinue, Sending
    <3>2. CASE PeerTakesFlowControl
      <4>1. flowControls \in Seq(Nat) /\ flowControls # <<>> /\ flowControls' = Tail(flowControls)
        BY <3>2 DEF PeerTakesFlowControl, CInv, Numbered, FlowsNumbered
      <4>2. /\ 1 \in 1..Len(flowControls) /\ Head(flowControls) = flowControls[1]
            /\ \A i \in 1..Len(flowControls') :
                 i + 1 \in 1..Len(flowControls) /\ flowControls'[i] = flowControls[i + 1]
        <5>1. /\ Len(flowControls) \in Nat /\ Len(flowControls) > 0
              /\ Head(flowControls) = flowControls[1]
              /\ Len(flowControls') = Len(flowControls) - 1
              /\ \A i \in 1..(Len(flowControls) - 1) : flowControls'[i] = flowControls[i + 1]
          BY <4>1, HeadTailProperties, EmptySeq
        <5>2. \A i \in 1..Len(flowControls') : i + 1 \in 1..Len(flowControls)
          BY <5>1
        <5> QED
          BY <5>1, <5>2
      <4>3. CASE Sending /\ peer.waiting
        BY <3>2, <4>2, <4>3 DEF PeerTakesFlowControl, Sending, MayContinue
      <4>4. CASE ~(Sending /\ peer.waiting)
        BY <2>1, <3>2, <4>2, <4>4 DEF PeerTakesFlowControl, Sending, MayContinue
      <4> QED
        BY <4>3, <4>4
    <3> QED
      BY <1>4, <3>1, <3>2
  <2> QED
    BY <2>1, <2>2 DEF Ordered, NewOnesBegin, NotYetRead, OldOnesContinue, ContinuesBegun, Begun,
                      Receiving, Begins, Continues
<1> QED
  BY <1>1, <1>2, <1>3, <1>4 DEF Peer

LEMMA StepKeepsOrder ==
  ASSUME CInv, Ordered, ~misled', [Next]_vars
  PROVE  Ordered'
<1>1. CASE UNCHANGED vars \/ BeginRead \/ ReadTimeout
  <2>1. UNCHANGED <<iso_tp_receive, payload, bus, flowControls, peer, started>>
    BY <1>1 DEF vars, hostVars, peerVars, BeginRead, ReadTimeout
  <2> QED
    BY <2>1 DEF Ordered, NewOnesBegin, NotYetRead, OldOnesContinue, ContinuesBegun, MayContinue,
                Begun, Receiving, Sending, Begins, Continues
<1>2. CASE BeginRequest
  <2>1. bus' = <<>> /\ iso_tp_receive' = None /\ UNCHANGED <<payload, started>>
    BY <1>2 DEF BeginRequest, peerVars
  <2>2. payload.n <= started
    BY DEF CInv, Numbered, TransfersNumbered
  <2> QED
    BY <2>1, <2>2 DEF Ordered, NewOnesBegin, NotYetRead, OldOnesContinue, ContinuesBegun, Begun,
                      Receiving
<1>3. CASE LoseFrame
  <2>1. UNCHANGED <<iso_tp_receive, payload, flowControls, peer, started>>
    BY <1>3, ShorterBus DEF hostVars
  <2>2. \A i \in 1..Len(bus') : /\ i \in 1..Len(bus) /\ bus'[i] = bus[i]
                                /\ \A j \in 1..(i - 1) : j \in 1..Len(bus')
    BY <1>3, ShorterBus
  <2>3. NewOnesBegin'
    <3>1. ASSUME NEW i \in 1..Len(bus'), Begins(bus'[i])
          PROVE  /\ payload.n < bus'[i].n /\ (Receiving => iso_tp_receive.n < bus'[i].n)
                 /\ \A j \in 1..(i - 1) : bus'[j].n < bus'[i].n
      BY <2>2, <3>1 DEF Ordered, NewOnesBegin
    <3> QED
      BY <2>1, <3>1 DEF NewOnesBegin, Receiving
  <2>4. NotYetRead'
    BY <2>1 DEF Ordered, NotYetRead, Receiving
  <2>5. OldOnesContinue'
    <3>1. ASSUME NEW i \in 1..Len(bus'), Continues(bus'[i])
          PROVE  Begun(bus'[i].n) /\ \A j \in 1..(i - 1) : Continues(bus'[j])
      BY <2>2, <3>1 DEF Ordered, OldOnesContinue
    <3> QED
      BY <2>1, <3>1 DEF OldOnesContinue, Begun, Receiving
  <2>6. ContinuesBegun'
    <3>1. MayContinue' = MayContinue /\ Begun(started)' = Begun(started)
      BY <2>1 DEF MayContinue, Begun, Receiving, Sending
    <3>2. MayContinue => \A i \in 1..Len(bus') : Continues(bus'[i]) /\ bus'[i].n = started
      BY <2>2 DEF Ordered, ContinuesBegun
    <3> QED
      BY <2>1, <3>1, <3>2 DEF Ordered, ContinuesBegun
  <2> QED
    BY <2>3, <2>4, <2>5, <2>6 DEF Ordered
<1> QED
  BY <1>1, <1>2, <1>3, ReceiveKeepsOrder, PeerKeepsOrder DEF Next, Host
-----------------------------------------------------------------------------
(* What is missing of a payload shows in its length.                       *)

LEMMA FirstKeepsWhole ==
  ASSUME CInv, Ordered, Whole, TakeFirstFrame
  PROVE  Whole'
<1>0. /\ Take("first") /\ iso_tp_receive' = FirstFrame(bus[1]) /\ payload' = payload
      /\ bus[1] \in FrameType /\ bus[1].pci = "first" /\ 1 \in 1..Len(bus)
      /\ Receiving' /\ bus' \in Seq(FrameType)
  BY TakeFrame, RestOfBus, FirstKeepsOrder DEF TakeFirstFrame, CInv
<1>1. /\ UNCHANGED <<started, peer>>
      /\ \A i \in 1..Len(bus') : bus'[i] = bus[i + 1] /\ i + 1 \in 1..Len(bus) /\ Begins(bus'[i])
  BY <1>0, RestOfBus, FirstKeepsOrder
<1>2. /\ iso_tp_receive'.n = bus[1].n /\ iso_tp_receive'.length = bus[1].length
      /\ iso_tp_receive'.got = 0 /\ iso_tp_receive'.whole
  BY <1>0, FirstFrameParts
<1>3. LengthsAgree'
  <2>1. bus[1].n = started /\ Sending => peer.length = bus[1].length
    BY <1>0 DEF Whole, LengthsAgree
  <2>2. \A i \in 1..Len(bus') : bus'[i].pci = "first" /\ bus'[i].n = started /\ Sending
                                  => peer.length = bus'[i].length
    BY <1>1 DEF Whole, LengthsAgree
  <2> QED
    BY <1>1, <1>2, <2>1, <2>2 DEF LengthsAgree, Sending
<1>4. Spaced'
  BY <1>1 DEF Spaced, Begins, Continues
<1>5. Reaches'
  <2>1. Missing' = 0
    BY <1>2 DEF Missing
  <2>2. ASSUME Sending, bus[1].n = started
        PROVE  peer.position > 0 + Len(bus') + 0
    <3>1. bus' = <<>> /\ peer \in PeerTransfer /\ peer.position \in 1..peer.length
      BY <2>2, FirstKeepsOrder DEF CInv, TypeOK, Numbered, TransfersNumbered, Sending
    <3>2. peer.length \in Nat
      BY <3>1 DEF PeerTransfer
    <3>3. Len(bus') = 0
      BY <3>1
    <3> QED
      BY <3>1, <3>2, <3>3
  <2> QED
    BY <1>1, <1>2, <2>1, <2>2 DEF Reaches, Sending, Begins, Continues
<1> QED
  BY <1>0, <1>3, <1>4, <1>5 DEF Whole

\* What stays on the bus is spaced as before.
LEMMA TakeKeepsSpaces ==
  ASSUME CInv, Whole, NEW pci, Take(pci)
  PROVE  Spaced'
<1>1. /\ Len(bus) \in Nat /\ Len(bus') = Len(bus) - 1 /\ UNCHANGED <<started, peer>>
      /\ \A i \in 1..Len(bus') : /\ bus'[i] = bus[i + 1] /\ i + 1 \in 1..Len(bus)
                                 /\ bus[i + 1] \in FrameType
                                 /\ \A j \in 1..(i - 1) : j + 1 \in 1..((i + 1) - 1) /\ j \in 1..Len(bus')
  BY RestOfBus
<1>2. ASSUME NEW j \in 1..Len(bus'), Continues(bus'[j])
      PROVE  /\ \A i \in 1..(j - 1) : bus'[j].position >= bus'[i].position + (j - i)
             /\ Sending /\ bus'[j].n = started => peer.position > bus'[j].position + (Len(bus') - j)
  <2>1. ASSUME NEW i \in 1..(j - 1)
        PROVE  bus'[j].position >= bus'[i].position + (j - i)
    <3>1. bus[j + 1].position >= bus[i + 1].position + ((j + 1) - (i + 1))
      BY <1>1, <1>2 DEF Whole, Spaced
    <3>2. (j + 1) - (i + 1) = j - i
      OBVIOUS
    <3> QED
      BY <1>1, <3>1, <3>2
  <2>2. Len(bus') - j = Len(bus) - (j + 1)
    BY <1>1
  <2> QED
    BY <1>1, <1>2, <2>1, <2>2 DEF Whole, Spaced
<1> QED
  BY <1>1, <1>2 DEF Spaced, Sending

\* What is known of a frame that continues the payload being put together.
LEMMA NextFramePlace ==
  ASSUME CInv, Ordered, Whole, Take("consecutive"), Receiving
  PROVE  /\ Continues(bus[1]) /\ bus[1].n = iso_tp_receive.n
         /\ bus[1].position \in Nat /\ iso_tp_receive.got \in Nat /\ iso_tp_receive.length \in Nat
         /\ Missing \in {0, 1} /\ (iso_tp_receive.whole <=> Missing = 0)
         /\ bus[1].position >= iso_tp_receive.got + 1 + Missing
         /\ bus[1].position <= iso_tp_receive.length
<1>1. /\ 1 \in 1..Len(bus) /\ Continues(bus[1]) /\ bus[1] \in FrameType
      /\ iso_tp_receive \in Transfer
  BY RestOfBus DEF Continues, CInv, Numbered, TransfersNumbered
<1>2. bus[1].n = iso_tp_receive.n
  BY <1>1 DEF Ordered, OldOnesContinue, Begun
<1>3. /\ bus[1].position >= iso_tp_receive.got + 1 + Missing
      /\ bus[1].position <= iso_tp_receive.length
  BY <1>1 DEF Whole, Reaches
<1>4. Missing \in {0, 1} /\ (iso_tp_receive.whole <=> Missing = 0)
  BY DEF Missing
<1> QED
  BY <1>1, <1>2, <1>3, <1>4 DEF FrameType, Transfer

LEMMA ConsecutiveKeepsWhole ==
  ASSUME CInv, Ordered, Whole, Take("consecutive"), Receiving, Receiving', payload' = payload,
         iso_tp_receive'.n = iso_tp_receive.n, iso_tp_receive'.length = iso_tp_receive.length,
         iso_tp_receive'.got = iso_tp_receive.got + 1,
         iso_tp_receive'.whole <=> iso_tp_receive.whole /\ bus[1].n = iso_tp_receive.n
                                   /\ bus[1].position = iso_tp_receive.got + 1
  PROVE  Whole'
<1>1. /\ Len(bus) \in Nat /\ Len(bus') = Len(bus) - 1 /\ UNCHANGED <<started, peer>>
      /\ 1 \in 1..Len(bus)
      /\ \A i \in 1..Len(bus') : /\ bus'[i] = bus[i + 1] /\ i + 1 \in 1..Len(bus)
                                 /\ bus[i + 1] \in FrameType /\ 1 \in 1..((i + 1) - 1)
  BY RestOfBus
<1>2. /\ Continues(bus[1]) /\ bus[1].n = iso_tp_receive.n
      /\ bus[1].position \in Nat /\ iso_tp_receive.got \in Nat /\ iso_tp_receive.length \in Nat
      /\ Missing \in {0, 1} /\ (iso_tp_receive.whole <=> Missing = 0)
      /\ bus[1].position >= iso_tp_receive.got + 1 + Missing
  BY NextFramePlace
<1>3. LengthsAgree'
  BY <1>1 DEF Whole, LengthsAgree, Sending
<1>4. Spaced'
  BY TakeKeepsSpaces
<1>5. /\ Missing' = 0 => Missing = 0 /\ bus[1].position = iso_tp_receive.got + 1
      /\ Missing' # 0 => Missing' = 1
                         /\ (Missing = 1 \/ bus[1].position >= iso_tp_receive.got + 2)
  <2>1. Missing' = IF iso_tp_receive'.whole THEN 0 ELSE 1
    BY DEF Missing
  <2>2. CASE iso_tp_receive'.whole
    BY <1>2, <2>1, <2>2
  <2>3. CASE ~iso_tp_receive'.whole
    BY <1>2, <2>1, <2>3
  <2> QED
    BY <2>2, <2>3
<1>6. ASSUME NEW i \in 1..Len(bus'), Continues(bus'[i])
      PROVE  /\ bus'[i].position >= (iso_tp_receive.got + 1) + i + Missing'
             /\ bus'[i].position <= iso_tp_receive.length
  <2>1. /\ bus[i + 1].position >= iso_tp_receive.got + (i + 1) + Missing
        /\ bus[i + 1].position <= iso_tp_receive.length
    BY <1>1, <1>6 DEF Whole, Reaches
  <2>2. bus[i + 1].position >= bus[1].position + ((i + 1) - 1)
    BY <1>1, <1>6 DEF Whole, Spaced
  <2>3. bus'[i] = bus[i + 1] /\ bus[i + 1].position \in Nat /\ i \in Nat
    BY <1>1 DEF FrameType
  <2>4. bus[1].position \in Nat /\ iso_tp_receive.got \in Nat /\ Missing \in Nat
    BY <1>2
  <2>5. CASE Missing = Missing'
    BY <2>1, <2>3, <2>4, <2>5
  <2>6. CASE Missing = 0 /\ Missing' = 1
    <3>1. bus[1].position >= iso_tp_receive.got + 2
      BY <1>5, <2>6
    <3>2. bus'[i].position >= bus[1].position + i
      BY <2>2, <2>3, <2>4
    <3>3. bus'[i].position <= iso_tp_receive.length
      BY <2>1, <2>3
    <3> QED
      BY <2>3, <2>4, <2>6, <3>1, <3>2, <3>3
  <2> QED
    BY <1>2, <1>5, <2>5, <2>6
<1>7. ASSUME Sending, iso_tp_receive.n = started
      PROVE  peer.position > (iso_tp_receive.got + 1) + Len(bus') + Missing'
  <2>1. peer.position > iso_tp_receive.got + Len(bus) + Missing
    BY <1>7 DEF Whole, Reaches
  <2>2. peer.position > bus[1].position + (Len(bus) - 1)
    BY <1>1, <1>2, <1>7 DEF Whole, Spaced
  <2>3. peer.position \in Nat
    BY <1>7 DEF CInv, Numbered, TransfersNumbered, PeerTransfer
  <2>4. /\ bus[1].position \in Nat /\ iso_tp_receive.got \in Nat /\ Missing \in Nat
        /\ Len(bus) \in Nat /\ Len(bus') = Len(bus) - 1
    BY <1>1, <1>2
  <2>5. CASE Missing = Missing'
    BY <2>1, <2>3, <2>4, <2>5
  <2>6. CASE Missing = 0 /\ Missing' = 1
    <3>1. bus[1].position >= iso_tp_receive.got + 2
      BY <1>5, <2>6
    <3> QED
      BY <2>2, <2>3, <2>4, <2>6, <3>1
  <2> QED
    BY <1>2, <1>5, <2>5, <2>6
<1>8. Reaches'
  BY <1>1, <1>6, <1>7 DEF Reaches, Sending
<1> QED
  BY <1>3, <1>4, <1>8 DEF Whole

\* A transfer that is taken no further.
LEMMA DropKeepsWhole ==
  ASSUME CInv, Whole, NEW pci, Take(pci), iso_tp_receive' = None, payload'.whole
  PROVE  Whole'
<1>1. /\ UNCHANGED <<started, peer>> /\ ~Receiving'
      /\ \A i \in 1..Len(bus') : bus'[i] = bus[i + 1] /\ i + 1 \in 1..Len(bus)
  BY RestOfBus DEF Receiving
<1>2. LengthsAgree'
  BY <1>1 DEF Whole, LengthsAgree, Sending
<1>3. Spaced'
  BY TakeKeepsSpaces
<1>4. Reaches'
  BY <1>1 DEF Reaches
<1> QED
  BY <1>2, <1>3, <1>4 DEF Whole

LEMMA ReceiveKeepsWhole ==
  ASSUME CInv, Ordered, Whole, Receive
  PROVE  Whole'
<1>1. CASE TakeSingleFrame
  <2>1. /\ Take("single") /\ payload'.whole /\ UNCHANGED iso_tp_receive
    BY <1>1 DEF TakeSingleFrame, Return
  <2>2. /\ UNCHANGED <<started, peer>> /\ Receiving' = Receiving
        /\ bus[1].n \in Nat /\ bus[1].n <= started /\ started \in Nat
        /\ \A i \in 1..Len(bus') : bus'[i] = bus[i + 1] /\ i + 1 \in 1..Len(bus)
    BY <2>1, RestOfBus DEF Receiving
  <2>3. /\ \A i \in 1..Len(bus') : ~Continues(bus'[i])
        /\ Receiving => iso_tp_receive.n # started
    <3>1. \A i \in 1..Len(bus') : Begins(bus'[i])
      BY <2>1, OrderBehindBeginning
    <3>2. Receiving => iso_tp_receive.n < bus[1].n /\ iso_tp_receive.n \in Nat
      BY <2>1, OrderBehindBeginning DEF CInv, Numbered, TransfersNumbered, Transfer
    <3> QED
      BY <2>2, <3>1, <3>2 DEF Begins, Continues
  <2>4. LengthsAgree'
    BY <2>1, <2>2 DEF Whole, LengthsAgree, Sending
  <2>5. Spaced'
    BY <2>1, TakeKeepsSpaces
  <2>6. Reaches'
    BY <2>1, <2>2, <2>3 DEF Reaches
  <2> QED
    BY <2>1, <2>4, <2>5, <2>6 DEF Whole
<1>2. CASE TakeFirstFrame
  BY <1>2, FirstKeepsWhole
<1>3. CASE TakeUnexpectedFrame
  BY <1>3, DropKeepsWhole DEF TakeUnexpectedFrame, Whole
<1>4. CASE TakePanics
  <2>1. /\ Take("consecutive") /\ Receiving /\ UNCHANGED <<iso_tp_receive, payload>>
    BY <1>4 DEF TakePanics, InSequence, Receiving
  <2>2. /\ UNCHANGED <<started, peer>> /\ Receiving' = Receiving /\ Missing' = Missing
        /\ Len(bus) \in Nat /\ Len(bus') = Len(bus) - 1
        /\ \A i \in 1..Len(bus') : /\ bus'[i] = bus[i + 1] /\ i + 1 \in 1..Len(bus)
                                   /\ bus[i + 1] \in FrameType
        /\ Missing \in {0, 1} /\ iso_tp_receive.got \in Nat
    BY <2>1, RestOfBus, NextFramePlace DEF Receiving, Missing
  <2>3. LengthsAgree'
    BY <2>1, <2>2 DEF Whole, LengthsAgree, Sending
  <2>4. Spaced'
    BY <2>1, TakeKeepsSpaces
  <2>5. ASSUME NEW i \in 1..Len(bus'), Continues(bus'[i])
        PROVE  /\ bus'[i].position >= iso_tp_receive.got + i + Missing
               /\ bus'[i].position <= iso_tp_receive.length
    <3>1. /\ bus[i + 1].position >= iso_tp_receive.got + (i + 1) + Missing
          /\ bus[i + 1].position <= iso_tp_receive.length
      BY <2>1, <2>2, <2>5 DEF Whole, Reaches
    <3>2. bus'[i] = bus[i + 1] /\ bus[i + 1].position \in Nat
      BY <2>2 DEF FrameType
    <3>3. i \in Nat /\ Missing \in Nat /\ iso_tp_receive.got \in Nat
      BY <2>2
    <3> QED
      BY <3>1, <3>2, <3>3
  <2>6. ASSUME Sending, iso_tp_receive.n = started
        PROVE  peer.position > iso_tp_receive.got + Len(bus') + Missing
    <3>1. peer.position > iso_tp_receive.got + Len(bus) + Missing
      BY <2>1, <2>6 DEF Whole, Reaches
    <3>2. peer.position \in Nat
      BY <2>6 DEF CInv, Numbered, TransfersNumbered, PeerTransfer
    <3> QED
      BY <2>2, <3>1, <3>2
  <2>7. Reaches'
    BY <2>1, <2>2, <2>5, <2>6 DEF Reaches, Sending
  <2> QED
    BY <2>1, <2>3, <2>4, <2>7 DEF Whole
<1>5. CASE TakeLastFrame
  <2>1. /\ Take("consecutive") /\ Receiving /\ Extended.got = Extended.length
        /\ payload'.whole = Extended.whole /\ iso_tp_receive' = None
    BY <1>5 DEF TakeLastFrame, Return, InSequence, Receiving
  <2>2. Head(bus) = bus[1]
    BY <2>1, RestOfBus
  <2>3. iso_tp_receive.got + 1 = iso_tp_receive.length
    BY <2>1, ExtendedParts
  <2>4. iso_tp_receive.whole /\ bus[1].n = iso_tp_receive.n
        /\ bus[1].position = iso_tp_receive.got + 1
    BY <2>1, <2>3, NextFramePlace
  <2>5. Extended.whole
    BY <2>1, <2>2, <2>4, ExtendedParts
  <2> QED
    BY <2>1, <2>5, DropKeepsWhole
<1>6. CASE TakeConsecutiveFrame
  <2> DEFINE reset == [Extended EXCEPT !.frames_since_flow_control = 0]
  <2>1. /\ Take("consecutive") /\ Receiving /\ payload' = payload /\ Extended.got # Extended.length
        /\ iso_tp_receive' = IF BlockDone(Extended) THEN reset ELSE Extended
    BY <1>6 DEF TakeConsecutiveFrame, InSequence, Receiving
  <2>2. /\ reset.n = Extended.n /\ reset.length = Extended.length /\ reset.got = Extended.got
        /\ reset.whole = Extended.whole
    BY <2>1, ExtendedParts DEF Transfer
  <2>3. Receiving'
    BY <2>1, NextFrame, ProceedingParts DEF Receiving
  <2> HIDE DEF reset
  <2>4. /\ iso_tp_receive'.n = Extended.n /\ iso_tp_receive'.length = Extended.length
        /\ iso_tp_receive'.got = Extended.got /\ iso_tp_receive'.whole = Extended.whole
    BY <2>1, <2>2
  <2>5. Head(bus) = bus[1]
    BY <2>1, RestOfBus
  <2>6. /\ Extended.n = iso_tp_receive.n /\ Extended.length = iso_tp_receive.length
        /\ Extended.got = iso_tp_receive.got + 1
        /\ Extended.whole <=> iso_tp_receive.whole /\ bus[1].n = iso_tp_receive.n
                              /\ bus[1].position = iso_tp_receive.got + 1
    BY <2>1, <2>5, ExtendedParts
  <2> QED
    BY <2>1, <2>3, <2>4, <2>6, ConsecutiveKeepsWhole
<1> QED
  BY <1>1, <1>2, <1>3, <1>4, <1>5, <1>6 DEF Receive

\* A frame that begins a payload says how long it is; nothing of the payload
\* came before.
LEMMA BeginningKeepsWhole ==
  ASSUME CInv, Whole, NEW frame \in FrameType, Begins(frame), bus' = Append(bus, frame),
         UNCHANGED <<iso_tp_receive, payload>>, started' = started + 1,
         peer' = None \/ peer'.length = frame.length
  PROVE  Whole'
<1>1. /\ Len(bus) \in Nat /\ started \in Nat
      /\ \A i \in 1..Len(bus') : \/ i \in 1..Len(bus) /\ bus'[i] = bus[i]
                                 \/ bus'[i] = frame
      /\ \A i \in 1..Len(bus') : \A j \in 1..(i - 1) : j \in 1..Len(bus) /\ bus'[j] = bus[j]
      /\ \A i \in 1..Len(bus) : bus[i].n \in Nat /\ bus[i].n <= started
  BY LongerBus
<1>2. /\ \A i \in 1..Len(bus) : bus[i].n # started'
      /\ Receiving => iso_tp_receive.n # started'
  BY <1>1 DEF CInv, Numbered, TransfersNumbered
<1>3. /\ Receiving' = Receiving /\ iso_tp_receive' = iso_tp_receive /\ Missing' = Missing
      /\ \A i \in 1..Len(bus') : Continues(bus'[i]) => i \in 1..Len(bus) /\ bus'[i] = bus[i]
  BY <1>1 DEF Receiving, Missing, Begins, Continues
<1>4. LengthsAgree'
  BY <1>1, <1>2, <1>3 DEF LengthsAgree, Sending
<1>5. Spaced'
  BY <1>1, <1>2, <1>3 DEF Whole, Spaced
<1>6. Reaches'
  BY <1>1, <1>2, <1>3 DEF Whole, Reaches
<1> QED
  BY <1>4, <1>5, <1>6 DEF Whole

LEMMA ConsecutiveSentKeepsWhole ==
  ASSUME CInv, Ordered, Whole, PeerSendsConsecutive
  PROVE  Whole'
<1> DEFINE frame == ConsecutiveFrame(started, peer.position)
<1>1. /\ MayContinue /\ Sending /\ bus' = Append(bus, frame)
      /\ UNCHANGED <<started, iso_tp_receive, payload>>
  BY DEF PeerSendsConsecutive, hostVars, MayContinue, Sending
<1>2. /\ peer \in PeerTransfer /\ peer.position \in Nat /\ peer.length \in Nat
      /\ peer.position <= peer.length /\ started \in Nat
  BY <1>1 DEF CInv, TypeOK, Numbered, TransfersNumbered, PeerTransfer, Sending
<1>3. /\ frame.n = started /\ Continues(frame) /\ frame.position = peer.position
      /\ frame \in FrameType
  BY <1>2, FrameTypes DEF ConsecutiveFrame, Continues
<1> HIDE DEF frame
<1>4. /\ Len(bus) \in Nat /\ Len(bus') = Len(bus) + 1
      /\ \A i \in 1..Len(bus') : \/ i \in 1..Len(bus) /\ bus'[i] = bus[i]
                                 \/ i = Len(bus) + 1 /\ bus'[i] = frame
      /\ \A i \in 1..Len(bus') : \A j \in 1..(i - 1) : j \in 1..Len(bus) /\ bus'[j] = bus[j]
      /\ \A i \in 1..Len(bus) : bus[i].position \in Nat
  BY <1>1, <1>3, LongerBus DEF FrameType
<1>5. /\ \A i \in 1..Len(bus) : Continues(bus[i]) /\ bus[i].n = started
      /\ Receiving => iso_tp_receive.n = started
  BY <1>1 DEF Ordered, ContinuesBegun, Begun
<1>6. Sending' => peer'.length = peer.length /\ peer'.position = peer.position + 1
  <2>1. ASSUME peer' # None
        PROVE  peer' = [peer EXCEPT !.position = peer.position + 1, !.inBlock = @ + 1,
                                    !.waiting = peer.inBlock + 1 = block_size]
    BY <2>1 DEF PeerSendsConsecutive
  <2> QED
    BY <1>2, <2>1 DEF PeerTransfer, Sending
<1>7. Receiving' = Receiving /\ iso_tp_receive' = iso_tp_receive /\ Missing' = Missing
  BY <1>1 DEF Receiving, Missing
<1>8. LengthsAgree'
  BY <1>1, <1>3, <1>4, <1>5, <1>6, <1>7 DEF Whole, LengthsAgree, Continues
<1>9. Spaced'
  <2>1. ASSUME NEW j \in 1..Len(bus')
        PROVE  /\ \A i \in 1..(j - 1) : bus'[j].position >= bus'[i].position + (j - i)
               /\ Sending' => peer'.position > bus'[j].position + (Len(bus') - j)
    <3>1. CASE j \in 1..Len(bus) /\ bus'[j] = bus[j]
      <4>1. /\ \A i \in 1..(j - 1) : bus[j].position >= bus[i].position + (j - i)
            /\ peer.position > bus[j].position + (Len(bus) - j)
        BY <1>1, <1>5, <3>1 DEF Whole, Spaced
      <4>2. Sending' => peer'.position > bus'[j].position + (Len(bus') - j)
        <5>1. bus[j].position \in Nat /\ j \in Nat
          BY <1>4, <3>1
        <5> QED
          BY <1>2, <1>4, <1>6, <3>1, <4>1, <5>1
      <4>3. \A i \in 1..(j - 1) : bus'[i] = bus[i]
        BY <1>4
      <4> QED
        BY <3>1, <4>1, <4>2, <4>3
    <3>2. CASE j = Len(bus) + 1 /\ bus'[j] = frame
      <4>1. ASSUME NEW i \in 1..(j - 1)
            PROVE  frame.position >= bus'[i].position + (j - i)
        <5>1. i \in 1..Len(bus) /\ bus'[i] = bus[i] /\ bus[i].position \in Nat /\ i \in Nat
          BY <1>4
        <5>2. peer.position > bus[i].position + (Len(bus) - i)
          BY <1>1, <1>5, <5>1 DEF Whole, Spaced
        <5> QED
          BY <1>2, <1>3, <1>4, <3>2, <5>1, <5>2
      <4>2. Sending' => peer'.position > frame.position + (Len(bus') - j)
        BY <1>2, <1>3, <1>4, <1>6, <3>2
      <4> QED
        BY <3>2, <4>1, <4>2
    <3> QED
      BY <1>4, <3>1, <3>2
  <2> QED
    BY <1>1, <2>1 DEF Spaced
<1>10. Reaches'
  <2> SUFFICES ASSUME Receiving PROVE Reaches'
    BY <1>7 DEF Reaches
  <2>1. /\ iso_tp_receive.got \in Nat /\ Missing \in Nat /\ iso_tp_receive.length = peer.length
        /\ peer.position > iso_tp_receive.got + Len(bus) + Missing
    BY <1>1, <1>5 DEF Whole, LengthsAgree, Reaches, CInv, Numbered, TransfersNumbered, Transfer, Missing
  <2>2. ASSUME NEW i \in 1..Len(bus')
        PROVE  /\ bus'[i].position >= iso_tp_receive.got + i + Missing
               /\ bus'[i].position <= iso_tp_receive.length
    <3>1. CASE i \in 1..Len(bus) /\ bus'[i] = bus[i]
      BY <1>5, <3>1 DEF Whole, Reaches
    <3>2. CASE i = Len(bus) + 1 /\ bus'[i] = frame
      BY <1>2, <1>3, <1>4, <2>1, <3>2
    <3> QED
      BY <1>4, <3>1, <3>2
  <2>3. Sending' => peer'.position > iso_tp_receive.got + Len(bus') + Missing
    BY <1>2, <1>4, <1>6, <2>1
  <2> QED
    BY <1>7, <2>2, <2>3 DEF Reaches
<1> QED
  BY <1>1, <1>8, <1>9, <1>10 DEF Whole

LEMMA StepKeepsWhole ==
  ASSUME CInv, Ordered, Whole, [Next]_vars
  PROVE  Whole'
<1>0. started \in Nat /\ Lengths \subseteq Nat
  BY ReceiveAssumption DEF CInv, Numbered, TransfersNumbered
<1>1. CASE UNCHANGED vars \/ BeginRead \/ ReadTimeout \/ PeerTakesFlowControl \/ PeerGivesUp
  <2>1. UNCHANGED <<iso_tp_receive, payload, bus, started>>
    BY <1>1 DEF vars, hostVars, peerVars, BeginRead, ReadTimeout, PeerTakesFlowControl, PeerGivesUp
  <2>2. Sending' => Sending /\ peer'.length = peer.length /\ peer'.position = peer.position
    <3>1. CASE PeerTakesFlowControl /\ Sending /\ peer.waiting
      <4>1. peer' = [peer EXCEPT !.waiting = FALSE, !.inBlock = 0] /\ peer \in PeerTransfer
        BY <3>1 DEF PeerTakesFlowControl, Sending, CInv, Numbered, TransfersNumbered
      <4> QED
        BY <3>1, <4>1 DEF PeerTransfer
    <3>2. CASE peer' = peer \/ peer' = None
      BY <3>2 DEF Sending
    <3> QED
      BY <1>1, <3>1, <3>2 DEF vars, peerVars, BeginRead, ReadTimeout, PeerTakesFlowControl, PeerGivesUp,
                             Sending
  <2>3. Receiving' = Receiving /\ Missing' = Missing
    BY <2>1 DEF Receiving, Missing
  <2> QED
    BY <2>1, <2>2, <2>3 DEF Whole, LengthsAgree, Spaced, Reaches, Continues
<1>2. CASE BeginRequest
  <2>1. bus' = <<>> /\ iso_tp_receive' = None /\ UNCHANGED payload
    BY <1>2 DEF BeginRequest
  <2> QED
    BY <2>1 DEF Whole, LengthsAgree, Spaced, Reaches, Receiving
<1>3. CASE LoseFrame
  <2>1. /\ UNCHANGED <<iso_tp_receive, payload, peer, started>>
        /\ Len(bus) \in Nat /\ Len(bus') = Len(bus) - 1
        /\ \A i \in 1..Len(bus') : /\ i \in 1..Len(bus) /\ bus'[i] = bus[i]
                                   /\ bus[i].position \in Nat
                                   /\ \A j \in 1..(i - 1) : j \in 1..Len(bus')
    BY <1>3, ShorterBus DEF hostVars, FrameType
  <2>2. Receiving' = Receiving /\ Missing' = Missing /\ Missing \in Nat
    BY <2>1 DEF Receiving, Missing
  <2>3. LengthsAgree'
    BY <2>1, <2>2 DEF Whole, LengthsAgree, Sending
  <2>4. Spaced'
    <3>1. ASSUME NEW j \in 1..Len(bus'), Continues(bus'[j])
          PROVE  /\ \A i \in 1..(j - 1) : bus'[j].position >= bus'[i].position + (j - i)
                 /\ Sending /\ bus'[j].n = started => peer.position > bus'[j].position + (Len(bus') - j)
      <4>1. /\ \A i \in 1..(j - 1) : bus[j].position >= bus[i].position + (j - i)
            /\ Sending /\ bus[j].n = started => peer.position > bus[j].position + (Len(bus) - j)
        BY <2>1, <3>1 DEF Whole, Spaced
      <4>2. \A i \in 1..(j - 1) : bus'[i] = bus[i]
        BY <2>1
      <4>3. ASSUME Sending, bus[j].n = started
            PROVE  peer.position > bus[j].position + (Len(bus') - j)
        <5>1. peer.position \in Nat /\ bus[j].position \in Nat /\ j \in Nat
          BY <2>1, <4>3 DEF CInv, Numbered, TransfersNumbered, PeerTransfer
        <5> QED
          BY <2>1, <4>1, <4>3, <5>1
      <4> QED
        BY <2>1, <4>1, <4>2, <4>3
    <3> QED
      BY <2>1, <3>1 DEF Spaced, Sending
  <2>5. Reaches'
    <3>1. ASSUME Receiving, Sending, iso_tp_receive.n = started
          PROVE  peer.position > iso_tp_receive.got + Len(bus') + Missing
      <4>1. peer.position > iso_tp_receive.got + Len(bus) + Missing
        BY <3>1 DEF Whole, Reaches
      <4>2. peer.position \in Nat /\ iso_tp_receive.got \in Nat
        BY <3>1 DEF CInv, Numbered, TransfersNumbered, PeerTransfer, Transfer
      <4> QED
        BY <2>1, <2>2, <4>1, <4>2
    <3> QED
      BY <2>1, <2>2, <3>1 DEF Whole, Reaches, Sending
  <2> QED
    BY <2>1, <2>3, <2>4, <2>5 DEF Whole
<1>4. CASE PeerSendsSingle
  <2> DEFINE frame == Frame("single", started + 1, 0)
  <2>1. frame \in FrameType
    BY <1>0, FrameTypes
  <2>2. Begins(frame)
    BY DEF Frame, Begins
  <2>3. bus' = Append(bus, frame) /\ started' = started + 1 /\ peer' = None
        /\ UNCHANGED <<iso_tp_receive, payload>>
    BY <1>4 DEF PeerSendsSingle, hostVars
  <2> QED
    BY <2>1, <2>2, <2>3, BeginningKeepsWhole
<1>5. CASE PeerSendsFirst
  <2>1. PICK length \in Lengths \ {0} :
          /\ peer' = [length |-> length, position |-> 1, inBlock |-> 0, waiting |-> TRUE]
          /\ bus' = Append(bus, Frame("first", started', length))
    BY <1>5 DEF PeerSendsFirst
  <2> DEFINE frame == Frame("first", started + 1, length)
  <2>2. frame \in FrameType
    BY <1>0, FrameTypes
  <2>3. Begins(frame) /\ frame.length = length
    BY DEF Frame, Begins
  <2>4. bus' = Append(bus, frame) /\ started' = started + 1 /\ peer'.length = length
        /\ UNCHANGED <<iso_tp_receive, payload>>
    BY <1>5, <2>1 DEF PeerSendsFirst, hostVars
  <2> QED
    BY <2>2, <2>3, <2>4, BeginningKeepsWhole
<1> QED
  BY <1>1, <1>2, <1>3, <1>4, <1>5, ReceiveKeepsWhole, ConsecutiveSentKeepsWhole DEF Next, Host, Peer
-----------------------------------------------------------------------------
-----------------------------------------------------------------------------
LEMMA InitOInv == Init => OInv
<1> SUFFICES ASSUME Init PROVE OInv
  OBVIOUS
<1>1. bus = <<>> /\ iso_tp_receive = None /\ peer = None /\ payload.n = 0 /\ payload.whole
  BY DEF Init
<1>2. Len(bus) = 0
  BY <1>1
<1>3. Ordered
  BY <1>1, <1>2 DEF Ordered, NewOnesBegin, NotYetRead, OldOnesContinue, ContinuesBegun, MayContinue,
                    Receiving, Sending
<1>4. Whole
  BY <1>1, <1>2 DEF Whole, LengthsAgree, Spaced, Reaches, Receiving, Sending
<1> QED
  BY <1>3, <1>4, InitCInv DEF OInv

\* The peer, once misled, stays so.
LEMMA StaysMisled ==
  ASSUME CInv, [Next]_vars, ~misled'
  PROVE  ~misled
<1>1. CASE Receive
  BY <1>1 DEF Receive, Take, TakeSingleFrame, TakeFirstFrame, TakeUnexpectedFrame, TakePanics,
              TakeLastFrame, TakeConsecutiveFrame
<1>2. CASE Peer
  BY <1>2 DEF Peer, PeerSendsSingle, PeerSendsFirst, PeerSendsConsecutive, PeerTakesFlowControl,
              PeerGivesUp
<1>3. CASE UNCHANGED vars \/ BeginRequest \/ BeginRead \/ ReadTimeout \/ LoseFrame
  BY <1>3 DEF vars, BeginRequest, BeginRead, ReadTimeout, LoseFrame
<1> QED
  BY <1>1, <1>2, <1>3 DEF Next, Host

LEMMA OInvStep == OInv /\ [Next]_vars => OInv'
BY CInvStep, StaysMisled, StepKeepsOrder, StepKeepsWhole DEF OInv

(* A payload read_iso15765_packets hands over has all its data in place,   *)
(* whatever was lost, abandoned or asked for again, unless the peer took a *)
(* flow control for one it had given up.                                   *)
THEOREM PayloadsAreWhole == Spec => []PayloadsWhole
<1>1. OInv => PayloadsWhole
  BY DEF OInv, Whole, PayloadsWhole
<1> QED
  BY <1>1, InitOInv, OInvStep, PTL DEF Spec

LEMMA ChannelStep ==
  ASSUME OInv, [Next]_vars, ~misled'
  PROVE  Channel!Next \/ UNCHANGED <<started, payload.n>>
<1>0. /\ CInv /\ Ordered /\ payload.n \in Nat /\ started \in Nat
      /\ payload.n <= started
  BY StaysMisled DEF OInv, CInv, Numbered, TransfersNumbered
<1>1. CASE TakeSingleFrame
  <2>1. /\ Take("single") /\ payload'.n = bus[1].n
    BY <1>0, <1>1, RestOfBus DEF TakeSingleFrame, Return
  <2>2. bus[1].n \in Nat /\ bus[1].n <= started /\ UNCHANGED started /\ payload.n < bus[1].n
    BY <1>0, <2>1, RestOfBus, OrderBehindBeginning
  <2> QED
    BY <1>0, <2>1, <2>2 DEF Channel!Next, Channel!Deliver
<1>2. CASE TakeLastFrame
  <2>1. /\ Take("consecutive") /\ Receiving /\ payload'.n = Extended.n
    BY <1>2 DEF TakeLastFrame, Return, InSequence, Receiving
  <2>2. payload'.n = iso_tp_receive.n
    BY <1>0, <2>1, ExtendedParts
  <2>3. Continues(bus[1]) /\ 1 \in 1..Len(bus) /\ UNCHANGED started
    BY <1>0, <2>1, RestOfBus DEF Continues
  <2>4. payload.n <= bus[1].n /\ iso_tp_receive.n = bus[1].n /\ iso_tp_receive.n # payload.n
    BY <1>0, <2>1, <2>3 DEF Ordered, OldOnesContinue, Begun, NotYetRead
  <2>5. iso_tp_receive.n \in 1..started
    BY <1>0, <2>1 DEF CInv, Numbered, TransfersNumbered
  <2> QED
    BY <1>0, <2>2, <2>3, <2>4, <2>5 DEF Channel!Next, Channel!Deliver
<1>3. CASE PeerSendsSingle \/ PeerSendsFirst
  BY <1>3 DEF PeerSendsSingle, PeerSendsFirst, hostVars, Channel!Next, Channel!Send
<1>4. CASE TakeFirstFrame \/ TakeUnexpectedFrame \/ TakePanics \/ TakeConsecutiveFrame
  BY <1>4 DEF TakeFirstFrame, TakeUnexpectedFrame, TakePanics, TakeConsecutiveFrame, Take, peerVars
<1>5. CASE \/ UNCHANGED vars \/ BeginRequest \/ BeginRead \/ ReadTimeout \/ LoseFrame
           \/ PeerSendsConsecutive \/ PeerTakesFlowControl \/ PeerGivesUp
  BY <1>5 DEF vars, hostVars, peerVars, BeginRequest, BeginRead, ReadTimeout, LoseFrame,
              PeerSendsConsecutive, PeerTakesFlowControl, PeerGivesUp
<1> QED
  BY <1>1, <1>2, <1>3, <1>4, <1>5 DEF Next, Host, Receive, Peer

(* Short of a misled peer reception implements PayloadChannel: payloads    *)
(* are read in the order they were sent, and none twice.                   *)
THEOREM ImplementsPayloadChannel == Spec => PayloadsInOrder
<1>1. Init => Channel!Init
  BY DEF Init, Channel!Init
<1>2. OInv /\ [Next]_vars => [~misled' => Channel!Next]_<<started, payload.n>>
  BY ChannelStep
<1> QED
  BY <1>1, <1>2, InitOInv, OInvStep, PTL DEF Spec, PayloadsInOrder
-----------------------------------------------------------------------------
(* Host and peer do not wait for each other.                               *)

LEMMA Division ==
  ASSUME NEW a \in Nat, NEW m \in Nat \ {0}
  PROVE  a = m * (a \div m) + (a % m) /\ a \div m \in Nat /\ a % m \in 0..(m - 1)
<1>1. a = m * (a \div m) + (a % m)
  BY SMT
<1>2. a \div m \in Nat /\ a % m \in 0..(m - 1)
  BY SMT
<1> QED
  BY <1>1, <1>2

LEMMA RemainderIs ==
  ASSUME NEW m \in Nat \ {0}, NEW q \in Nat, NEW r \in 0..(m - 1), NEW a \in Nat, a = m * q + r
  PROVE  a % m = r
OBVIOUS

LEMMA NextRemainder ==
  ASSUME NEW a \in Nat, NEW m \in Nat \ {0}
  PROVE  ((a % m) + 1) % m = (a + 1) % m
<1> DEFINE q == a \div m
           r == a % m
<1>1. q \in Nat /\ r \in 0..(m - 1) /\ a = m * q + r
  BY Division
<1> HIDE DEF q, r
<1>2. CASE r + 1 < m
  <2>1. (r + 1) % m = r + 1
    BY <1>1, <1>2
  <2>2. (a + 1) % m = r + 1
    <3>1. a + 1 = m * q + (r + 1) /\ r + 1 \in 0..(m - 1) /\ a + 1 \in Nat
      BY <1>1, <1>2
    <3> QED
      BY <1>1, <3>1, RemainderIs
  <2> QED
    BY <2>1, <2>2 DEF r
<1>3. CASE r + 1 = m
  <2>1. m % m = 0
    OBVIOUS
  <2>2. (a + 1) % m = 0
    <3>1. a + 1 = m * q + m /\ a + 1 \in Nat
      BY <1>1, <1>3
    <3>2. m * q + m = m * (q + 1)
      BY <1>1
    <3>3. \A p \in Nat : (m * p) % m = 0
      OBVIOUS
    <3> QED
      BY <1>1, <3>1, <3>2, <3>3
  <2> QED
    BY <1>3, <2>1, <2>2 DEF r
<1> QED
  BY <1>1, <1>2, <1>3

\* A block that is not empty and ends where blocks end is full.
LEMMA FullBlock ==
  ASSUME NEW size \in Nat \ {0}, NEW j \in Nat, NEW k \in Nat, NEW count \in Nat,
         0 < count, count <= size, k * size + count = j * size
  PROVE  count = size
OBVIOUS

\* A frame that is not the first of the payload being sent lies before it.
LEMMA FirstStaysUnderway ==
  ASSUME CInv, Sending, NEW i \in 1..Len(bus), i # 1,
         bus[i].pci = "first" /\ bus[i].n = started /\ bus[i].length = peer.length,
         Len(bus) - i = peer.position - 1,
         \A j \in (i + 1)..Len(bus) : bus[j] = ConsecutiveFrame(started, j - i),
         NEW pci, Take(pci)
  PROVE  FirstUnderway' /\ bus' # <<>>
<1>1. /\ Len(bus) \in Nat /\ Len(bus') = Len(bus) - 1 /\ UNCHANGED <<started, peer>>
      /\ \A j \in 1..Len(bus') : bus'[j] = bus[j + 1]
  BY RestOfBus
<1>2. i - 1 \in 1..Len(bus') /\ i \in Nat
  BY <1>1
<1>3. bus'[i - 1] = bus[i]
  BY <1>1, <1>2
<1>4. ASSUME NEW j \in ((i - 1) + 1)..Len(bus')
      PROVE  bus'[j] = ConsecutiveFrame(started, j - (i - 1))
  <2>1. j \in 1..Len(bus') /\ j + 1 \in (i + 1)..Len(bus) /\ (j + 1) - i = j - (i - 1)
    BY <1>1, <1>2
  <2> QED
    BY <1>1, <2>1
<1>5. Len(bus') - (i - 1) = peer.position - 1
  BY <1>1, <1>2
<1>6. Len(bus') > 0
  BY <1>1, <1>2
<1>7. bus' # <<>>
  BY <1>6
<1> DEFINE h == i - 1
<1>8. /\ h \in 1..Len(bus') /\ bus'[h].pci = "first" /\ bus'[h].n = started
      /\ bus'[h].length = peer.length /\ Len(bus') - h = peer.position - 1
      /\ \A j \in (h + 1)..Len(bus') : bus'[j] = ConsecutiveFrame(started, j - h)
  BY <1>2, <1>3, <1>4, <1>5
<1> HIDE DEF h
<1> QED
  BY <1>1, <1>7, <1>8 DEF FirstUnderway

\* What the host has the beginning of goes on in sequence.
LEMMA TakenGoesOn ==
  ASSUME CInv, Sending, Taken, NEW pci, Take(pci)
  PROVE  /\ pci = "consecutive" /\ InSequence /\ Receiving
         /\ iso_tp_receive.got \in Nat /\ peer.position \in Nat /\ peer.length \in Nat
         /\ Len(bus) = peer.position - 1 - iso_tp_receive.got /\ Len(bus) \in Nat /\ Len(bus) > 0
         /\ peer.position <= peer.length
         /\ Len(bus') = peer.position - 1 - (iso_tp_receive.got + 1)
         /\ \A j \in 1..Len(bus') :
              bus'[j] = ConsecutiveFrame(started, (iso_tp_receive.got + 1) + j)
<1>1. /\ Len(bus) \in Nat /\ Len(bus') = Len(bus) - 1 /\ 1 \in 1..Len(bus)
      /\ bus[1] = Head(bus) /\ bus[1].pci = pci
      /\ \A i \in 1..Len(bus') : i + 1 \in 1..Len(bus) /\ bus'[i] = bus[i + 1]
  BY RestOfBus
<1>2. /\ Receiving /\ Len(bus) = peer.position - 1 - iso_tp_receive.got
      /\ iso_tp_receive.next_sequence = (iso_tp_receive.got + 1) % SeqModulus
      /\ \A j \in 1..Len(bus) : bus[j] = ConsecutiveFrame(started, iso_tp_receive.got + j)
  BY DEF Taken
<1>3. /\ iso_tp_receive.got \in Nat /\ peer.position \in Nat /\ peer.length \in Nat
      /\ peer.position <= peer.length
  <2>1. iso_tp_receive \in Transfer /\ peer \in PeerTransfer /\ peer.position \in 1..peer.length
    BY <1>2 DEF CInv, TypeOK, Numbered, TransfersNumbered, Sending
  <2> QED
    BY <2>1 DEF Transfer, PeerTransfer
<1>4. bus[1] = ConsecutiveFrame(started, iso_tp_receive.got + 1)
  BY <1>1, <1>2
<1>5. pci = "consecutive" /\ Head(bus).seq = iso_tp_receive.next_sequence
  BY <1>1, <1>2, <1>4 DEF ConsecutiveFrame
<1>6. ASSUME NEW j \in 1..Len(bus')
      PROVE  bus'[j] = ConsecutiveFrame(started, (iso_tp_receive.got + 1) + j)
  <2>1. iso_tp_receive.got + (j + 1) = (iso_tp_receive.got + 1) + j
    BY <1>3
  <2> QED
    BY <1>1, <1>2, <2>1
<1>7. InSequence
  BY <1>2, <1>5 DEF InSequence, Receiving
<1>8. Len(bus) > 0 /\ Len(bus') = peer.position - 1 - (iso_tp_receive.got + 1)
  BY <1>1, <1>2, <1>3
<1> QED
  BY <1>1, <1>2, <1>3, <1>5, <1>6, <1>7, <1>8

\* When the host has everything a waiting peer sent, it has a full block.
LEMMA BlockEnds ==
  ASSUME CInv, PeerBlocks, HostBlocks, Sending, peer.waiting, Receiving,
         iso_tp_receive.got + 1 = peer.position - 1
  PROVE  BlockDone(Extended)
<1>1. /\ block_size \in Nat /\ iso_tp_receive \in Transfer /\ peer \in PeerTransfer
      /\ peer.inBlock \in {0, block_size}
  BY ReceiveAssumption DEF CInv, TypeOK, Numbered, TransfersNumbered, PeerBlocks, Sending
<1>2. iso_tp_receive.got \in Nat /\ iso_tp_receive.frames_since_flow_control \in Nat
      /\ peer.position \in Nat
  BY <1>1 DEF Transfer, PeerTransfer
<1>3. PICK k \in Nat : peer.position - 1 = k * block_size + peer.inBlock
  BY DEF PeerBlocks
<1>4. block_size # 0
  BY <1>1, <1>2, <1>3
<1>5. PICK m \in Nat :
        iso_tp_receive.got = m * block_size + iso_tp_receive.frames_since_flow_control
  BY <1>4 DEF HostBlocks
<1>6. PICK j \in Nat : peer.position - 1 = j * block_size
  <2>1. CASE peer.inBlock = 0
    BY <1>1, <1>3, <2>1
  <2>2. CASE peer.inBlock = block_size
    <3>1. k * block_size + block_size = (k + 1) * block_size /\ k + 1 \in Nat
      BY <1>1
    <3> QED
      BY <1>3, <2>2, <3>1
  <2> QED
    BY <1>1, <2>1, <2>2
<1> DEFINE count == iso_tp_receive.frames_since_flow_control + 1
<1>7. Extended.frames_since_flow_control = iso_tp_receive.frames_since_flow_control + 1
  BY <1>4, CountFits
<1>8. /\ count \in Nat /\ 0 < count /\ count <= block_size
      /\ m * block_size + count = j * block_size
  <2>1. iso_tp_receive.frames_since_flow_control < block_size
    BY <1>4 DEF CInv, BlockCounted
  <2> QED
    BY <1>1, <1>2, <1>5, <1>6, <2>1
<1>9. Extended.frames_since_flow_control = count
  BY <1>7
<1> HIDE DEF count
<1>10. count = block_size
  BY <1>1, <1>4, <1>8, FullBlock
<1> QED
  BY <1>1, <1>4, <1>9, <1>10 DEF BlockDone

LEMMA ReceiveDoesNotWait ==
  ASSUME WInv, Receive
  PROVE  Tracked' /\ NobodyWaits'
<1>0. CInv /\ PeerBlocks /\ HostBlocks /\ host = "reading"
  BY DEF WInv, Receive, Take, TakeSingleFrame, TakeFirstFrame, TakeUnexpectedFrame, TakePanics,
         TakeLastFrame, TakeConsecutiveFrame
<1>1. PICK pci : Take(pci)
  BY DEF Receive, TakeSingleFrame, TakeFirstFrame, TakeUnexpectedFrame, TakePanics,
         TakeLastFrame, TakeConsecutiveFrame
<1>2. /\ UNCHANGED <<block_size, peer, started>> /\ Head(bus) = bus[1] /\ bus[1].pci = pci
      /\ 1 \in 1..Len(bus) /\ bus[1] \in FrameType /\ bus[1].n \in 1..started
      /\ Len(bus) \in Nat /\ Len(bus') = Len(bus) - 1
      /\ \A i \in 1..Len(bus') : i + 1 \in 1..Len(bus) /\ bus'[i] = bus[i + 1]
      /\ pci = "first" => bus[1].length \in Lengths \ {0}
  BY <1>0, <1>1, RestOfBus DEF CInv, Numbered, BusNumbered
<1>3. TakeFirstFrame /\ ~upset' => ~upset /\ flowControls' # <<>>
  BY <1>0, <1>2, AnswerFlow DEF TakeFirstFrame, CInv
<1>4. /\ TakeConsecutiveFrame => Extended.n \in 1..started
      /\ TakeConsecutiveFrame /\ BlockDone(Extended) /\ ~upset' => ~upset /\ flowControls' # <<>>
      /\ TakeConsecutiveFrame /\ ~BlockDone(Extended) => upset' = upset
  <2>1. TakeConsecutiveFrame => Extended.n \in 1..started
    BY <1>0, ExtendedParts, StaysProceeding DEF TakeConsecutiveFrame, InSequence, Receiving, Proceeding
  <2>2. TakeConsecutiveFrame /\ BlockDone(Extended) => SendFlowControl(Extended.n)
    BY DEF TakeConsecutiveFrame
  <2>3. TakeConsecutiveFrame /\ ~BlockDone(Extended) => upset' = upset
    BY DEF TakeConsecutiveFrame
  <2> QED
    BY <1>0, <2>1, <2>2, <2>3, AnswerFlow DEF CInv
<1>5. ~upset' => ~upset
  BY <1>3, <1>4 DEF Receive, TakeSingleFrame, TakeUnexpectedFrame, TakePanics, TakeLastFrame
<1> SUFFICES ASSUME ~upset', Sending
             PROVE  /\ host' # "panicked" \/ peer.waiting => FirstUnderway' \/ Taken'
                    /\ peer.waiting => bus' # <<>> \/ flowControls' # <<>>
  BY <1>2 DEF Tracked, NobodyWaits, Sending
<1>6. FirstUnderway \/ Taken
  BY <1>0, <1>5 DEF WInv, Tracked
<1>7. CASE FirstUnderway
  <2>1. PICK i \in 1..Len(bus) :
          /\ bus[i].pci = "first" /\ bus[i].n = started /\ bus[i].length = peer.length
          /\ Len(bus) - i = peer.position - 1
          /\ \A j \in (i + 1)..Len(bus) : bus[j] = ConsecutiveFrame(started, j - i)
    BY <1>7 DEF FirstUnderway
  <2>2. CASE i # 1
    BY <1>0, <1>1, <2>1, <2>2, FirstStaysUnderway
  <2>3. CASE i = 1
    <3>1. TakeFirstFrame
      BY <1>2, <2>1, <2>3 DEF Receive, Take, TakeSingleFrame, TakeUnexpectedFrame, TakePanics,
                              TakeLastFrame, TakeConsecutiveFrame
    <3>2. iso_tp_receive' = FirstFrame(bus[1]) /\ bus[1].length # 0
      BY <1>2, <2>1, <2>3, <3>1 DEF TakeFirstFrame
    <3>3. /\ iso_tp_receive'.n = started /\ iso_tp_receive'.length = peer.length
          /\ iso_tp_receive'.got = 0 /\ iso_tp_receive'.next_sequence = 1 /\ Receiving'
      BY <1>2, <2>1, <2>3, <3>2, FirstFrameParts, SomeTransfer DEF Receiving
    <3>4. (0 + 1) % SeqModulus = 1
      BY ReceiveAssumption
    <3>5. Len(bus') = peer.position - 1 - 0
      BY <1>2, <2>1, <2>3
    <3>6. ASSUME NEW j \in 1..Len(bus')
          PROVE  bus'[j] = ConsecutiveFrame(started, 0 + j)
      <4>1. j + 1 \in (1 + 1)..Len(bus) /\ (j + 1) - 1 = 0 + j
        BY <1>2
      <4> QED
        BY <1>2, <2>1, <2>3, <4>1
    <3>7. Taken'
      BY <1>2, <3>3, <3>4, <3>5, <3>6 DEF Taken
    <3> QED
      BY <1>3, <3>1, <3>7
  <2> QED
    BY <2>2, <2>3
<1>8. CASE Taken
  <2>1. /\ pci = "consecutive" /\ InSequence /\ Receiving
        /\ iso_tp_receive.got \in Nat /\ peer.position \in Nat /\ peer.length \in Nat
        /\ Len(bus) = peer.position - 1 - iso_tp_receive.got /\ Len(bus) > 0
        /\ peer.position <= peer.length
        /\ Len(bus') = peer.position - 1 - (iso_tp_receive.got + 1)
        /\ \A j \in 1..Len(bus') :
             bus'[j] = ConsecutiveFrame(started, (iso_tp_receive.got + 1) + j)
    BY <1>0, <1>1, <1>8, TakenGoesOn
  <2>2. TakePanics \/ TakeLastFrame \/ TakeConsecutiveFrame
    BY <1>2, <2>1 DEF Receive, Take, TakeSingleFrame, TakeFirstFrame, TakeUnexpectedFrame
  <2>3. /\ iso_tp_receive.n = started /\ iso_tp_receive.length = peer.length
        /\ iso_tp_receive.next_sequence = (iso_tp_receive.got + 1) % SeqModulus
    BY <1>8 DEF Taken
  <2>4. CASE TakePanics
    <3>1. host' = "panicked" /\ iso_tp_receive.frames_since_flow_control + 1 = CounterLimit
      BY <2>4 DEF TakePanics
    <3>2. block_size = 0
      BY <1>0, <2>1, <3>1, CountFits, ReceiveAssumption
    <3>3. ~peer.waiting
      <4>1. SUFFICES ASSUME peer.waiting PROVE FALSE
        OBVIOUS
      <4>2. PICK k \in Nat : peer.position - 1 = k * block_size + peer.inBlock
        BY <1>0 DEF PeerBlocks
      <4>3. peer.inBlock = 0
        BY <1>0, <3>2, <4>1 DEF PeerBlocks
      <4>4. k * block_size = 0
        BY <3>2
      <4>5. peer.position - 1 = 0
        BY <2>1, <4>2, <4>3, <4>4
      <4> QED
        BY <2>1, <4>5
    <3> QED
      BY <3>1, <3>3
  <2>5. CASE TakeLastFrame
    <3>1. iso_tp_receive.got + 1 = iso_tp_receive.length
      BY <1>0, <2>1, <2>5, ExtendedParts DEF TakeLastFrame
    <3> QED
      BY <2>1, <2>3, <3>1
  <2>6. CASE TakeConsecutiveFrame
    <3> DEFINE reset == [Extended EXCEPT !.frames_since_flow_control = 0]
    <3>1. /\ Extended.got # Extended.length /\ Extended \in Transfer
          /\ Extended.n = started /\ Extended.length = peer.length
          /\ Extended.got = iso_tp_receive.got + 1
          /\ Extended.next_sequence = (iso_tp_receive.next_sequence + 1) % SeqModulus
      BY <1>0, <2>1, <2>3, <2>6, ExtendedParts DEF TakeConsecutiveFrame
    <3>2. /\ reset.n = Extended.n /\ reset.length = Extended.length /\ reset.got = Extended.got
          /\ reset.next_sequence = Extended.next_sequence
      BY <3>1 DEF Transfer
    <3>3. iso_tp_receive' = IF BlockDone(Extended) THEN reset ELSE Extended
      BY <2>6 DEF TakeConsecutiveFrame
    <3>4. Receiving'
      BY <1>0, <2>1, <3>1, <3>3, NextFrame, ProceedingParts DEF Receiving
    <3> HIDE DEF reset
    <3>5. /\ iso_tp_receive'.n = started /\ iso_tp_receive'.length = peer.length
          /\ iso_tp_receive'.got = iso_tp_receive.got + 1
          /\ iso_tp_receive'.next_sequence = Extended.next_sequence
      BY <3>1, <3>2, <3>3
    <3>6. Extended.next_sequence = ((iso_tp_receive.got + 1) + 1) % SeqModulus
      <4>1. iso_tp_receive.got + 1 \in Nat /\ SeqModulus \in Nat \ {0}
        BY <2>1, ReceiveAssumption
      <4> QED
        BY <2>3, <3>1, <4>1, NextRemainder
    <3>7. Taken'
      BY <1>2, <2>1, <3>4, <3>5, <3>6 DEF Taken
    <3>8. ASSUME peer.waiting, bus' = <<>>
          PROVE  flowControls' # <<>>
      <4>1. iso_tp_receive.got + 1 = peer.position - 1
        <5>1. Len(bus') = 0
          BY <3>8
        <5> QED
          BY <2>1, <5>1
      <4> QED
        BY <1>0, <1>4, <2>1, <2>6, <3>8, <4>1, BlockEnds
    <3> QED
      BY <3>7, <3>8
  <2> QED
    BY <2>2, <2>4, <2>5, <2>6
<1> QED
  BY <1>6, <1>7, <1>8

LEMMA PeerDoesNotWait ==
  ASSUME WInv, Peer \/ LoseFrame
  PROVE  Tracked' /\ NobodyWaits'
<1>0. /\ CInv /\ started \in Nat /\ SeqModulus \in Nat \ {0} /\ Lengths \subseteq Nat
      /\ Sending => peer \in PeerTransfer
  BY ReceiveAssumption DEF WInv, CInv, Numbered, TransfersNumbered
<1>1. CASE PeerSendsSingle
  BY <1>1 DEF PeerSendsSingle, Tracked, NobodyWaits, Sending
<1>2. CASE PeerSendsFirst
  <2>1. PICK length \in Lengths \ {0} :
          /\ peer' = [length |-> length, position |-> 1, inBlock |-> 0, waiting |-> TRUE]
          /\ bus' = Append(bus, Frame("first", started', length))
    BY <1>2 DEF PeerSendsFirst
  <2> DEFINE frame == Frame("first", started', length)
  <2>2. frame \in FrameType
    <3>1. started' \in Nat /\ length \in Nat
      BY <1>0, <1>2, <2>1 DEF PeerSendsFirst
    <3> QED
      BY <3>1, FrameTypes
  <2>3. frame.pci = "first" /\ frame.n = started' /\ frame.length = length
    BY DEF Frame
  <2> HIDE DEF frame
  <2>4. Len(bus) \in Nat /\ Len(bus') = Len(bus) + 1 /\ bus'[Len(bus) + 1] = frame /\ bus' # <<>>
    BY <1>0, <2>1, <2>2, SendFrame, AppendProperties DEF frame, CInv, Numbered, BusNumbered
  <2> DEFINE i == Len(bus) + 1
  <2>5. i \in 1..Len(bus') /\ Len(bus') - i = 1 - 1 /\ (i + 1)..Len(bus') = {}
    BY <2>4
  <2>6. FirstUnderway'
    BY <2>1, <2>3, <2>4, <2>5 DEF FirstUnderway
  <2> QED
    BY <2>4, <2>6 DEF Tracked, NobodyWaits
<1>3. CASE PeerSendsConsecutive
  <2> DEFINE frame == ConsecutiveFrame(started, peer.position)
  <2>1. /\ Sending /\ ~peer.waiting /\ bus' = Append(bus, frame)
        /\ UNCHANGED <<block_size, host, iso_tp_receive, started, upset>>
    BY <1>3 DEF PeerSendsConsecutive, hostVars, Sending
  <2>2. peer \in PeerTransfer /\ peer.position \in Nat /\ peer.inBlock \in Nat /\ frame \in FrameType
    BY <1>0, <2>1, FrameTypes DEF PeerTransfer
  <2> HIDE DEF frame
  <2>3. /\ Len(bus) \in Nat /\ Len(bus') = Len(bus) + 1 /\ bus'[Len(bus) + 1] = frame
        /\ \A i \in 1..Len(bus) : bus'[i] = bus[i]
        /\ bus' # <<>>
    BY <1>0, <2>1, <2>2, SendFrame, AppendProperties DEF CInv, Numbered, BusNumbered
  <2>4. Sending' => /\ peer'.length = peer.length /\ peer'.position = peer.position + 1
                    /\ peer'.waiting = (peer.inBlock + 1 = block_size)
    <3> DEFINE waits == peer.inBlock + 1 = block_size
    <3>0. waits \in BOOLEAN
      OBVIOUS
    <3>1. Sending' => peer' = [peer EXCEPT !.position = peer.position + 1,
                                           !.inBlock = peer.inBlock + 1, !.waiting = waits]
      BY <1>3 DEF PeerSendsConsecutive, Sending
    <3> HIDE DEF waits
    <3>2. Sending' => /\ peer'.length = peer.length /\ peer'.position = peer.position + 1
                      /\ peer'.waiting = waits
      BY <2>2, <3>1 DEF PeerTransfer
    <3> QED
      BY <3>2 DEF waits
  <2>5. ASSUME ~upset, Sending', host # "panicked" \/ peer'.waiting
        PROVE  FirstUnderway' \/ Taken'
    <3>1. host # "panicked"
      <4>1. host = "panicked" => block_size = 0
        BY <1>0 DEF CInv, PanicsOnlyUnbounded
      <4>2. block_size = 0 => peer.inBlock + 1 # block_size
        BY <2>2
      <4>3. peer'.waiting => peer.inBlock + 1 = block_size
        BY <2>4, <2>5
      <4> QED
        BY <2>5, <4>1, <4>2, <4>3
    <3>2. FirstUnderway \/ Taken
      BY <2>1, <2>5, <3>1 DEF WInv, Tracked
    <3>3. CASE FirstUnderway
      <4>1. PICK i \in 1..Len(bus) :
              /\ bus[i].pci = "first" /\ bus[i].n = started /\ bus[i].length = peer.length
              /\ Len(bus) - i = peer.position - 1
              /\ \A j \in (i + 1)..Len(bus) : bus[j] = ConsecutiveFrame(started, j - i)
        BY <3>3 DEF FirstUnderway
      <4>2. i \in 1..Len(bus') /\ bus'[i] = bus[i] /\ Len(bus') - i = peer'.position - 1
        BY <2>2, <2>3, <2>4, <2>5, <4>1
      <4>3. ASSUME NEW j \in (i + 1)..Len(bus')
            PROVE  bus'[j] = ConsecutiveFrame(started, j - i)
        <5>1. CASE j \in (i + 1)..Len(bus)
          <6>1. j \in 1..Len(bus)
            BY <2>3, <5>1
          <6> QED
            BY <2>3, <4>1, <5>1, <6>1
        <5>2. CASE j = Len(bus) + 1
          <6>1. j - i = peer.position
            BY <2>2, <2>3, <4>1, <5>2
          <6> QED
            BY <2>3, <5>2, <6>1 DEF frame
        <5> QED
          BY <2>3, <5>1, <5>2
      <4>4. FirstUnderway'
        BY <2>1, <2>4, <2>5, <4>1, <4>2, <4>3 DEF FirstUnderway
      <4> QED
        BY <4>4
    <3>4. CASE Taken
      <4>1. /\ Receiving /\ iso_tp_receive.n = started /\ iso_tp_receive.length = peer.length
            /\ iso_tp_receive.next_sequence = (iso_tp_receive.got + 1) % SeqModulus
            /\ Len(bus) = peer.position - 1 - iso_tp_receive.got
            /\ \A j \in 1..Len(bus) : bus[j] = ConsecutiveFrame(started, iso_tp_receive.got + j)
        BY <3>4 DEF Taken
      <4>2. iso_tp_receive.got \in Nat
        BY <1>0, <4>1 DEF CInv, Numbered, TransfersNumbered, Transfer
      <4>3. Len(bus') = peer'.position - 1 - iso_tp_receive.got
        BY <2>2, <2>3, <2>4, <2>5, <4>1, <4>2
      <4>4. ASSUME NEW j \in 1..Len(bus')
            PROVE  bus'[j] = ConsecutiveFrame(started, iso_tp_receive.got + j)
        <5>1. CASE j \in 1..Len(bus)
          BY <2>3, <4>1, <5>1
        <5>2. CASE j = Len(bus) + 1
          <6>1. iso_tp_receive.got + j = peer.position
            BY <2>2, <2>3, <4>1, <4>2, <5>2
          <6> QED
            BY <2>3, <5>2, <6>1 DEF frame
        <5> QED
          BY <2>3, <5>1, <5>2
      <4>5. Taken'
        BY <2>1, <2>4, <2>5, <4>1, <4>3, <4>4 DEF Taken, Receiving
      <4> QED
        BY <4>5
    <3> QED
      BY <3>2, <3>3, <3>4
  <2> QED
    BY <2>1, <2>3, <2>5 DEF Tracked, NobodyWaits
<1>4. CASE PeerTakesFlowControl
  <2>1. UNCHANGED <<block_size, host, iso_tp_receive, bus, started, upset>>
    BY <1>4 DEF PeerTakesFlowControl, hostVars
  <2>2. CASE Sending /\ peer.waiting
    <3>1. peer' = [peer EXCEPT !.waiting = FALSE, !.inBlock = 0] /\ peer \in PeerTransfer
      BY <1>0, <1>4, <2>2 DEF PeerTakesFlowControl, Sending
    <3>2. /\ ~peer'.waiting /\ peer'.length = peer.length /\ peer'.position = peer.position
      BY <3>1 DEF PeerTransfer
    <3>3. ~upset => FirstUnderway \/ Taken
      BY <2>2 DEF WInv, Tracked
    <3> QED
      BY <2>1, <3>2, <3>3 DEF Tracked, NobodyWaits, FirstUnderway, Taken, Receiving
  <2>3. CASE ~(Sending /\ peer.waiting)
    <3>1. peer' = peer
      BY <1>4, <2>3 DEF PeerTakesFlowControl, Sending
    <3> QED
      BY <2>1, <2>3, <3>1 DEF WInv, Tracked, NobodyWaits, FirstUnderway, Taken, Receiving, Sending
  <2> QED
    BY <2>2, <2>3
<1>5. CASE PeerGivesUp
  BY <1>5 DEF PeerGivesUp, Tracked, NobodyWaits, Sending
<1>6. CASE LoseFrame
  BY <1>6 DEF LoseFrame, Tracked, NobodyWaits
<1> QED
  BY <1>1, <1>2, <1>3, <1>4, <1>5, <1>6 DEF Peer

\* Both go on counting the same blocks.
LEMMA BlocksGoOn ==
  ASSUME WInv, [Next]_vars
  PROVE  PeerBlocks' /\ HostBlocks'
<1>0. /\ CInv /\ PeerBlocks /\ HostBlocks /\ block_size \in Nat
      /\ Sending => peer \in PeerTransfer
      /\ Receiving => iso_tp_receive \in Transfer
  BY ReceiveAssumption DEF WInv, CInv, TypeOK, Numbered, TransfersNumbered
<1>1. CASE /\ UNCHANGED block_size
           /\ peer' \in {peer, None} /\ iso_tp_receive' \in {iso_tp_receive, None}
  BY <1>0, <1>1 DEF PeerBlocks, HostBlocks, Sending, Receiving
<1>2. CASE TakeFirstFrame
  <2>1. /\ Take("first") /\ iso_tp_receive' = FirstFrame(bus[1])
    BY <1>0, <1>2, RestOfBus DEF TakeFirstFrame
  <2>2. bus[1] \in FrameType /\ UNCHANGED <<peer, block_size>>
    BY <1>0, <2>1, RestOfBus
  <2>3. iso_tp_receive'.got = 0 /\ iso_tp_receive'.frames_since_flow_control = 0
    BY <2>1, <2>2, FirstFrameParts
  <2>4. 0 = 0 * block_size + 0
    BY <1>0
  <2> QED
    BY <1>0, <2>2, <2>3, <2>4 DEF PeerBlocks, HostBlocks, Sending
<1>3. CASE TakeConsecutiveFrame
  <2> DEFINE reset == [Extended EXCEPT !.frames_since_flow_control = 0]
  <2>1. /\ Take("consecutive") /\ Receiving
        /\ iso_tp_receive' = IF BlockDone(Extended) THEN reset ELSE Extended
    BY <1>3 DEF TakeConsecutiveFrame, InSequence, Receiving
  <2>2. UNCHANGED <<peer, block_size>>
    BY <1>0, <2>1, RestOfBus
  <2>3. Extended \in Transfer /\ Extended.got = iso_tp_receive.got + 1
    BY <1>0, <2>1, ExtendedParts
  <2>4. reset.got = Extended.got /\ reset.frames_since_flow_control = 0
    BY <2>3 DEF Transfer
  <2> HIDE DEF reset
  <2>5. ASSUME block_size # 0
        PROVE  \E k \in Nat : iso_tp_receive'.got
                                = k * block_size + iso_tp_receive'.frames_since_flow_control
    <3>1. PICK k \in Nat :
            iso_tp_receive.got = k * block_size + iso_tp_receive.frames_since_flow_control
      BY <1>0, <2>1, <2>5 DEF HostBlocks
    <3>2. /\ Extended.frames_since_flow_control = iso_tp_receive.frames_since_flow_control + 1
          /\ iso_tp_receive.frames_since_flow_control < block_size
      BY <1>0, <2>1, <2>5, CountFits DEF CInv, BlockCounted
    <3>3. iso_tp_receive.frames_since_flow_control \in Nat /\ iso_tp_receive.got \in Nat
      BY <1>0, <2>1 DEF Transfer
    <3>4. CASE BlockDone(Extended)
      <4>1. iso_tp_receive.frames_since_flow_control + 1 = block_size
        BY <1>0, <3>2, <3>3, <3>4 DEF BlockDone
      <4>2. k * block_size + block_size = (k + 1) * block_size /\ k + 1 \in Nat
        BY <1>0
      <4>3. iso_tp_receive.got + 1 = k * block_size + block_size
        BY <1>0, <3>1, <3>3, <4>1
      <4>4. iso_tp_receive.got + 1 = (k + 1) * block_size + 0
        BY <1>0, <4>2, <4>3
      <4> QED
        BY <2>1, <2>3, <2>4, <3>4, <4>2, <4>4
    <3>5. CASE ~BlockDone(Extended)
      <4>1. iso_tp_receive.got + 1
              = k * block_size + (iso_tp_receive.frames_since_flow_control + 1)
        BY <1>0, <3>1, <3>3
      <4>2. iso_tp_receive' = Extended
        BY <2>1, <3>5
      <4> QED
        BY <2>3, <3>2, <4>1, <4>2
    <3> QED
      BY <3>4, <3>5
  <2> QED
    BY <1>0, <2>2, <2>5 DEF PeerBlocks, HostBlocks, Sending
<1>4. CASE PeerSendsFirst
  <2>1. peer'.position = 1 /\ peer'.inBlock = 0 /\ UNCHANGED <<block_size, iso_tp_receive>>
    BY <1>4 DEF PeerSendsFirst, hostVars
  <2>2. 1 - 1 = 0 * block_size + 0
    BY <1>0
  <2> QED
    BY <1>0, <2>1, <2>2 DEF PeerBlocks, HostBlocks, Receiving
<1>5. CASE PeerSendsConsecutive
  <2>1. Sending /\ UNCHANGED <<block_size, iso_tp_receive>>
    BY <1>5 DEF PeerSendsConsecutive, hostVars, Sending
  <2>2. PICK k \in Nat : peer.position - 1 = k * block_size + peer.inBlock
    BY <1>0, <2>1 DEF PeerBlocks
  <2>3. peer \in PeerTransfer /\ peer.position \in Nat /\ peer.inBlock \in Nat
    BY <1>0, <2>1 DEF PeerTransfer
  <2>4. ASSUME Sending'
        PROVE  /\ peer'.position = peer.position + 1 /\ peer'.inBlock = peer.inBlock + 1
               /\ peer'.waiting => peer'.inBlock = block_size
    <3> DEFINE waits == peer.inBlock + 1 = block_size
    <3>1. peer' = [peer EXCEPT !.position = peer.position + 1, !.inBlock = peer.inBlock + 1,
                               !.waiting = waits]
      BY <1>5, <2>4 DEF PeerSendsConsecutive, Sending
    <3>2. waits => peer.inBlock + 1 = block_size
      OBVIOUS
    <3> HIDE DEF waits
    <3>3. /\ peer'.position = peer.position + 1 /\ peer'.inBlock = peer.inBlock + 1
          /\ peer'.waiting = waits
      BY <2>3, <3>1 DEF PeerTransfer
    <3> QED
      BY <3>2, <3>3
  <2>5. (peer.position + 1) - 1 = k * block_size + (peer.inBlock + 1)
    BY <1>0, <2>2, <2>3
  <2> QED
    BY <1>0, <2>1, <2>4, <2>5 DEF PeerBlocks, HostBlocks, Receiving
<1>6. CASE PeerTakesFlowControl /\ Sending /\ peer.waiting
  <2>1. peer' = [peer EXCEPT !.waiting = FALSE, !.inBlock = 0] /\ peer \in PeerTransfer
        /\ UNCHANGED <<block_size, iso_tp_receive>>
    BY <1>0, <1>6 DEF PeerTakesFlowControl, Sending, hostVars
  <2>2. peer'.position = peer.position /\ peer'.inBlock = 0 /\ ~peer'.waiting /\ peer.position \in Nat
    BY <2>1 DEF PeerTransfer
  <2>3. PICK k \in Nat : peer.position - 1 = k * block_size + peer.inBlock
    BY <1>0, <1>6 DEF PeerBlocks
  <2>4. \E j \in Nat : peer.position - 1 = j * block_size + 0
    <3>1. CASE peer.inBlock = 0
      BY <2>3, <3>1
    <3>2. CASE peer.inBlock = block_size
      <4>1. k * block_size + block_size = (k + 1) * block_size + 0 /\ k + 1 \in Nat
        BY <1>0
      <4> QED
        BY <2>3, <3>2, <4>1
    <3> QED
      BY <1>0, <1>6, <3>1, <3>2 DEF PeerBlocks
  <2> QED
    BY <1>0, <2>1, <2>2, <2>4 DEF PeerBlocks, HostBlocks, Receiving
<1>7. CASE UNCHANGED vars \/ BeginRequest \/ BeginRead \/ ReadTimeout
  BY <1>1, <1>7 DEF vars, hostVars, peerVars, BeginRequest, BeginRead, ReadTimeout
<1>8. CASE TakeSingleFrame \/ TakeUnexpectedFrame \/ TakePanics \/ TakeLastFrame
  BY <1>1, <1>8 DEF TakeSingleFrame, TakeUnexpectedFrame, TakePanics, TakeLastFrame, Take, peerVars
<1>9. CASE \/ PeerSendsSingle \/ PeerGivesUp \/ LoseFrame
           \/ PeerTakesFlowControl /\ ~(Sending /\ peer.waiting)
  BY <1>1, <1>9 DEF PeerSendsSingle, PeerGivesUp, LoseFrame, PeerTakesFlowControl, peerVars, hostVars,
                    Sending
<1> QED
  BY <1>2, <1>3, <1>4, <1>5, <1>6, <1>7, <1>8, <1>9 DEF Next, Host, Receive, Peer

LEMMA InitWInv == Init => WInv
<1>1. Init => ~Sending /\ ~Receiving
  BY DEF Init, Sending, Receiving
<1> QED
  BY <1>1, InitCInv DEF WInv, Tracked, PeerBlocks, HostBlocks, NobodyWaits, Sending

LEMMA WInvStep == WInv /\ [Next]_vars => WInv'
<1> SUFFICES ASSUME WInv, [Next]_vars PROVE WInv'
  OBVIOUS
<1>1. CInv' /\ PeerBlocks' /\ HostBlocks'
  BY CInvStep, BlocksGoOn DEF WInv
<1>2. CASE UNCHANGED vars \/ BeginRead \/ ReadTimeout
  <2>1. /\ UNCHANGED <<iso_tp_receive, bus, flowControls, peer, started, upset>>
        /\ host = "panicked" => host' = "panicked"
    BY <1>2 DEF vars, hostVars, peerVars, BeginRead, ReadTimeout
  <2>2. FirstUnderway' = FirstUnderway
    BY <2>1 DEF FirstUnderway
  <2>3. Taken' = Taken
    BY <2>1 DEF Taken, Receiving
  <2>4. Tracked' /\ NobodyWaits'
    BY <2>1, <2>2, <2>3 DEF WInv, Tracked, NobodyWaits, Sending
  <2> QED
    BY <1>1, <2>4 DEF WInv
<1>3. CASE BeginRequest
  BY <1>1, <1>3 DEF BeginRequest, WInv, Tracked, NobodyWaits
<1> QED
  BY <1>1, <1>2, <1>3, ReceiveDoesNotWait, PeerDoesNotWait DEF WInv, Next, Host

(* While the peer waits for a flow control and nothing went wrong with its *)
(* payload, a frame is on its way to the host or a flow control to the     *)
(* peer: for blocks of any size, host and peer never wait for each other.  *)
THEOREM NobodyEverWaits == Spec => []NobodyWaits
<1>1. WInv => NobodyWaits
  BY DEF WInv
<1> QED
  BY <1>1, InitWInv, WInvStep, PTL DEF Spec
=============================================================================
