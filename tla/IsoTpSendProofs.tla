---------------------------- MODULE IsoTpSendProofs ----------------------------
(***************************************************************************)
(* Proofs about the sending of ISO-TP payloads, for every block size the   *)
(* peer asks for, every payload length, modulus of the sequence numbers    *)
(* and width of the counter, however much is sent and lost.                *)
(*                                                                         *)
(* A payload the peer took is whole because the host goes on only when it  *)
(* has a flow control of this payload, so when the peer has its first      *)
(* frame: what continues a payload lies before what begins one, and each   *)
(* frame lost leaves one too few to reach the length.  Blocks are kept and *)
(* nobody waits because, as long as nothing is lost, both sides count the  *)
(* same frames: those the peer has and those on their way.                 *)
(***************************************************************************)
EXTENDS IsoTpSend, SequenceTheorems, TLAPS

FrameType == [pci : {"single", "first", "consecutive"}, n : Nat, length : Nat,
              seq : Nat, position : Nat]
FlowType == [status : {"continue", "wait", "overflow"}, block_size : Nat, n : Nat]
Transfer == [length : Nat, offset : Nat, sequence : Nat, frames_in_block : Nat,
             block_size : Nat]
PeerTransfer == [length : Nat, n : Nat, got : Nat, whole : BOOLEAN, next : Nat,
                 block_size : Nat, inBlock : Nat, owes : BOOLEAN]

Begins(frame) == frame.pci # "consecutive"
Continues(frame) == frame.pci = "consecutive"

Sending == tx # None
Receiving == peer # None

(* Everything under way carries the number of a payload that was started.  *)
FramesNumbered ==
  toPeer \in Seq(FrameType) /\ \A i \in 1..Len(toPeer) : toPeer[i].n \in 1..started

FlowsNumbered ==
  /\ toHost \in Seq(FlowType)
  /\ \A i \in 1..Len(toHost) :
       toHost[i].n \in 1..started /\ toHost[i].block_size \in PeerBlockSizes

TransfersNumbered ==
  /\ Sending => tx \in Transfer /\ started > 0
  /\ Receiving => peer \in PeerTransfer /\ peer.n \in 1..started
  /\ accepted \in [n : Nat, whole : BOOLEAN] /\ started \in Nat

BlockCounted ==
  host = "send" /\ tx.block_size # 0 => tx.frames_in_block < tx.block_size

CInv ==
  /\ TypeOK /\ FramesNumbered /\ FlowsNumbered /\ TransfersNumbered
  /\ BlockCounted /\ PanicsOnlyUnbounded

(* A frame that begins a payload is newer than all that lies before it;    *)
(* one that continues a payload continues the one the peer has.            *)
NewOnesBegin ==
  \A i \in 1..Len(toPeer) : Begins(toPeer[i]) =>
    /\ Receiving => peer.n < toPeer[i].n
    /\ \A j \in 1..(i - 1) : toPeer[j].n < toPeer[i].n

OldOnesContinue ==
  \A i \in 1..Len(toPeer) : Continues(toPeer[i]) =>
    /\ \A j \in 1..(i - 1) : Continues(toPeer[j])
    /\ Receiving => peer.n = toPeer[i].n

\* The peer has the beginning of the payload being sent, or had it.
MayContinue ==
  \/ host = "send"
  \/ \E i \in 1..Len(toHost) : toHost[i].n = started
  \/ Receiving /\ peer.n = started

ContinuesBegun ==
  MayContinue =>
    /\ Receiving => peer.n = started
    /\ \A i \in 1..Len(toPeer) : Continues(toPeer[i]) /\ toPeer[i].n = started

Ordered == NewOnesBegin /\ OldOnesContinue /\ ContinuesBegun

\* Sending goes on.
Underway == host \in {"flow", "send"}

LengthsAgree ==
  Underway =>
    /\ Receiving /\ peer.n = started => peer.length = tx.length
    /\ \A i \in 1..Len(toPeer) :
         toPeer[i].pci = "first" /\ toPeer[i].n = started => toPeer[i].length = tx.length

\* Frames get lost, but none is sent twice.
Spaced ==
  \A j \in 1..Len(toPeer) : Continues(toPeer[j]) =>
    /\ \A i \in 1..(j - 1) : toPeer[j].position >= toPeer[i].position + (j - i)
    /\ Underway /\ toPeer[j].n = started => tx.offset > toPeer[j].position + (Len(toPeer) - j)

(* At least one position later if a frame is missing.                      *)
Missing == IF peer.whole THEN 0 ELSE 1

Reaches ==
  Receiving =>
    /\ \A i \in 1..Len(toPeer) : Continues(toPeer[i]) =>
         /\ toPeer[i].position >= peer.got + i + Missing
         /\ toPeer[i].position <= peer.length
    /\ Underway /\ peer.n = started => tx.offset > peer.got + Len(toPeer) + Missing

Whole == LengthsAgree /\ Spaced /\ Reaches /\ accepted.whole

OInv == CInv /\ (~misled => Ordered /\ Whole)

(* As long as nothing is lost.                                             *)
Undisturbed == ~misled /\ ~upset
Current == Receiving /\ peer.n = started

FirstSent ==
  \A i \in 1..Len(toPeer) :
    toPeer[i].pci = "first" /\ toPeer[i].n = started => host = "flow" /\ tx.offset = 1

FramesConserved ==
  Current =>
    /\ host = "idle" => peer.got + Len(toPeer) = peer.length
    /\ Underway => peer.got + Len(toPeer) = tx.offset - 1

Continue(flow) == flow.status = "continue" /\ flow.n = started
ContinueQueued == \E i \in 1..Len(toHost) : Continue(toHost[i])
OneContinue ==
  \A i \in 1..Len(toHost) : Continue(toHost[i]) =>
    /\ toHost[i].block_size = peer.block_size
    /\ \A j \in 1..(i - 1) : ~Continue(toHost[j])

(* The peer owes a flow control, or it is on its way, or the host sends    *)
(* what it allows; then both know how far into the block they are.         *)
BlocksAgree ==
  Current =>
    /\ peer.owes => host = "flow" /\ toPeer = <<>> /\ ~ContinueQueued
    /\ ~peer.owes /\ ContinueQueued =>
         host = "flow" /\ toPeer = <<>> /\ peer.inBlock = 0 /\ OneContinue
    /\ ~peer.owes /\ ~ContinueQueued /\ Underway =>
         /\ tx.block_size = peer.block_size
         /\ peer.block_size # 0 => tx.frames_in_block = peer.inBlock + Len(toPeer)
         /\ host = "flow" => peer.block_size # 0 /\ tx.frames_in_block = peer.block_size
    /\ peer.block_size # 0 => peer.inBlock + Len(toPeer) <= peer.block_size
    /\ ~peer.owes /\ peer.block_size # 0 => peer.inBlock < peer.block_size
    /\ host = "panicked" => peer.block_size = 0

HostAwaits ==
  host = "flow" =>
    \/ \E i \in 1..Len(toPeer) : toPeer[i].pci = "first" /\ toPeer[i].n = started
    \/ Current
    \/ \E i \in 1..Len(toHost) : toHost[i].status = "overflow"

\* The host goes on only with a payload the peer has.
ClearedIsCurrent == ContinueQueued \/ host = "send" => Current

Steady == FirstSent /\ FramesConserved /\ BlocksAgree /\ HostAwaits /\ ClearedIsCurrent

WInv == OInv /\ (Undisturbed => Steady)
-----------------------------------------------------------------------------
(* What is left of the frames or flow controls under way.                  *)

Part(new, old, k) ==
  /\ Len(new) + k <= Len(old)
  /\ \A i \in 1..Len(new) : i + k \in 1..Len(old) /\ new[i] = old[i + k]

LEMMA TailIsPart ==
  ASSUME NEW S, NEW s \in Seq(S), s # <<>>
  PROVE  /\ Tail(s) \in Seq(S) /\ Part(Tail(s), s, 1) /\ Len(Tail(s)) = Len(s) - 1
         /\ 1 \in 1..Len(s) /\ Head(s) = s[1]
<1>1. /\ Len(s) \in Nat /\ Len(s) > 0 /\ Tail(s) \in Seq(S) /\ Len(Tail(s)) = Len(s) - 1
      /\ Head(s) = s[1] /\ \A i \in 1..(Len(s) - 1) : Tail(s)[i] = s[i + 1]
  BY HeadTailProperties, EmptySeq
<1>2. \A i \in 1..Len(Tail(s)) : i + 1 \in 1..Len(s)
  BY <1>1
<1> QED
  BY <1>1, <1>2 DEF Part

LEMMA FrontIsPart ==
  ASSUME NEW S, NEW s \in Seq(S), s # <<>>
  PROVE  LET front == SubSeq(s, 1, Len(s) - 1)
         IN  front \in Seq(S) /\ Part(front, s, 0) /\ Len(front) = Len(s) - 1
<1>1. Len(s) \in Nat /\ Len(s) > 0 /\ \A i \in 1..Len(s) : s[i] \in S
  BY EmptySeq
<1> DEFINE last == Len(s) - 1
<1>2. last \in Int /\ \A i \in 1..last : s[i] \in S
  BY <1>1
<1>3. \A t, m, n : m \in Int /\ n \in Int /\ (\A i \in m..n : t[i] \in S) =>
        /\ SubSeq(t, m, n) \in Seq(S)
        /\ Len(SubSeq(t, m, n)) = IF m <= n THEN n - m + 1 ELSE 0
        /\ \A i \in 1..(n - m + 1) : SubSeq(t, m, n)[i] = t[m + i - 1]
  BY SubSeqProperties
<1>4. /\ SubSeq(s, 1, last) \in Seq(S)
      /\ Len(SubSeq(s, 1, last)) = IF 1 <= last THEN last - 1 + 1 ELSE 0
      /\ \A i \in 1..(last - 1 + 1) : SubSeq(s, 1, last)[i] = s[1 + i - 1]
  BY <1>2, <1>3
<1>5. Len(SubSeq(s, 1, last)) = last
  <2>1. last \in Int /\ last >= 0
    BY <1>1
  <2> HIDE DEF last
  <2> QED
    BY <1>4, <2>1
<1>6. \A i \in 1..last : i + 0 \in 1..Len(s) /\ 1 + i - 1 = i + 0 /\ i \in 1..(last - 1 + 1)
  BY <1>1
<1> QED
  BY <1>1, <1>4, <1>5, <1>6 DEF Part

LEMMA SameIsPart ==
  ASSUME NEW S, NEW s \in Seq(S)
  PROVE  Part(s, s, 0)
BY DEF Part

LEMMA AppendedParts ==
  ASSUME NEW S, NEW s \in Seq(S), NEW e \in S
  PROVE  /\ Append(s, e) \in Seq(S) /\ Len(Append(s, e)) = Len(s) + 1 /\ Len(s) \in Nat
         /\ \A i \in 1..Len(Append(s, e)) :
              \/ i \in 1..Len(s) /\ Append(s, e)[i] = s[i]
              \/ i = Len(s) + 1 /\ Append(s, e)[i] = e
         /\ \A i \in 1..Len(s) : i \in 1..Len(Append(s, e)) /\ Append(s, e)[i] = s[i]
         /\ Len(s) + 1 \in 1..Len(Append(s, e)) /\ Append(s, e)[Len(s) + 1] = e
         /\ Append(s, e) # <<>>
<1>1. /\ Append(s, e) \in Seq(S) /\ Len(Append(s, e)) = Len(s) + 1 /\ Len(s) \in Nat
      /\ Append(s, e)[Len(s) + 1] = e /\ \A i \in 1..Len(s) : Append(s, e)[i] = s[i]
      /\ Append(s, e) # <<>>
  BY AppendProperties
<1>2. /\ \A i \in 1..Len(Append(s, e)) : i \in 1..Len(s) \/ i = Len(s) + 1
      /\ \A i \in 1..Len(s) : i \in 1..Len(Append(s, e))
      /\ Len(s) + 1 \in 1..Len(Append(s, e))
  BY <1>1
<1> QED
  BY <1>1, <1>2
-----------------------------------------------------------------------------
(* The transfers.                                                          *)

LEMMA SomeTransfer ==
  ASSUME NEW r, r.length # 0
  PROVE  r # None
BY DEF None

LEMMA SomePeerTransfer ==
  ASSUME NEW r \in PeerTransfer
  PROVE  r # None
<1>1. DOMAIN r = {"length", "n", "got", "whole", "next", "block_size", "inBlock", "owes"}
  BY DEF PeerTransfer
<1>2. DOMAIN None = {"length"}
  BY DEF None
<1> QED
  BY <1>1, <1>2

\* What TypeOK asks of a transfer.
Proceeding(r) ==
  /\ r \in Transfer /\ r.offset \in 1..r.length
  /\ r.sequence \in 0..(SeqModulus - 1)
  /\ r.frames_in_block \in 0..(CounterLimit - 1)
  /\ r.block_size \in PeerBlockSizes \cup {0}

LEMMA ProceedingIsSome ==
  ASSUME NEW r, Proceeding(r)
  PROVE  r # None
<1>1. r.length # 0
  BY DEF Proceeding, Transfer
<1> QED
  BY <1>1, SomeTransfer

LEMMA StaysProceeding ==
  ASSUME CInv, host # "idle"
  PROVE  Sending /\ Proceeding(tx) /\ started > 0
BY DEF CInv, TypeOK, TransfersNumbered, Sending, Proceeding

LEMMA NewTransferParts ==
  ASSUME NEW length \in Nat \ {0}
  PROVE  /\ Proceeding(NewTransfer(length)) /\ NewTransfer(length).length = length
         /\ NewTransfer(length).offset = 1 /\ NewTransfer(length).block_size = 0
<1>1. 1 \in 1..length /\ 1 \in 0..(SeqModulus - 1) /\ 0 \in 0..(CounterLimit - 1)
  BY SendAssumption
<1>2. NewTransfer(length) \in Transfer
  BY DEF NewTransfer, Transfer
<1> QED
  BY <1>1, <1>2 DEF NewTransfer, Proceeding

LEMMA FirstInBlockParts ==
  ASSUME Proceeding(tx), NEW size \in PeerBlockSizes
  PROVE  LET next == [tx EXCEPT !.block_size = size, !.frames_in_block = 0]
         IN  /\ Proceeding(next) /\ next.block_size = size /\ next.frames_in_block = 0
             /\ next.length = tx.length /\ next.offset = tx.offset
<1>1. size \in Nat /\ 0 \in 0..(CounterLimit - 1)
  BY SendAssumption
<1> DEFINE next == [tx EXCEPT !.block_size = size, !.frames_in_block = 0]
<1>2. next \in Transfer
  BY <1>1 DEF Proceeding, Transfer
<1>3. /\ next.block_size = size /\ next.frames_in_block = 0 /\ next.length = tx.length
      /\ next.offset = tx.offset /\ next.sequence = tx.sequence
  BY DEF Proceeding, Transfer
<1> HIDE DEF next
<1>4. Proceeding(next)
  BY <1>1, <1>2, <1>3 DEF Proceeding
<1> QED
  BY <1>3, <1>4 DEF next

LEMMA SentParts ==
  ASSUME Proceeding(tx)
  PROVE  /\ More => Proceeding(Sent)
         /\ Sent.length = tx.length /\ Sent.offset = tx.offset + 1
         /\ Sent.block_size = tx.block_size
         /\ Sent.frames_in_block \in Nat
         /\ tx.frames_in_block + 1 < CounterLimit =>
              Sent.frames_in_block = tx.frames_in_block + 1
<1>1. /\ tx \in Transfer /\ SeqModulus \in Nat \ {0} /\ CounterLimit \in Nat \ {0}
      /\ tx.sequence \in Nat /\ tx.frames_in_block \in Nat
      /\ tx.offset \in Nat /\ tx.length \in Nat /\ tx.offset \in 1..tx.length
  BY SendAssumption DEF Proceeding, Transfer
<1>2. \A a \in Nat, m \in Nat \ {0} : a % m \in 0..(m - 1)
  OBVIOUS
<1>3. /\ (tx.sequence + 1) % SeqModulus \in 0..(SeqModulus - 1)
      /\ (tx.frames_in_block + 1) % CounterLimit \in 0..(CounterLimit - 1)
      /\ tx.sequence + 1 \in Nat /\ tx.frames_in_block + 1 \in Nat
  <2>1. tx.sequence + 1 \in Nat /\ tx.frames_in_block + 1 \in Nat
    BY <1>1
  <2> QED
    BY <1>1, <1>2, <2>1
<1>4. Sent = [tx EXCEPT !.offset = tx.offset + 1,
                        !.sequence = (tx.sequence + 1) % SeqModulus,
                        !.frames_in_block = (tx.frames_in_block + 1) % CounterLimit]
  BY DEF Sent
<1>5. /\ (tx.sequence + 1) % SeqModulus \in Nat
      /\ (tx.frames_in_block + 1) % CounterLimit \in Nat /\ tx.offset + 1 \in Nat
  BY <1>1, <1>3
<1>6. Sent \in Transfer
  BY <1>1, <1>4, <1>5 DEF Transfer
<1>7. /\ Sent.length = tx.length /\ Sent.offset = tx.offset + 1
      /\ Sent.sequence = (tx.sequence + 1) % SeqModulus
      /\ Sent.frames_in_block = (tx.frames_in_block + 1) % CounterLimit
      /\ Sent.block_size = tx.block_size
  BY <1>1, <1>4 DEF Transfer
<1>8. ASSUME More PROVE Proceeding(Sent)
  <2>1. Sent.offset \in 1..Sent.length
    BY <1>1, <1>7, <1>8 DEF More
  <2> QED
    BY <1>3, <1>6, <1>7, <2>1 DEF Proceeding
<1>9. ASSUME tx.frames_in_block + 1 < CounterLimit
      PROVE  (tx.frames_in_block + 1) % CounterLimit = tx.frames_in_block + 1
  <2>1. \A a \in 0..(CounterLimit - 1) : a % CounterLimit = a
    BY <1>1
  <2>2. tx.frames_in_block + 1 \in 0..(CounterLimit - 1)
    BY <1>1, <1>9
  <2> QED
    BY <2>1, <2>2
<1> QED
  BY <1>5, <1>7, <1>8, <1>9

\* With blocks, the frames of one are counted within the counter's width.
LEMMA CountFits ==
  ASSUME CInv, host = "send", tx.block_size # 0
  PROVE  tx.frames_in_block < tx.block_size /\ tx.frames_in_block + 1 < CounterLimit
<1>1. Proceeding(tx) /\ tx.frames_in_block < tx.block_size
  BY StaysProceeding DEF CInv, BlockCounted
<1>2. /\ tx.block_size \in 0..(CounterLimit - 1) /\ CounterLimit \in Nat
      /\ tx.frames_in_block \in 0..(CounterLimit - 1)
  BY <1>1, SendAssumption DEF Proceeding
<1> QED
  BY <1>1, <1>2

LEMMA FrameTypes ==
  ASSUME NEW n \in Nat, NEW length \in Nat, NEW pci \in {"single", "first"}
  PROVE  /\ Frame(pci, n, length) \in FrameType /\ Frame(pci, n, length).n = n
         /\ Frame(pci, n, length).pci = pci /\ Frame(pci, n, length).length = length
BY DEF Frame, FrameType

LEMMA ConsecutiveParts ==
  ASSUME CInv, host # "idle"
  PROVE  /\ ConsecutiveFrame \in FrameType /\ ConsecutiveFrame.n = started
         /\ ConsecutiveFrame.pci = "consecutive" /\ ConsecutiveFrame.position = tx.offset
<1>1. tx.sequence \in Nat /\ tx.offset \in Nat /\ started \in Nat
  BY StaysProceeding DEF Proceeding, Transfer, CInv, TransfersNumbered
<1> QED
  BY <1>1 DEF ConsecutiveFrame, FrameType

\* The peer's transfer with one more frame.
Got ==
  [peer EXCEPT
     !.got = @ + 1,
     !.whole = @ /\ Head(toPeer).n = peer.n /\ Head(toPeer).position = peer.got + 1,
     !.next = (@ + 1) % SeqModulus,
     !.inBlock = @ + 1,
     !.owes = @ \/ peer.inBlock + 1 = peer.block_size]

LEMMA GotParts ==
  ASSUME peer \in PeerTransfer
  PROVE  /\ Got \in PeerTransfer /\ Got.length = peer.length /\ Got.n = peer.n
         /\ Got.got = peer.got + 1 /\ Got.inBlock = peer.inBlock + 1
         /\ Got.block_size = peer.block_size
         /\ Got.whole <=> peer.whole /\ Head(toPeer).n = peer.n
                            /\ Head(toPeer).position = peer.got + 1
         /\ Got.owes <=> peer.owes \/ peer.inBlock + 1 = peer.block_size
<1> DEFINE fits == peer.whole /\ Head(toPeer).n = peer.n /\ Head(toPeer).position = peer.got + 1
           ends == peer.owes \/ peer.inBlock + 1 = peer.block_size
<1>1. fits \in BOOLEAN /\ ends \in BOOLEAN
  OBVIOUS
<1>2. Got = [peer EXCEPT !.got = peer.got + 1, !.whole = fits,
                         !.next = (peer.next + 1) % SeqModulus,
                         !.inBlock = peer.inBlock + 1, !.owes = ends]
  BY DEF Got
<1> HIDE DEF fits, ends
<1>3. peer.got + 1 \in Nat /\ peer.inBlock + 1 \in Nat /\ (peer.next + 1) % SeqModulus \in Nat
  BY SendAssumption DEF PeerTransfer
<1>4. Got \in PeerTransfer
  BY <1>1, <1>2, <1>3 DEF PeerTransfer
<1>5. /\ Got.length = peer.length /\ Got.n = peer.n /\ Got.got = peer.got + 1
      /\ Got.inBlock = peer.inBlock + 1 /\ Got.block_size = peer.block_size
      /\ Got.whole = fits /\ Got.owes = ends
  BY <1>2 DEF PeerTransfer
<1> QED
  BY <1>4, <1>5 DEF fits, ends
-----------------------------------------------------------------------------
(* The counters and the numbers.                                           *)

LEMMA UnderWay ==
  ASSUME CInv
  PROVE  /\ toPeer \in Seq(FrameType) /\ Len(toPeer) \in Nat
         /\ \A i \in 1..Len(toPeer) :
              toPeer[i] \in FrameType /\ toPeer[i].n \in Nat /\ toPeer[i].n <= started
         /\ toHost \in Seq(FlowType) /\ Len(toHost) \in Nat
         /\ \A i \in 1..Len(toHost) :
              /\ toHost[i] \in FlowType /\ toHost[i].n \in Nat /\ toHost[i].n <= started
              /\ toHost[i].block_size \in PeerBlockSizes
         /\ started \in Nat
<1>1. FramesNumbered /\ FlowsNumbered /\ started \in Nat
  BY DEF CInv, TransfersNumbered
<1>2. /\ toPeer \in Seq(FrameType) /\ \A i \in 1..Len(toPeer) : toPeer[i].n \in 1..started
      /\ toHost \in Seq(FlowType)
      /\ \A i \in 1..Len(toHost) :
           toHost[i].n \in 1..started /\ toHost[i].block_size \in PeerBlockSizes
  BY <1>1 DEF FramesNumbered, FlowsNumbered
<1> QED
  BY <1>1, <1>2

LEMMA FramesLeft ==
  ASSUME CInv, NEW k \in Nat, toPeer' \in Seq(FrameType), Part(toPeer', toPeer, k),
         started' \in {started, started + 1}
  PROVE  FramesNumbered'
BY UnderWay DEF Part, CInv, FramesNumbered

LEMMA FlowsLeft ==
  ASSUME CInv, NEW k \in Nat, toHost' \in Seq(FlowType), Part(toHost', toHost, k),
         started' \in {started, started + 1}
  PROVE  FlowsNumbered' /\ Len(toHost') <= MaxQueued
<1>1. Len(toHost') <= MaxQueued
  <2>1. /\ Len(toHost') + k <= Len(toHost) /\ Len(toHost) <= MaxQueued
        /\ Len(toHost') \in Nat /\ Len(toHost) \in Nat /\ MaxQueued \in Nat
    BY UnderWay, SendAssumption DEF Part, CInv, TypeOK
  <2> QED
    BY <2>1
<1>2. FlowsNumbered'
  <2>1. ASSUME NEW i \in 1..Len(toHost')
        PROVE  toHost'[i].n \in 1..started' /\ toHost'[i].block_size \in PeerBlockSizes
    <3>1. i + k \in 1..Len(toHost) /\ toHost'[i] = toHost[i + k]
      BY DEF Part
    <3>2. toHost[i + k].n \in 1..started /\ toHost[i + k].block_size \in PeerBlockSizes
      BY <3>1 DEF CInv, FlowsNumbered
    <3> QED
      BY <3>1, <3>2, UnderWay
  <2> QED
    BY <2>1 DEF FlowsNumbered
<1> QED
  BY <1>1, <1>2

LEMMA OneMoreFrame ==
  ASSUME CInv, NEW frame \in FrameType, started' \in {started, started + 1},
         frame.n \in 1..started', toPeer' \in {toPeer, Append(toPeer, frame)}
  PROVE  FramesNumbered'
<1>1. CASE toPeer' = toPeer
  BY <1>1, UnderWay DEF FramesNumbered, CInv
<1>2. CASE toPeer' = Append(toPeer, frame)
  <2>1. /\ toPeer' \in Seq(FrameType)
        /\ \A i \in 1..Len(toPeer') : \/ i \in 1..Len(toPeer) /\ toPeer'[i] = toPeer[i]
                                      \/ i = Len(toPeer) + 1 /\ toPeer'[i] = frame
    BY <1>2, UnderWay, AppendedParts
  <2> QED
    BY <2>1, UnderWay DEF FramesNumbered, CInv
<1> QED
  BY <1>1, <1>2

LEMMA TakenFrame ==
  ASSUME CInv, NEW pci, PeerTake(pci)
  PROVE  /\ toPeer' \in Seq(FrameType) /\ Part(toPeer', toPeer, 1)
         /\ Len(toPeer') = Len(toPeer) - 1 /\ 1 \in 1..Len(toPeer)
         /\ Head(toPeer) = toPeer[1] /\ toPeer[1].pci = pci
         /\ toPeer[1] \in FrameType /\ toPeer[1].n \in 1..started
         /\ UNCHANGED <<host, tx, started, toHost, lost, misled>>
<1>1. toPeer \in Seq(FrameType) /\ toPeer # <<>> /\ toPeer' = Tail(toPeer)
      /\ Head(toPeer).pci = pci /\ UNCHANGED <<host, tx, started, toHost, lost, misled>>
  BY UnderWay DEF PeerTake, hostVars
<1> QED
  BY <1>1, TailIsPart, UnderWay DEF CInv, FramesNumbered

LEMMA TakenFlow ==
  ASSUME CInv, NEW status, TakeFlow(status)
  PROVE  /\ toHost' \in Seq(FlowType) /\ Part(toHost', toHost, 1) /\ 1 \in 1..Len(toHost)
         /\ Head(toHost) = toHost[1] /\ toHost[1].status = status
         /\ toHost[1].block_size \in PeerBlockSizes
         /\ host = "flow" /\ UNCHANGED <<started, toPeer, peer, accepted, lost>>
<1>1. toHost \in Seq(FlowType) /\ toHost # <<>> /\ toHost' = Tail(toHost)
      /\ Head(toHost).status = status
      /\ host = "flow" /\ UNCHANGED <<started, toPeer, peer, accepted, lost>>
  BY UnderWay DEF TakeFlow, peerVars
<1>2. 1 \in 1..Len(toHost) /\ Head(toHost) = toHost[1]
  BY <1>1, TailIsPart
<1> QED
  BY <1>1, <1>2, TailIsPart, UnderWay

LEMMA Lost ==
  ASSUME CInv, Lose
  PROVE  /\ toPeer' \in Seq(FrameType) /\ Part(toPeer', toPeer, 0)
         /\ toHost' \in Seq(FlowType) /\ Part(toHost', toHost, 0)
         /\ upset' /\ lost' \in 0..MaxLost
         /\ UNCHANGED <<host, tx, started, peer, accepted, misled>>
<1>1. /\ upset' = TRUE /\ UNCHANGED <<host, tx, started, peer, accepted, misled>>
  BY DEF Lose, hostVars, peerVars
<1>2. lost' \in 0..MaxLost
  <2>1. lost' = lost + 1 /\ lost < MaxLost /\ lost \in 0..MaxLost /\ MaxLost \in Nat
    BY SendAssumption DEF Lose, CInv, TypeOK
  <2> QED
    BY <2>1
<1>3. /\ toPeer' \in Seq(FrameType) /\ Part(toPeer', toPeer, 0)
      /\ toHost' \in Seq(FlowType) /\ Part(toHost', toHost, 0)
  BY UnderWay, FrontIsPart, SameIsPart DEF Lose
<1> QED
  BY <1>1, <1>2, <1>3

(* A step of the host keeps the invariant if it leaves a transfer it may   *)
(* go on with, or none.                                                    *)
LEMMA HostKeeps ==
  ASSUME CInv, UNCHANGED <<peer, accepted, lost>>, misled' \in BOOLEAN, upset' \in BOOLEAN,
         started' \in {started, started + 1}, started' <= MaxPayloads,
         FramesNumbered', FlowsNumbered', Len(toHost') <= MaxQueued,
         \/ host' = "idle" /\ tx' = None
         \/ /\ host' \in {"flow", "send", "panicked"} /\ Proceeding(tx') /\ started' > 0
            /\ tx'.block_size # 0 => host' # "panicked"
            /\ tx'.block_size # 0 /\ host' = "send" => tx'.frames_in_block < tx'.block_size
  PROVE  CInv'
<1>1. /\ started \in Nat /\ accepted.n \in 0..started /\ started' \in 0..MaxPayloads
      /\ accepted \in [n : Nat, whole : BOOLEAN] /\ lost \in 0..MaxLost
      /\ Receiving => peer \in PeerTransfer /\ peer.n \in 1..started
  BY SendAssumption DEF CInv, TypeOK, TransfersNumbered
<1>2. /\ started' \in 0..MaxPayloads /\ lost' \in 0..MaxLost
      /\ accepted'.n \in 0..started' /\ accepted'.whole \in BOOLEAN
      /\ accepted' \in [n : Nat, whole : BOOLEAN] /\ started' \in Nat
      /\ Receiving' => peer' \in PeerTransfer /\ peer'.n \in 1..started'
  <2>1. started <= started' /\ accepted' = accepted /\ peer' = peer /\ lost' = lost
    BY <1>1
  <2>2. accepted.n \in 0..started' /\ (Receiving => peer.n \in 1..started')
    BY <1>1, <2>1
  <2>3. accepted.whole \in BOOLEAN
    BY <1>1
  <2> QED
    BY <1>1, <2>1, <2>2, <2>3 DEF Receiving
<1>3. CASE host' = "idle" /\ tx' = None
  BY <1>1, <1>2, <1>3 DEF CInv, TypeOK, TransfersNumbered, BlockCounted, PanicsOnlyUnbounded, Sending
<1>4. CASE /\ host' \in {"flow", "send", "panicked"} /\ Proceeding(tx') /\ started' > 0
           /\ tx'.block_size # 0 => host' # "panicked"
           /\ tx'.block_size # 0 /\ host' = "send" => tx'.frames_in_block < tx'.block_size
  <2>1. tx' # None
    BY <1>4, ProceedingIsSome
  <2>2. TypeOK'
    <3>1. /\ tx'.offset \in 1..tx'.length /\ tx'.sequence \in 0..(SeqModulus - 1)
          /\ tx'.frames_in_block \in 0..(CounterLimit - 1)
          /\ tx'.block_size \in PeerBlockSizes \cup {0}
      BY <1>4 DEF Proceeding
    <3>2. host' \in {"idle", "flow", "send", "panicked"} /\ (tx' = None <=> host' = "idle")
      BY <1>4, <2>1
    <3> QED
      BY <1>2, <2>1, <3>1, <3>2 DEF TypeOK
  <2>3. TransfersNumbered'
    BY <1>1, <1>2, <1>4 DEF TransfersNumbered, Proceeding
  <2> QED
    BY <1>4, <2>2, <2>3 DEF CInv, BlockCounted, PanicsOnlyUnbounded
<1> QED
  BY <1>3, <1>4

LEMMA PeerKeeps ==
  ASSUME CInv, UNCHANGED <<host, tx, started, misled>>, lost' \in 0..MaxLost, upset' \in BOOLEAN,
         FramesNumbered', FlowsNumbered', Len(toHost') <= MaxQueued,
         peer' # None => peer' \in PeerTransfer /\ peer'.n \in 1..started,
         accepted' \in [n : Nat, whole : BOOLEAN], accepted'.n \in 0..started
  PROVE  CInv'
<1>1. TypeOK'
  BY DEF CInv, TypeOK
<1>2. TransfersNumbered'
  BY DEF CInv, TransfersNumbered, Sending, Receiving
<1> QED
  BY <1>1, <1>2 DEF CInv, BlockCounted, PanicsOnlyUnbounded

LEMMA HostStep ==
  ASSUME CInv, Host
  PROVE  CInv'
<1>0. /\ misled \in BOOLEAN /\ upset \in BOOLEAN /\ started \in Nat /\ started <= MaxPayloads
      /\ Len(toHost) <= MaxQueued /\ FramesNumbered /\ FlowsNumbered /\ MaxPayloads \in Nat
      /\ toHost \in Seq(FlowType) /\ toPeer \in Seq(FrameType)
  BY UnderWay, SendAssumption DEF CInv, TypeOK
<1>1. CASE SendSingle
  <2> DEFINE frame == Frame("single", started + 1, 0)
  <2>1. frame \in FrameType /\ frame.n = started + 1
    BY <1>0, FrameTypes
  <2>2. /\ started' = started + 1 /\ toPeer' \in {toPeer, Append(toPeer, frame)}
        /\ host = "idle" /\ started' <= MaxPayloads
        /\ (host' = "idle" /\ tx' = None) \/ (host' = host /\ tx' = tx)
        /\ upset' \in BOOLEAN /\ UNCHANGED <<toHost, peer, accepted, lost, misled>>
    <3>1. /\ started' = started + 1 /\ host = "idle" /\ started < MaxPayloads
          /\ UNCHANGED <<toHost, peer, accepted, lost, misled>>
          /\ \/ FrameFails(frame)
             \/ toPeer' = Append(toPeer, frame) /\ upset' = FALSE /\ UNCHANGED <<host, tx>>
      BY <1>1 DEF SendSingle, peerVars
    <3> HIDE DEF frame
    <3>2. started' <= MaxPayloads
      BY <1>0, <3>1
    <3>3. toPeer' \in {toPeer, Append(toPeer, frame)} /\ upset' \in BOOLEAN
      BY <3>1, Zenon DEF FrameFails
    <3>4. (host' = "idle" /\ tx' = None) \/ (host' = host /\ tx' = tx)
      BY <3>1 DEF FrameFails
    <3> QED
      BY <3>1, <3>2, <3>3, <3>4
  <2> HIDE DEF frame
  <2>3. FramesNumbered'
    BY <1>0, <2>1, <2>2, OneMoreFrame
  <2>4. FlowsNumbered'
    BY <1>0, <2>2, SameIsPart, FlowsLeft
  <2>5. host' = "idle" /\ tx' = None
    BY <2>2 DEF CInv, TypeOK
  <2> QED
    BY <1>0, <2>2, <2>3, <2>4, <2>5, HostKeeps
<1>2. CASE SendFirst
  <2>1. PICK length \in Lengths \ {0} :
          LET frame == Frame("first", started + 1, length) IN
          \/ FrameFails(frame)
          \/ /\ toPeer' = Append(toPeer, frame)
             /\ host' = "flow" /\ tx' = NewTransfer(length) /\ upset' = FALSE
    BY <1>2 DEF SendFirst, SendFirstThen
  <2> DEFINE frame == Frame("first", started + 1, length)
  <2>2. length \in Nat \ {0}
    BY SendAssumption
  <2>3. frame \in FrameType /\ frame.n = started + 1
    BY <1>0, <2>2, FrameTypes
  <2>4. toPeer' \in {toPeer, Append(toPeer, frame)} /\ upset' \in BOOLEAN
        /\ \/ host' = "idle" /\ tx' = None
           \/ host' = "flow" /\ tx' = NewTransfer(length)
    BY <2>1 DEF FrameFails
  <2> HIDE DEF frame
  <2>5. started' = started + 1 /\ started' <= MaxPayloads
        /\ UNCHANGED <<toHost, peer, accepted, lost, misled>>
    BY <1>0, <1>2 DEF SendFirst, SendFirstThen, peerVars
  <2>6. FramesNumbered'
    BY <1>0, <2>3, <2>4, <2>5, OneMoreFrame
  <2>7. FlowsNumbered'
    BY <1>0, <2>5, SameIsPart, FlowsLeft
  <2>8. Proceeding(NewTransfer(length)) /\ NewTransfer(length).block_size = 0 /\ started' > 0
    BY <1>0, <2>2, <2>5, NewTransferParts
  <2> QED
    BY <1>0, <2>4, <2>5, <2>6, <2>7, <2>8, HostKeeps
<1>3. CASE TakeContinue
  <2>1. /\ TakeFlow("continue") /\ host' = "send"
        /\ tx' = [tx EXCEPT !.block_size = Head(toHost).block_size, !.frames_in_block = 0]
        /\ upset' = upset
    BY <1>3 DEF TakeContinue
  <2>2. misled' \in BOOLEAN
    <3>1. misled' = (misled \/ Head(toHost).n # started)
      BY <1>3 DEF TakeContinue
    <3> QED
      BY <3>1
  <2>3. /\ toHost' \in Seq(FlowType) /\ Part(toHost', toHost, 1)
        /\ Head(toHost) = toHost[1] /\ toHost[1].block_size \in PeerBlockSizes
        /\ host = "flow" /\ UNCHANGED <<started, toPeer, peer, accepted, lost>>
    BY <2>1, TakenFlow
  <2>4. FlowsNumbered' /\ Len(toHost') <= MaxQueued
    BY <1>0, <2>3, FlowsLeft
  <2>5. FramesNumbered'
    BY <1>0, <2>3, SameIsPart, FramesLeft
  <2>6. Proceeding(tx) /\ started > 0
    BY <2>3, StaysProceeding
  <2>7. Proceeding(tx') /\ tx'.block_size \in PeerBlockSizes /\ tx'.frames_in_block = 0
    BY <2>1, <2>3, <2>6, FirstInBlockParts
  <2>8. tx'.block_size # 0 => tx'.frames_in_block < tx'.block_size
    <3>1. PeerBlockSizes \subseteq Nat
      BY SendAssumption
    <3>2. tx'.block_size \in Nat
      BY <2>7, <3>1
    <3> QED
      BY <2>7, <3>2
  <2> QED
    BY <1>0, <2>1, <2>2, <2>3, <2>4, <2>5, <2>6, <2>7, <2>8, HostKeeps
<1>4. CASE TakeWait \/ TakeOverflow
  <2>1. /\ TakeFlow("wait") \/ TakeFlow("overflow")
        /\ UNCHANGED <<host, tx>> \/ (host' = "idle" /\ tx' = None)
        /\ upset' \in BOOLEAN /\ misled' = misled
    BY <1>0, <1>4 DEF TakeWait, TakeOverflow
  <2>2. /\ toHost' \in Seq(FlowType) /\ Part(toHost', toHost, 1)
        /\ host = "flow" /\ UNCHANGED <<started, toPeer, peer, accepted, lost>>
    BY <2>1, TakenFlow
  <2>3. FlowsNumbered' /\ Len(toHost') <= MaxQueued
    BY <1>0, <2>2, FlowsLeft
  <2>4. FramesNumbered'
    BY <1>0, <2>2, SameIsPart, FramesLeft
  <2>5. Proceeding(tx) /\ started > 0
    BY <2>2, StaysProceeding
  <2> QED
    BY <1>0, <2>1, <2>2, <2>3, <2>4, <2>5, HostKeeps
<1>5. CASE FlowControlTimeout
  <2>1. host' = "idle" /\ tx' = None /\ upset' = TRUE
        /\ UNCHANGED <<started, toPeer, toHost, peer, accepted, lost, misled>>
    BY <1>5 DEF FlowControlTimeout, peerVars
  <2>2. FramesNumbered' /\ FlowsNumbered'
    BY <1>0, <2>1, SameIsPart, FramesLeft, FlowsLeft
  <2> QED
    BY <1>0, <2>1, <2>2, HostKeeps
<1>6. CASE SendConsecutive
  <2>1. /\ host = "send" /\ toPeer' \in {toPeer, Append(toPeer, ConsecutiveFrame)}
        /\ upset' \in BOOLEAN /\ UNCHANGED <<started, toHost, peer, accepted, lost, misled>>
        /\ \/ host' = "idle" /\ tx' = None
           \/ /\ host' = IF BlockFull THEN "flow" ELSE IF More THEN "send" ELSE "idle"
              /\ tx' = IF host' = "idle" THEN None ELSE Sent
    BY <1>0, <1>6 DEF SendConsecutive, FrameFails, peerVars
  <2>2. /\ ConsecutiveFrame \in FrameType /\ ConsecutiveFrame.n = started
        /\ ConsecutiveFrame.n \in 1..started'
    <3>1. started > 0
      BY <2>1, StaysProceeding
    <3> QED
      BY <1>0, <2>1, <3>1, ConsecutiveParts
  <2>3. FramesNumbered'
    BY <2>1, <2>2, OneMoreFrame
  <2>4. FlowsNumbered'
    BY <1>0, <2>1, SameIsPart, FlowsLeft
  <2>5. Proceeding(tx) /\ started > 0 /\ (BlockFull => More)
    BY <2>1, StaysProceeding DEF BlockFull
  <2>6. /\ host' = "flow" => Proceeding(tx')
        /\ host' = "send" => /\ Proceeding(tx')
                             /\ tx'.block_size # 0 => tx'.frames_in_block < tx'.block_size
    <3>1. host' = "flow" => More /\ tx' = Sent
      BY <2>1, <2>5
    <3>2. host' = "send" => More /\ ~BlockFull /\ tx' = Sent
      BY <2>1
    <3>3. More => Proceeding(Sent)
      BY <2>5, SentParts
    <3>4. Sent.frames_in_block \in Nat /\ Sent.block_size \in Nat
      BY <2>5, SentParts DEF Proceeding, Transfer
    <3>5. More /\ ~BlockFull /\ Sent.block_size # 0 => Sent.frames_in_block < Sent.block_size
      BY <2>5, <3>4, SentParts DEF BlockFull
    <3> QED
      BY <3>1, <3>2, <3>3, <3>5
  <2>7. host' \in {"idle", "flow", "send"} /\ (host' = "idle" => tx' = None)
    BY <2>1
  <2> QED
    BY <1>0, <2>1, <2>3, <2>4, <2>5, <2>6, <2>7, HostKeeps
<1>7. CASE SendPanics
  <2>1. /\ host = "send" /\ toPeer' = Append(toPeer, ConsecutiveFrame) /\ host' = "panicked"
        /\ tx.frames_in_block + 1 = CounterLimit
        /\ UNCHANGED <<tx, started, toHost, peer, accepted, lost, upset, misled>>
    BY <1>7 DEF SendPanics, peerVars
  <2>2. /\ ConsecutiveFrame \in FrameType /\ ConsecutiveFrame.n = started
        /\ ConsecutiveFrame.n \in 1..started'
    <3>1. started > 0
      BY <2>1, StaysProceeding
    <3> QED
      BY <1>0, <2>1, <3>1, ConsecutiveParts
  <2>3. FramesNumbered'
    BY <2>1, <2>2, OneMoreFrame
  <2>4. FlowsNumbered'
    BY <1>0, <2>1, SameIsPart, FlowsLeft
  <2>5. Proceeding(tx) /\ started > 0 /\ tx.block_size = 0
    <3>1. tx.block_size # 0 => FALSE
      <4>1. tx.frames_in_block \in Nat /\ CounterLimit \in Nat
        BY <2>1, StaysProceeding, SendAssumption DEF Proceeding, Transfer
      <4> QED
        BY <2>1, <4>1, CountFits
    <3> QED
      BY <2>1, <3>1, StaysProceeding
  <2> QED
    BY <1>0, <2>1, <2>3, <2>4, <2>5, HostKeeps
<1>8. CASE DropFlowControls
  <2>1. host = "idle" /\ toHost' = <<>>
        /\ UNCHANGED <<host, tx, started, toPeer, peer, accepted, lost, upset, misled>>
    BY <1>8 DEF DropFlowControls, hostVars, peerVars
  <2>2. FramesNumbered' /\ FlowsNumbered' /\ Len(toHost') <= MaxQueued
    <3>1. toHost' \in Seq(FlowType) /\ Len(toHost') = 0
      BY <2>1, EmptySeq
    <3> QED
      BY <1>0, <2>1, <3>1, SameIsPart, FramesLeft, SendAssumption DEF FlowsNumbered
  <2>3. tx' = None
    BY <2>1 DEF CInv, TypeOK
  <2> QED
    BY <1>0, <2>1, <2>2, <2>3, HostKeeps
<1> QED
  BY <1>1, <1>2, <1>3, <1>4, <1>5, <1>6, <1>7, <1>8 DEF Host

LEMMA SomeFlow ==
  ASSUME CInv, Receiving, NEW status \in {"continue", "wait", "overflow"}, NEW size \in PeerBlockSizes
  PROVE  LET flow == [status |-> status, block_size |-> size, n |-> peer.n]
         IN  flow \in FlowType /\ flow.status = status /\ flow.block_size = size /\ flow.n = peer.n
<1>1. size \in Nat /\ peer.n \in Nat
  <2>1. PeerBlockSizes \subseteq Nat
    BY SendAssumption
  <2> QED
    BY <2>1 DEF CInv, TransfersNumbered, PeerTransfer
<1> QED
  BY <1>1 DEF FlowType

\* What the peer does when it answers.
Cleared(size) == [peer EXCEPT !.owes = FALSE, !.inBlock = 0, !.block_size = size]

LEMMA ClearedParts ==
  ASSUME peer \in PeerTransfer, NEW size \in PeerBlockSizes
  PROVE  /\ Cleared(size) \in PeerTransfer /\ ~Cleared(size).owes
         /\ Cleared(size).inBlock = 0 /\ Cleared(size).block_size = size
         /\ Cleared(size).n = peer.n /\ Cleared(size).length = peer.length
         /\ Cleared(size).got = peer.got /\ Cleared(size).whole = peer.whole
<1>1. size \in Nat
  BY SendAssumption
<1>2. Cleared(size) \in PeerTransfer
  BY <1>1 DEF Cleared, PeerTransfer
<1> QED
  BY <1>2 DEF Cleared, PeerTransfer

LEMMA FlowControlSent ==
  ASSUME CInv, PeerSendsFlowControl
  PROVE  /\ Receiving /\ peer.owes /\ peer \in PeerTransfer
         /\ \E flow \in FlowType :
              /\ toHost' = Append(toHost, flow) /\ flow.n = peer.n
              /\ flow.block_size \in PeerBlockSizes
              /\ \/ flow.status = "continue" /\ peer' = Cleared(flow.block_size)
                 \/ flow.status = "wait" /\ peer' = peer
                 \/ flow.status = "overflow" /\ peer' = None
         /\ UNCHANGED <<host, tx, started, toPeer, accepted, lost, upset, misled>>
<1>1. Receiving /\ peer.owes /\ peer \in PeerTransfer
      /\ UNCHANGED <<host, tx, started, toPeer, accepted, lost, upset, misled>>
  BY DEF PeerSendsFlowControl, Receiving, hostVars, CInv, TransfersNumbered
<1>2. PICK status \in {"continue", "wait", "overflow"}, size \in PeerBlockSizes :
        /\ toHost' = Append(toHost, [status |-> status, block_size |-> size, n |-> peer.n])
        /\ peer' = CASE status = "continue" ->
                          [peer EXCEPT !.owes = FALSE, !.inBlock = 0, !.block_size = size]
                     [] status = "wait" -> peer
                     [] status = "overflow" -> None
  BY DEF PeerSendsFlowControl
<1> DEFINE flow == [status |-> status, block_size |-> size, n |-> peer.n]
<1>3. flow \in FlowType /\ flow.status = status /\ flow.block_size = size /\ flow.n = peer.n
  BY <1>1, SomeFlow
<1>4. toHost' = Append(toHost, flow)
  BY <1>2
<1> HIDE DEF flow
<1>5. \/ flow.status = "continue" /\ peer' = Cleared(flow.block_size)
      \/ flow.status = "wait" /\ peer' = peer
      \/ flow.status = "overflow" /\ peer' = None
  <2>1. status = "continue" => peer' = Cleared(size)
    BY <1>2 DEF Cleared
  <2>2. status = "wait" => peer' = peer
    BY <1>2
  <2>3. status = "overflow" => peer' = None
    BY <1>2
  <2> QED
    BY <1>3, <2>1, <2>2, <2>3
<1> QED
  BY <1>1, <1>3, <1>4, <1>5

\* A frame that continues a payload: the peer gives the payload up, goes on
\* with it, or is done with it.
LEMMA ConsecutiveTaken ==
  ASSUME CInv, PeerTakesConsecutive
  PROVE  /\ PeerTake("consecutive")
         /\ \/ peer' = None /\ upset' /\ accepted' = accepted
            \/ /\ Receiving /\ peer \in PeerTransfer /\ upset' = upset
               /\ \/ Got.got < Got.length /\ peer' = Got /\ accepted' = accepted
                  \/ /\ ~(Got.got < Got.length) /\ peer' = None
                     /\ accepted' = [n |-> Got.n, whole |-> Got.whole]
<1>1. PeerTake("consecutive")
  BY DEF PeerTakesConsecutive
<1>2. IF peer = None \/ Head(toPeer).seq # peer.next
      THEN peer' = None /\ upset' = TRUE /\ UNCHANGED accepted
      ELSE IF Got.got < Got.length
      THEN peer' = Got /\ UNCHANGED <<accepted, upset>>
      ELSE /\ peer' = None
           /\ accepted' = [n |-> Got.n, whole |-> Got.whole]
           /\ UNCHANGED upset
  BY DEF PeerTakesConsecutive, Got
<1>3. peer # None => Receiving /\ peer \in PeerTransfer
  BY DEF Receiving, CInv, TransfersNumbered
<1> QED
  BY <1>1, <1>2, <1>3

\* The payload whose beginning was taken.
Beginning(frame) ==
  [length |-> frame.length, n |-> frame.n, got |-> 0, whole |-> TRUE, next |-> 1,
   block_size |-> 0, inBlock |-> 0, owes |-> TRUE]

LEMMA BeginningParts ==
  ASSUME NEW frame \in FrameType
  PROVE  /\ Beginning(frame) \in PeerTransfer /\ Beginning(frame).length = frame.length
         /\ Beginning(frame).n = frame.n /\ Beginning(frame).got = 0 /\ Beginning(frame).whole
         /\ Beginning(frame).block_size = 0 /\ Beginning(frame).inBlock = 0
         /\ Beginning(frame).owes
BY DEF Beginning, FrameType, PeerTransfer

LEMMA PeerStep ==
  ASSUME CInv, Peer \/ Lose
  PROVE  CInv'
<1>0. /\ upset \in BOOLEAN /\ started \in Nat /\ lost \in 0..MaxLost
      /\ Len(toHost) <= MaxQueued /\ FramesNumbered /\ FlowsNumbered
      /\ toHost \in Seq(FlowType) /\ toPeer \in Seq(FrameType)
      /\ peer # None => peer \in PeerTransfer /\ peer.n \in 1..started
      /\ accepted \in [n : Nat, whole : BOOLEAN] /\ accepted.n \in 0..started
  BY UnderWay DEF CInv, TypeOK, TransfersNumbered, Receiving
<1>1. ASSUME NEW pci, PeerTake(pci)
      PROVE  /\ FramesNumbered' /\ FlowsNumbered' /\ Len(toHost') <= MaxQueued
             /\ UNCHANGED <<host, tx, started, misled>> /\ lost' \in 0..MaxLost
             /\ toPeer[1] \in FrameType /\ toPeer[1].n \in 1..started /\ Head(toPeer) = toPeer[1]
  <2>1. /\ toPeer' \in Seq(FrameType) /\ Part(toPeer', toPeer, 1)
        /\ UNCHANGED <<host, tx, started, toHost, lost, misled>>
        /\ toPeer[1] \in FrameType /\ toPeer[1].n \in 1..started /\ Head(toPeer) = toPeer[1]
    BY <1>1, TakenFrame
  <2>2. FramesNumbered' /\ FlowsNumbered' /\ Len(toHost') <= MaxQueued
    BY <1>0, <2>1, SameIsPart, FramesLeft, FlowsLeft
  <2> QED
    BY <1>0, <2>1, <2>2
<1>2. CASE PeerTakesSingle
  <2>1. PeerTake("single") /\ accepted' = [n |-> Head(toPeer).n, whole |-> TRUE]
        /\ peer' = None /\ upset' = upset
    BY <1>2 DEF PeerTakesSingle
  <2>2. accepted' \in [n : Nat, whole : BOOLEAN] /\ accepted'.n \in 0..started
    BY <1>0, <1>1, <2>1
  <2> QED
    BY <1>0, <1>1, <2>1, <2>2, PeerKeeps
<1>3. CASE PeerTakesFirst
  <2>1. PeerTake("first") /\ peer' = Beginning(Head(toPeer)) /\ UNCHANGED <<accepted, upset>>
    BY <1>3 DEF PeerTakesFirst, Beginning
  <2>2. peer' \in PeerTransfer /\ peer'.n \in 1..started
    BY <1>1, <2>1, BeginningParts
  <2> QED
    BY <1>0, <1>1, <2>1, <2>2, PeerKeeps
<1>4. CASE PeerTakesConsecutive
  <2>1. PeerTake("consecutive") /\ upset' \in BOOLEAN
    BY <1>0, <1>4, ConsecutiveTaken
  <2>2. peer' # None => peer' \in PeerTransfer /\ peer'.n \in 1..started
    BY <1>0, <1>4, ConsecutiveTaken, GotParts DEF Receiving
  <2>3. accepted' \in [n : Nat, whole : BOOLEAN] /\ accepted'.n \in 0..started
    <3>1. CASE accepted' = accepted
      BY <1>0, <3>1
    <3>2. CASE Receiving /\ peer \in PeerTransfer
               /\ accepted' = [n |-> Got.n, whole |-> Got.whole]
      <4>1. Got \in PeerTransfer /\ Got.n \in 1..started
        BY <1>0, <3>2, GotParts DEF Receiving
      <4>2. Got.whole \in BOOLEAN
        BY <4>1 DEF PeerTransfer
      <4> QED
        BY <1>0, <3>2, <4>1, <4>2
    <3> QED
      BY <1>4, <3>1, <3>2, ConsecutiveTaken
  <2> QED
    BY <1>1, <2>1, <2>2, <2>3, PeerKeeps
<1>5. CASE PeerSendsFlowControl
  <2>1. PICK flow \in FlowType :
          /\ toHost' = Append(toHost, flow) /\ flow.n = peer.n
          /\ flow.block_size \in PeerBlockSizes
          /\ \/ flow.status = "continue" /\ peer' = Cleared(flow.block_size)
             \/ flow.status = "wait" /\ peer' = peer
             \/ flow.status = "overflow" /\ peer' = None
    BY <1>5, FlowControlSent
  <2>2. /\ Receiving /\ peer \in PeerTransfer
        /\ UNCHANGED <<host, tx, started, toPeer, accepted, lost, upset, misled>>
    BY <1>5, FlowControlSent
  <2>3. FlowsNumbered' /\ Len(toHost') <= MaxQueued
    <3>1. /\ toHost' \in Seq(FlowType) /\ Len(toHost') = Len(toHost) + 1
          /\ \A i \in 1..Len(toHost') : \/ i \in 1..Len(toHost) /\ toHost'[i] = toHost[i]
                                        \/ i = Len(toHost) + 1 /\ toHost'[i] = flow
      BY <1>0, <2>1, AppendedParts
    <3>2. Len(toHost') <= MaxQueued
      <4>1. Len(toHost) < MaxQueued /\ Len(toHost) \in Nat /\ MaxQueued \in Nat
        BY <1>5, UnderWay, SendAssumption DEF PeerSendsFlowControl
      <4> QED
        BY <3>1, <4>1
    <3>3. flow.n \in 1..started
      BY <1>0, <2>1, <2>2 DEF Receiving
    <3> QED
      BY <1>0, <2>1, <2>2, <3>1, <3>2, <3>3 DEF FlowsNumbered
  <2>4. FramesNumbered'
    BY <1>0, <2>2, SameIsPart, FramesLeft
  <2>5. peer' # None => peer' \in PeerTransfer /\ peer'.n \in 1..started
    BY <1>0, <2>1, <2>2, ClearedParts DEF Receiving
  <2> QED
    BY <1>0, <2>2, <2>3, <2>4, <2>5, PeerKeeps
<1>6. CASE PeerGivesUp
  <2>1. peer' = None /\ upset' = TRUE
        /\ UNCHANGED <<host, tx, started, toPeer, toHost, accepted, lost, misled>>
    BY <1>6 DEF PeerGivesUp, hostVars
  <2>2. FramesNumbered' /\ FlowsNumbered' /\ Len(toHost') <= MaxQueued
    BY <1>0, <2>1, SameIsPart, FramesLeft, FlowsLeft
  <2> QED
    BY <1>0, <2>1, <2>2, PeerKeeps
<1>7. CASE Lose
  <2>1. /\ toPeer' \in Seq(FrameType) /\ Part(toPeer', toPeer, 0)
        /\ toHost' \in Seq(FlowType) /\ Part(toHost', toHost, 0) /\ lost' \in 0..MaxLost
        /\ UNCHANGED <<host, tx, started, peer, accepted, misled>>
    BY <1>7, Lost
  <2>2. upset' = TRUE
    BY <1>7 DEF Lose
  <2>3. FramesNumbered' /\ FlowsNumbered' /\ Len(toHost') <= MaxQueued
    BY <2>1, FramesLeft, FlowsLeft
  <2> QED
    BY <1>0, <2>1, <2>2, <2>3, PeerKeeps
<1> QED
  BY <1>2, <1>3, <1>4, <1>5, <1>6, <1>7 DEF Peer

LEMMA InitCInv == Init => CInv
<1> SUFFICES ASSUME Init PROVE CInv
  OBVIOUS
<1>1. ~Sending /\ ~Receiving /\ started = 0 /\ toPeer = <<>> /\ toHost = <<>>
  BY DEF Init, Sending, Receiving
<1>2. TypeOK
  <2>1. accepted.n \in 0..started /\ accepted.whole \in BOOLEAN
    BY DEF Init
  <2>2. Len(toHost) <= MaxQueued /\ started \in 0..MaxPayloads /\ lost \in 0..MaxLost
    BY SendAssumption DEF Init
  <2> QED
    BY <2>1, <2>2 DEF Init, TypeOK
<1>3. FramesNumbered /\ FlowsNumbered /\ TransfersNumbered
  <2>1. accepted \in [n : Nat, whole : BOOLEAN]
    BY DEF Init
  <2>2. <<>> \in Seq(FrameType) /\ <<>> \in Seq(FlowType) /\ Len(toPeer) = 0 /\ Len(toHost) = 0
    BY <1>1, EmptySeq
  <2> QED
    BY <1>1, <2>1, <2>2 DEF FramesNumbered, FlowsNumbered, TransfersNumbered
<1> QED
  BY <1>2, <1>3 DEF Init, CInv, BlockCounted, PanicsOnlyUnbounded

LEMMA CInvStep == CInv /\ [Next]_vars => CInv'
<1>1. ASSUME CInv, UNCHANGED vars PROVE CInv'
  BY <1>1 DEF vars, hostVars, peerVars, CInv, TypeOK, FramesNumbered, FlowsNumbered,
              TransfersNumbered, BlockCounted, PanicsOnlyUnbounded, Receiving, Sending
<1> QED
  BY <1>1, HostStep, PeerStep DEF Next

(* The counters stay in their widths and each transfer in its bounds; the  *)
(* u8 that counts a block never overflows if there are blocks.             *)
THEOREM CountersAlwaysFit == Spec => []CountersFit
<1>1. CInv => CountersFit
  BY DEF CInv, CountersFit
<1> QED
  BY <1>1, InitCInv, CInvStep, PTL DEF Spec
-----------------------------------------------------------------------------
(* The order of what is under way.                                         *)

\* The host is handed flow controls in the order the peer sent them in, and
\* goes on with those of the payload it sends.
LEMMA MayContinueLeft ==
  ASSUME CInv, NEW k \in Nat, Part(toHost', toHost, k), started' = started,
         host' = "send" => MayContinue, Receiving' => Receiving /\ peer'.n = peer.n
  PROVE  MayContinue' => MayContinue
<1>1. ASSUME NEW i \in 1..Len(toHost'), toHost'[i].n = started
      PROVE  MayContinue
  BY <1>1 DEF Part, MayContinue
<1>2. Receiving' /\ peer'.n = started => MayContinue
  BY DEF MayContinue
<1> QED
  BY <1>1, <1>2 DEF MayContinue

LEMMA OrderLeft ==
  ASSUME CInv, Ordered, NEW k \in Nat, Part(toPeer', toPeer, k), toPeer' \in Seq(FrameType),
         started' = started, Receiving' => Receiving /\ peer'.n = peer.n,
         MayContinue' => MayContinue
  PROVE  Ordered'
<1>1. \A i \in 1..Len(toPeer') :
        /\ i + k \in 1..Len(toPeer) /\ toPeer'[i] = toPeer[i + k]
        /\ \A j \in 1..(i - 1) : /\ j + k \in 1..((i + k) - 1) /\ j \in 1..Len(toPeer')
                                 /\ toPeer'[j] = toPeer[j + k]
  <2>1. \A i \in 1..Len(toPeer') : i + k \in 1..Len(toPeer) /\ toPeer'[i] = toPeer[i + k]
    BY DEF Part
  <2>2. \A i \in 1..Len(toPeer') :
          \A j \in 1..(i - 1) : j + k \in 1..((i + k) - 1) /\ j \in 1..Len(toPeer')
    OBVIOUS
  <2> QED
    BY <2>1, <2>2
<1>2. NewOnesBegin'
  <2>1. ASSUME NEW i \in 1..Len(toPeer'), Begins(toPeer'[i])
        PROVE  /\ Receiving => peer.n < toPeer'[i].n
               /\ \A j \in 1..(i - 1) : toPeer'[j].n < toPeer'[i].n
    BY <1>1, <2>1 DEF Ordered, NewOnesBegin
  <2> QED
    BY <2>1 DEF NewOnesBegin
<1>3. OldOnesContinue'
  <2>1. ASSUME NEW i \in 1..Len(toPeer'), Continues(toPeer'[i])
        PROVE  /\ \A j \in 1..(i - 1) : Continues(toPeer'[j])
               /\ Receiving => peer.n = toPeer'[i].n
    BY <1>1, <2>1 DEF Ordered, OldOnesContinue
  <2> QED
    BY <2>1 DEF OldOnesContinue
<1>4. ContinuesBegun'
  <2>1. MayContinue => /\ Receiving => peer.n = started
                       /\ \A i \in 1..Len(toPeer') : Continues(toPeer'[i]) /\ toPeer'[i].n = started
    BY <1>1 DEF Ordered, ContinuesBegun
  <2> QED
    BY <2>1 DEF ContinuesBegun
<1> QED
  BY <1>2, <1>3, <1>4 DEF Ordered

LEMMA FrameAdded ==
  ASSUME CInv, NEW frame \in FrameType, toPeer' \in {toPeer, Append(toPeer, frame)}
  PROVE  /\ toPeer' \in Seq(FrameType) /\ Len(toPeer') \in Nat /\ Len(toPeer) \in Nat
         /\ Len(toPeer) <= Len(toPeer') /\ Len(toPeer') <= Len(toPeer) + 1
         /\ \A i \in 1..Len(toPeer') : \/ i \in 1..Len(toPeer) /\ toPeer'[i] = toPeer[i]
                                       \/ /\ i = Len(toPeer) + 1 /\ toPeer'[i] = frame
                                          /\ toPeer' = Append(toPeer, frame)
         /\ \A i \in 1..Len(toPeer') :
              \A j \in 1..(i - 1) : j \in 1..Len(toPeer) /\ toPeer'[j] = toPeer[j]
         /\ toPeer' = Append(toPeer, frame) => Len(toPeer') = Len(toPeer) + 1
<1>1. toPeer \in Seq(FrameType) /\ Len(toPeer) \in Nat
  BY UnderWay
<1>2. CASE toPeer' = toPeer
  <2>1. \A i \in 1..Len(toPeer') : \A j \in 1..(i - 1) : j \in 1..Len(toPeer)
    BY <1>1, <1>2
  <2>2. toPeer' # Append(toPeer, frame)
    <3>1. Len(Append(toPeer, frame)) = Len(toPeer) + 1
      BY <1>1, AppendedParts
    <3> QED
      BY <1>1, <1>2, <3>1
  <2> QED
    BY <1>1, <1>2, <2>1, <2>2
<1>3. CASE toPeer' = Append(toPeer, frame)
  <2>1. /\ toPeer' \in Seq(FrameType) /\ Len(toPeer') = Len(toPeer) + 1
        /\ \A i \in 1..Len(toPeer') : \/ i \in 1..Len(toPeer) /\ toPeer'[i] = toPeer[i]
                                      \/ i = Len(toPeer) + 1 /\ toPeer'[i] = frame
        /\ \A i \in 1..Len(toPeer) : toPeer'[i] = toPeer[i]
    BY <1>1, <1>3, AppendedParts
  <2>2. \A i \in 1..Len(toPeer') : \A j \in 1..(i - 1) : j \in 1..Len(toPeer)
    BY <1>1, <2>1
  <2> QED
    BY <1>1, <1>3, <2>1, <2>2
<1> QED
  BY <1>2, <1>3

\* A frame that begins a payload is newer than everything.
LEMMA BeginningKeepsOrder ==
  ASSUME CInv, Ordered, NEW frame \in FrameType, Begins(frame), frame.n = started + 1,
         toPeer' \in {toPeer, Append(toPeer, frame)}, UNCHANGED <<peer, toHost>>,
         started' = started + 1, host' # "send"
  PROVE  Ordered'
<1>1. /\ started \in Nat
      /\ \A i \in 1..Len(toPeer') : \/ i \in 1..Len(toPeer) /\ toPeer'[i] = toPeer[i]
                                    \/ i = Len(toPeer) + 1 /\ toPeer'[i] = frame
      /\ \A i \in 1..Len(toPeer) : toPeer[i].n \in Nat /\ toPeer[i].n <= started
  BY UnderWay, FrameAdded
<1>2. \A i \in 1..Len(toPeer') :
        \A j \in 1..(i - 1) : j \in 1..Len(toPeer) /\ toPeer'[j] = toPeer[j]
  BY FrameAdded
<1>3. Receiving' = Receiving /\ peer' = peer /\ (Receiving => peer.n \in Nat /\ peer.n <= started)
  BY DEF Receiving, CInv, TransfersNumbered
<1>4. NewOnesBegin'
  <2>1. ASSUME NEW i \in 1..Len(toPeer'), Begins(toPeer'[i])
        PROVE  /\ Receiving => peer.n < toPeer'[i].n
               /\ \A j \in 1..(i - 1) : toPeer'[j].n < toPeer'[i].n
    <3>1. CASE i \in 1..Len(toPeer) /\ toPeer'[i] = toPeer[i]
      BY <1>2, <2>1, <3>1 DEF Ordered, NewOnesBegin
    <3>2. CASE toPeer'[i] = frame
      BY <1>1, <1>2, <1>3, <3>2
    <3> QED
      BY <1>1, <3>1, <3>2
  <2> QED
    BY <1>3, <2>1 DEF NewOnesBegin
<1>5. OldOnesContinue'
  <2>1. ASSUME NEW i \in 1..Len(toPeer'), Continues(toPeer'[i])
        PROVE  /\ \A j \in 1..(i - 1) : Continues(toPeer'[j])
               /\ Receiving => peer.n = toPeer'[i].n
    <3>1. i \in 1..Len(toPeer) /\ toPeer'[i] = toPeer[i]
      BY <1>1, <2>1 DEF Begins, Continues
    <3> QED
      BY <1>2, <2>1, <3>1 DEF Ordered, OldOnesContinue
  <2> QED
    BY <1>3, <2>1 DEF OldOnesContinue
<1>6. ~MayContinue'
  <2>1. \A i \in 1..Len(toHost') : toHost'[i].n # started'
    BY <1>1, UnderWay
  <2>2. ~(Receiving' /\ peer'.n = started')
    BY <1>1, <1>3
  <2> QED
    BY <2>1, <2>2 DEF MayContinue
<1> QED
  BY <1>4, <1>5, <1>6 DEF Ordered, ContinuesBegun

\* While the host sends, everything under way to the peer continues this
\* payload.
LEMMA ContinuationKeepsOrder ==
  ASSUME CInv, Ordered, host = "send", UNCHANGED <<peer, started>>,
         toPeer' \in {toPeer, Append(toPeer, ConsecutiveFrame)}
  PROVE  Ordered'
<1>1. /\ Receiving => peer.n = started
      /\ \A i \in 1..Len(toPeer) : Continues(toPeer[i]) /\ toPeer[i].n = started
  BY DEF Ordered, ContinuesBegun, MayContinue
<1>2. /\ ConsecutiveFrame \in FrameType /\ ConsecutiveFrame.n = started
      /\ Continues(ConsecutiveFrame)
  BY ConsecutiveParts DEF Continues
<1>3. Len(toPeer') \in Nat
      /\ \A i \in 1..Len(toPeer') : Continues(toPeer'[i]) /\ toPeer'[i].n = started
  BY <1>1, <1>2, FrameAdded
<1>4. \A i \in 1..Len(toPeer') : \A j \in 1..(i - 1) : j \in 1..Len(toPeer')
  BY <1>3
<1>5. NewOnesBegin'
  BY <1>3 DEF NewOnesBegin, Begins, Continues
<1>6. OldOnesContinue'
  BY <1>1, <1>3, <1>4 DEF OldOnesContinue, Receiving
<1>7. ContinuesBegun'
  BY <1>1, <1>3 DEF ContinuesBegun, Receiving
<1> QED
  BY <1>5, <1>6, <1>7 DEF Ordered

\* Behind a frame that begins a payload nothing continues one.
LEMMA BehindBeginning ==
  ASSUME CInv, Ordered, NEW pci \in {"single", "first"}, PeerTake(pci)
  PROVE  /\ \A i \in 1..Len(toPeer') : Begins(toPeer'[i]) /\ toPeer[1].n < toPeer'[i].n
         /\ ~MayContinue
         /\ toPeer[1].n = started => toPeer' = <<>>
<1>1. /\ toPeer' \in Seq(FrameType) /\ Part(toPeer', toPeer, 1) /\ 1 \in 1..Len(toPeer)
      /\ Begins(toPeer[1]) /\ toPeer[1].n \in 1..started
  BY TakenFrame DEF Begins
<1>2. \A i \in 1..Len(toPeer') : /\ i + 1 \in 1..Len(toPeer) /\ toPeer'[i] = toPeer[i + 1]
                                 /\ 1 \in 1..((i + 1) - 1)
  BY <1>1 DEF Part
<1>3. \A i \in 1..Len(toPeer') : Begins(toPeer'[i])
  BY <1>1, <1>2 DEF Ordered, OldOnesContinue, Continues, Begins
<1>4. \A i \in 1..Len(toPeer') : toPeer[1].n < toPeer'[i].n
  BY <1>2, <1>3 DEF Ordered, NewOnesBegin
<1>5. ~MayContinue
  BY <1>1 DEF Ordered, ContinuesBegun, Continues, Begins
<1>6. toPeer[1].n = started => toPeer' = <<>>
  <2>1. toPeer[1].n = started => ~(1 \in 1..Len(toPeer'))
    BY <1>2, <1>4, UnderWay
  <2>2. Len(toPeer') \in Nat
    BY <1>1
  <2>3. toPeer[1].n = started => Len(toPeer') = 0
    BY <2>1, <2>2
  <2> QED
    BY <1>1, <2>3, EmptySeq
<1> QED
  BY <1>3, <1>4, <1>5, <1>6

LEMMA FirstKeepsOrder ==
  ASSUME CInv, Ordered, PeerTakesFirst
  PROVE  Ordered'
<1>1. /\ PeerTake("first") /\ peer' = Beginning(toPeer[1]) /\ peer'.n = toPeer[1].n
      /\ toPeer' \in Seq(FrameType) /\ Part(toPeer', toPeer, 1)
      /\ UNCHANGED <<host, started, toHost>>
  <2>1. PeerTake("first") /\ peer' = Beginning(Head(toPeer))
    BY DEF PeerTakesFirst, Beginning
  <2> QED
    BY <2>1, TakenFrame, BeginningParts
<1>2. /\ \A i \in 1..Len(toPeer') : Begins(toPeer'[i]) /\ toPeer[1].n < toPeer'[i].n
      /\ ~MayContinue /\ (toPeer[1].n = started => toPeer' = <<>>)
  BY <1>1, BehindBeginning
<1>3. NewOnesBegin'
  <2>1. ASSUME NEW i \in 1..Len(toPeer')
        PROVE  \A j \in 1..(i - 1) : toPeer'[j].n < toPeer'[i].n
    <3>1. i + 1 \in 1..Len(toPeer) /\ toPeer'[i] = toPeer[i + 1]
      BY <1>1 DEF Part
    <3>2. \A j \in 1..(i - 1) : /\ j + 1 \in 1..((i + 1) - 1) /\ j \in 1..Len(toPeer')
                                /\ toPeer'[j] = toPeer[j + 1]
      <4>1. \A j \in 1..(i - 1) : j + 1 \in 1..((i + 1) - 1) /\ j \in 1..Len(toPeer')
        OBVIOUS
      <4> QED
        BY <1>1, <4>1 DEF Part
    <3> QED
      BY <1>2, <3>1, <3>2 DEF Ordered, NewOnesBegin
  <2> QED
    BY <1>1, <1>2, <2>1 DEF NewOnesBegin
<1>4. OldOnesContinue'
  BY <1>2 DEF OldOnesContinue, Begins, Continues
<1>5. ContinuesBegun'
  <2>1. MayContinue' => toPeer[1].n = started
    BY <1>1, <1>2 DEF MayContinue
  <2>2. toPeer[1].n = started => \A i \in 1..Len(toPeer') : FALSE
    BY <1>2
  <2> QED
    BY <1>1, <2>1, <2>2 DEF ContinuesBegun
<1> QED
  BY <1>3, <1>4, <1>5 DEF Ordered

\* A step that sends nothing, and leaves what the peer puts together or ends it.
Quiet ==
  /\ toPeer' \in Seq(FrameType) /\ \E k \in Nat : Part(toPeer', toPeer, k)
  /\ started' = started
  /\ Receiving' => /\ Receiving /\ peer'.n = peer.n /\ peer'.length = peer.length
                   /\ peer'.got = peer.got /\ peer'.whole = peer.whole
  /\ MayContinue' => MayContinue
  /\ Underway' => Underway /\ tx'.length = tx.length /\ tx'.offset = tx.offset
  /\ accepted.whole => accepted'.whole

QuietActions ==
  \/ UNCHANGED vars \/ TakeContinue \/ TakeWait \/ TakeOverflow \/ FlowControlTimeout
  \/ DropFlowControls \/ PeerTakesSingle \/ PeerSendsFlowControl \/ PeerGivesUp \/ Lose

LEMMA QuietSteps ==
  ASSUME CInv, ~misled', QuietActions
  PROVE  Quiet
<1>0. /\ toPeer \in Seq(FrameType) /\ toHost \in Seq(FlowType) /\ Part(toPeer, toPeer, 0)
      /\ Part(toHost, toHost, 0) /\ 0 \in Nat /\ 1 \in Nat
      /\ host = "send" => MayContinue
  BY UnderWay, SameIsPart DEF MayContinue
<1>1. CASE UNCHANGED vars
  <2>1. UNCHANGED <<host, tx, started, toPeer, toHost, peer, accepted>>
    BY <1>1 DEF vars, hostVars, peerVars
  <2>2. MayContinue' = MayContinue
    BY <2>1 DEF MayContinue, Receiving
  <2> QED
    BY <1>0, <2>1, <2>2 DEF Quiet, Receiving, Underway
<1>2. CASE TakeContinue
  <2>1. /\ TakeFlow("continue") /\ ~(Head(toHost).n # started)
        /\ tx' = [tx EXCEPT !.block_size = Head(toHost).block_size, !.frames_in_block = 0]
    BY <1>2 DEF TakeContinue
  <2>2. /\ toHost' \in Seq(FlowType) /\ Part(toHost', toHost, 1) /\ 1 \in 1..Len(toHost)
        /\ Head(toHost) = toHost[1] /\ toHost[1].block_size \in PeerBlockSizes
        /\ host = "flow" /\ UNCHANGED <<started, toPeer, peer, accepted, lost>>
    BY <2>1, TakenFlow
  <2>3. MayContinue
    BY <2>1, <2>2 DEF MayContinue
  <2>4. tx'.length = tx.length /\ tx'.offset = tx.offset
    <3>1. Proceeding(tx)
      BY <2>2, StaysProceeding
    <3> QED
      BY <2>1, <2>2, <3>1, FirstInBlockParts
  <2> QED
    BY <1>0, <2>2, <2>3, <2>4 DEF Quiet, Receiving, Underway
<1>3. CASE TakeWait \/ TakeOverflow
  <2>1. /\ TakeFlow("wait") \/ TakeFlow("overflow")
        /\ UNCHANGED <<host, tx>> \/ (host' = "idle" /\ tx' = None)
    BY <1>3 DEF TakeWait, TakeOverflow
  <2>2. /\ toHost' \in Seq(FlowType) /\ Part(toHost', toHost, 1)
        /\ host = "flow" /\ UNCHANGED <<started, toPeer, peer, accepted, lost>>
    BY <2>1, TakenFlow
  <2>3. MayContinue' => MayContinue
    BY <1>0, <2>1, <2>2, MayContinueLeft DEF Receiving
  <2> QED
    BY <1>0, <2>1, <2>2, <2>3 DEF Quiet, Receiving, Underway
<1>4. CASE FlowControlTimeout
  <2>1. host' = "idle" /\ UNCHANGED <<started, toPeer, toHost, peer, accepted>>
    BY <1>4 DEF FlowControlTimeout, peerVars
  <2>2. MayContinue' => MayContinue
    BY <1>0, <2>1, MayContinueLeft DEF Receiving
  <2> QED
    BY <1>0, <2>1, <2>2 DEF Quiet, Receiving, Underway
<1>5. CASE DropFlowControls
  <2>1. host = "idle" /\ toHost' = <<>> /\ UNCHANGED <<host, tx, started, toPeer, peer, accepted>>
    BY <1>5 DEF DropFlowControls, hostVars, peerVars
  <2>2. MayContinue' => MayContinue
    BY <2>1 DEF MayContinue, Receiving
  <2> QED
    BY <1>0, <2>1, <2>2 DEF Quiet, Receiving, Underway
<1>6. CASE PeerTakesSingle
  <2>1. PeerTake("single") /\ accepted' = [n |-> Head(toPeer).n, whole |-> TRUE] /\ peer' = None
    BY <1>6 DEF PeerTakesSingle
  <2>2. /\ toPeer' \in Seq(FrameType) /\ Part(toPeer', toPeer, 1)
        /\ UNCHANGED <<host, tx, started, toHost>>
    BY <2>1, TakenFrame
  <2>3. MayContinue' => MayContinue
    BY <2>1, <2>2 DEF MayContinue, Receiving
  <2>4. accepted'.whole
    BY <2>1
  <2> QED
    BY <1>0, <2>1, <2>2, <2>3, <2>4 DEF Quiet, Receiving, Underway
<1>7. CASE PeerSendsFlowControl
  <2>1. PICK flow \in FlowType :
          /\ toHost' = Append(toHost, flow) /\ flow.n = peer.n
          /\ flow.block_size \in PeerBlockSizes
          /\ \/ flow.status = "continue" /\ peer' = Cleared(flow.block_size)
             \/ flow.status = "wait" /\ peer' = peer
             \/ flow.status = "overflow" /\ peer' = None
    BY <1>7, FlowControlSent
  <2>2. /\ Receiving /\ peer \in PeerTransfer
        /\ UNCHANGED <<host, tx, started, toPeer, accepted>>
    BY <1>7, FlowControlSent
  <2>3. Receiving' => /\ peer'.n = peer.n /\ peer'.length = peer.length
                      /\ peer'.got = peer.got /\ peer'.whole = peer.whole
    BY <2>1, <2>2, ClearedParts DEF Receiving
  <2>4. ASSUME NEW i \in 1..Len(toHost'), toHost'[i].n = started PROVE MayContinue
    <3>1. \/ i \in 1..Len(toHost) /\ toHost'[i] = toHost[i]
          \/ i = Len(toHost) + 1 /\ toHost'[i] = flow
      BY <1>0, <2>1, AppendedParts
    <3> QED
      BY <2>1, <2>2, <2>4, <3>1 DEF MayContinue
  <2>5. MayContinue' => MayContinue
    BY <2>2, <2>3, <2>4 DEF MayContinue
  <2> QED
    BY <1>0, <2>2, <2>3, <2>5 DEF Quiet, Underway
<1>8. CASE PeerGivesUp
  <2>1. peer' = None /\ UNCHANGED <<host, tx, started, toPeer, toHost, accepted>>
    BY <1>8 DEF PeerGivesUp, hostVars
  <2>2. MayContinue' => MayContinue
    BY <2>1 DEF MayContinue, Receiving
  <2> QED
    BY <1>0, <2>1, <2>2 DEF Quiet, Receiving, Underway
<1>9. CASE Lose
  <2>1. /\ toPeer' \in Seq(FrameType) /\ Part(toPeer', toPeer, 0) /\ Part(toHost', toHost, 0)
        /\ UNCHANGED <<host, tx, started, peer, accepted>>
    BY <1>9, Lost
  <2>2. MayContinue' => MayContinue
    BY <1>0, <2>1, MayContinueLeft DEF Receiving
  <2> QED
    BY <1>0, <2>1, <2>2 DEF Quiet, Receiving, Underway
<1> QED
  BY <1>1, <1>2, <1>3, <1>4, <1>5, <1>6, <1>7, <1>8, <1>9 DEF QuietActions

(* A payload begins: whether its frame is sent, and what the host goes on  *)
(* with.                                                                   *)
LEMMA BeginSteps ==
  ASSUME CInv, SendSingle \/ SendFirst
  PROVE  \E frame \in FrameType :
           /\ Begins(frame) /\ frame.n = started + 1
           /\ toPeer' \in {toPeer, Append(toPeer, frame)}
           /\ started' = started + 1 /\ UNCHANGED <<peer, accepted, toHost, misled>>
           /\ \/ host' = "idle"
              \/ /\ SendFirst /\ frame.pci = "first" /\ toPeer' = Append(toPeer, frame)
                 /\ host' = "flow" /\ tx'.length = frame.length /\ tx'.offset = 1
           /\ frame.pci = "first" => upset' \/ host' = "flow"
<1>0. started \in Nat /\ (host = "idle" => tx = None)
  BY UnderWay DEF CInv, TypeOK
<1>1. CASE SendSingle
  <2> DEFINE frame == Frame("single", started + 1, 0)
  <2>1. frame \in FrameType /\ frame.n = started + 1 /\ frame.pci = "single" /\ Begins(frame)
    BY <1>0, FrameTypes DEF Begins
  <2>2. /\ started' = started + 1 /\ host = "idle" /\ UNCHANGED <<peer, accepted, toHost, misled>>
        /\ \/ FrameFails(frame)
           \/ toPeer' = Append(toPeer, frame) /\ UNCHANGED <<host, tx>>
    BY <1>1 DEF SendSingle, peerVars
  <2> HIDE DEF frame
  <2>3. toPeer' \in {toPeer, Append(toPeer, frame)} /\ host' = "idle"
    BY <2>2 DEF FrameFails
  <2> QED
    BY <2>1, <2>2, <2>3
<1>2. CASE SendFirst
  <2>1. PICK length \in Lengths \ {0} :
          LET frame == Frame("first", started + 1, length) IN
          \/ FrameFails(frame)
          \/ /\ toPeer' = Append(toPeer, frame)
             /\ host' = "flow" /\ tx' = NewTransfer(length) /\ upset' = FALSE
    BY <1>2 DEF SendFirst, SendFirstThen
  <2> DEFINE frame == Frame("first", started + 1, length)
  <2>2. length \in Nat \ {0}
    BY SendAssumption
  <2>3. /\ frame \in FrameType /\ frame.n = started + 1 /\ frame.pci = "first" /\ Begins(frame)
        /\ frame.length = length
    BY <1>0, <2>2, FrameTypes DEF Begins
  <2>4. /\ toPeer' \in {toPeer, Append(toPeer, frame)}
        /\ \/ host' = "idle" /\ upset'
           \/ host' = "flow" /\ tx' = NewTransfer(length) /\ toPeer' = Append(toPeer, frame)
    BY <2>1 DEF FrameFails
  <2> HIDE DEF frame
  <2>5. started' = started + 1 /\ UNCHANGED <<peer, accepted, toHost, misled>>
    BY <1>2 DEF SendFirst, SendFirstThen, peerVars
  <2>6. NewTransfer(length).length = length /\ NewTransfer(length).offset = 1
    BY <2>2, NewTransferParts
  <2> QED
    BY <1>2, <2>3, <2>4, <2>5, <2>6
<1> QED
  BY <1>1, <1>2

LEMMA ContinueSteps ==
  ASSUME CInv, SendConsecutive \/ SendPanics
  PROVE  /\ host = "send" /\ UNCHANGED <<started, toHost, peer, accepted, misled>>
         /\ toPeer' \in {toPeer, Append(toPeer, ConsecutiveFrame)}
         /\ Proceeding(tx)
         /\ Underway' => /\ toPeer' = Append(toPeer, ConsecutiveFrame)
                         /\ tx'.length = tx.length /\ tx'.offset = tx.offset + 1
<1>1. host = "send" /\ UNCHANGED <<started, toHost, peer, accepted, misled>>
  BY DEF SendConsecutive, SendPanics, peerVars
<1>2. Proceeding(tx)
  BY <1>1, StaysProceeding
<1>3. CASE SendPanics
  <2>1. host' = "panicked" /\ toPeer' = Append(toPeer, ConsecutiveFrame)
    BY <1>3 DEF SendPanics
  <2> QED
    BY <1>1, <1>2, <2>1 DEF Underway
<1>4. CASE SendConsecutive
  <2>1. \/ toPeer' \in {toPeer, Append(toPeer, ConsecutiveFrame)} /\ host' = "idle"
        \/ /\ toPeer' = Append(toPeer, ConsecutiveFrame)
           /\ tx' = IF host' = "idle" THEN None ELSE Sent
    BY <1>4 DEF SendConsecutive, FrameFails
  <2>2. Sent.length = tx.length /\ Sent.offset = tx.offset + 1
    BY <1>2, SentParts
  <2> QED
    BY <1>1, <1>2, <2>1, <2>2 DEF Underway
<1> QED
  BY <1>3, <1>4

LEMMA ConsecutiveKeepsOrder ==
  ASSUME CInv, Ordered, PeerTakesConsecutive
  PROVE  Ordered'
<1>1. /\ toPeer' \in Seq(FrameType) /\ Part(toPeer', toPeer, 1)
      /\ UNCHANGED <<host, started, toHost>>
  BY ConsecutiveTaken, TakenFrame
<1>2. Receiving' => Receiving /\ peer'.n = peer.n
  BY ConsecutiveTaken, GotParts DEF Receiving
<1>3. MayContinue' => MayContinue
  BY <1>1, <1>2 DEF MayContinue
<1> QED
  BY <1>1, <1>2, <1>3, OrderLeft

LEMMA StepKeepsOrder ==
  ASSUME CInv, Ordered, ~misled', [Next]_vars
  PROVE  Ordered'
<1>1. CASE QuietActions
  BY <1>1, QuietSteps, OrderLeft DEF Quiet
<1>2. CASE SendSingle \/ SendFirst
  <2>1. host' # "send"
    BY <1>2, BeginSteps
  <2> QED
    BY <1>2, <2>1, BeginSteps, BeginningKeepsOrder
<1>3. CASE SendConsecutive \/ SendPanics
  BY <1>3, ContinueSteps, ContinuationKeepsOrder
<1> QED
  BY <1>1, <1>2, <1>3, FirstKeepsOrder, ConsecutiveKeepsOrder DEF Next, Host, Peer, QuietActions
-----------------------------------------------------------------------------
(* What is missing of a payload shows in its length.                       *)

\* Numbers the arithmetic below is about.
LEMMA Measures ==
  ASSUME CInv
  PROVE  /\ \A i \in 1..Len(toPeer) : toPeer[i].position \in Nat /\ toPeer[i].length \in Nat
         /\ Receiving => /\ peer.got \in Nat /\ peer.length \in Nat /\ peer.n \in Nat
                         /\ peer.n <= started /\ Missing \in {0, 1}
         /\ host # "idle" => tx.offset \in Nat /\ tx.length \in Nat /\ tx.offset <= tx.length
<1>1. \A i \in 1..Len(toPeer) : toPeer[i].position \in Nat /\ toPeer[i].length \in Nat
  BY UnderWay DEF FrameType
<1>2. Receiving => /\ peer.got \in Nat /\ peer.length \in Nat /\ peer.n \in Nat
                   /\ peer.n <= started
  BY DEF CInv, TransfersNumbered, PeerTransfer
<1>3. host # "idle" => tx.offset \in Nat /\ tx.length \in Nat /\ tx.offset <= tx.length
  BY StaysProceeding DEF Proceeding, Transfer
<1> QED
  BY <1>1, <1>2, <1>3 DEF Missing

LEMMA SpacingLeft ==
  ASSUME CInv, Whole, NEW k \in Nat, Part(toPeer', toPeer, k), toPeer' \in Seq(FrameType),
         started' = started,
         Receiving' => Receiving /\ peer'.n = peer.n /\ peer'.length = peer.length,
         Underway' => Underway /\ tx'.length = tx.length /\ tx'.offset = tx.offset
  PROVE  LengthsAgree' /\ Spaced'
<1>1. /\ \A i \in 1..Len(toPeer') : i + k \in 1..Len(toPeer) /\ toPeer'[i] = toPeer[i + k]
      /\ Len(toPeer') + k <= Len(toPeer) /\ Len(toPeer') \in Nat /\ Len(toPeer) \in Nat
  BY UnderWay DEF Part
<1>2. LengthsAgree'
  BY <1>1 DEF Whole, LengthsAgree
<1>3. Spaced'
  <2>1. ASSUME NEW j \in 1..Len(toPeer'), Continues(toPeer'[j])
        PROVE  /\ \A i \in 1..(j - 1) : toPeer'[j].position >= toPeer'[i].position + (j - i)
               /\ Underway' /\ toPeer'[j].n = started' =>
                    tx'.offset > toPeer'[j].position + (Len(toPeer') - j)
    <3>1. Continues(toPeer[j + k]) /\ toPeer'[j] = toPeer[j + k] /\ j + k \in 1..Len(toPeer)
      BY <1>1, <2>1
    <3>2. ASSUME NEW i \in 1..(j - 1)
          PROVE  toPeer'[j].position >= toPeer'[i].position + (j - i)
      <4>1. i \in 1..Len(toPeer') /\ i + k \in 1..((j + k) - 1) /\ (j + k) - (i + k) = j - i
        OBVIOUS
      <4>2. toPeer[j + k].position >= toPeer[i + k].position + ((j + k) - (i + k))
        BY <3>1, <4>1 DEF Whole, Spaced
      <4> QED
        BY <1>1, <3>1, <4>1, <4>2
    <3>3. ASSUME Underway', toPeer'[j].n = started'
          PROVE  tx'.offset > toPeer'[j].position + (Len(toPeer') - j)
      <4>1. tx.offset > toPeer[j + k].position + (Len(toPeer) - (j + k))
        BY <3>1, <3>3 DEF Whole, Spaced
      <4>2. tx.offset \in Nat /\ toPeer[j + k].position \in Nat
        BY <3>1, <3>3, Measures DEF Underway
      <4>3. Len(toPeer) - (j + k) >= Len(toPeer') - j /\ j \in Nat
        BY <1>1
      <4>4. tx.offset > toPeer[j + k].position + (Len(toPeer') - j)
        BY <1>1, <4>1, <4>2, <4>3
      <4> QED
        BY <3>1, <3>3, <4>4
    <3> QED
      BY <3>2, <3>3
  <2> QED
    BY <2>1 DEF Spaced
<1> QED
  BY <1>2, <1>3

LEMMA QuietKeepsWhole ==
  ASSUME CInv, Whole, Quiet
  PROVE  Whole'
<1>1. PICK k \in Nat : Part(toPeer', toPeer, k)
  BY DEF Quiet
<1>2. /\ \A i \in 1..Len(toPeer') : i + k \in 1..Len(toPeer) /\ toPeer'[i] = toPeer[i + k]
      /\ Len(toPeer') + k <= Len(toPeer) /\ Len(toPeer') \in Nat /\ Len(toPeer) \in Nat
  BY <1>1, UnderWay DEF Part, Quiet
<1>3. LengthsAgree' /\ Spaced'
  BY <1>1, SpacingLeft DEF Quiet
<1>4. Reaches'
  <2> SUFFICES ASSUME Receiving' PROVE Reaches'
    BY DEF Reaches
  <2>1. /\ Receiving /\ peer'.n = peer.n /\ peer'.length = peer.length /\ peer'.got = peer.got
        /\ peer'.whole = peer.whole
    BY DEF Quiet
  <2>2. Missing' = Missing /\ Missing \in {0, 1} /\ peer.got \in Nat
    BY <2>1, Measures DEF Missing
  <2>3. ASSUME NEW i \in 1..Len(toPeer'), Continues(toPeer'[i])
        PROVE  /\ toPeer'[i].position >= peer.got + i + Missing
               /\ toPeer'[i].position <= peer.length
    <3>1. /\ toPeer[i + k].position >= peer.got + (i + k) + Missing
          /\ toPeer[i + k].position <= peer.length /\ toPeer[i + k].position \in Nat
      BY <1>2, <2>1, <2>3, Measures DEF Whole, Reaches
    <3>2. i \in Nat /\ toPeer'[i] = toPeer[i + k]
      BY <1>2
    <3>3. toPeer[i + k].position >= peer.got + i + Missing
      BY <2>2, <3>1, <3>2
    <3> QED
      BY <3>1, <3>2, <3>3
  <2>4. ASSUME Underway', peer.n = started
        PROVE  tx'.offset > peer.got + Len(toPeer') + Missing
    <3>1. tx.offset > peer.got + Len(toPeer) + Missing /\ tx.offset \in Nat /\ tx'.offset = tx.offset
      BY <2>1, <2>4, Measures DEF Whole, Reaches, Quiet, Underway
    <3> QED
      BY <1>2, <2>2, <3>1
  <2>5. started' = started
    BY DEF Quiet
  <2> QED
    BY <2>1, <2>2, <2>3, <2>4, <2>5 DEF Reaches
<1> QED
  BY <1>3, <1>4 DEF Whole, Quiet

LEMMA BeginningKeepsWhole ==
  ASSUME CInv, Whole, SendSingle \/ SendFirst
  PROVE  Whole'
<1>1. PICK frame \in FrameType :
        /\ Begins(frame) /\ frame.n = started + 1
        /\ toPeer' \in {toPeer, Append(toPeer, frame)}
        /\ started' = started + 1 /\ UNCHANGED <<peer, accepted, toHost, misled>>
        /\ \/ host' = "idle"
           \/ /\ frame.pci = "first" /\ toPeer' = Append(toPeer, frame)
              /\ host' = "flow" /\ tx'.length = frame.length /\ tx'.offset = 1
  BY BeginSteps
<1>2. /\ \A i \in 1..Len(toPeer') : \/ i \in 1..Len(toPeer) /\ toPeer'[i] = toPeer[i]
                                    \/ i = Len(toPeer) + 1 /\ toPeer'[i] = frame
      /\ \A i \in 1..Len(toPeer') :
           \A j \in 1..(i - 1) : j \in 1..Len(toPeer) /\ toPeer'[j] = toPeer[j]
  BY <1>1, FrameAdded
<1>3. /\ \A i \in 1..Len(toPeer) : toPeer[i].n # started'
      /\ Receiving' = Receiving /\ peer' = peer /\ (Receiving => peer.n # started')
  <2>1. \A i \in 1..Len(toPeer) : toPeer[i].n \in Nat /\ toPeer[i].n <= started
    BY UnderWay
  <2>2. started \in Nat /\ (Receiving => peer.n \in Nat /\ peer.n <= started)
    BY UnderWay, Measures
  <2> QED
    BY <1>1, <2>1, <2>2 DEF Receiving
<1>4. LengthsAgree'
  <2>1. Underway' => tx'.length = frame.length
    BY <1>1 DEF Underway
  <2> QED
    BY <1>2, <1>3, <2>1 DEF LengthsAgree
<1>5. \A i \in 1..Len(toPeer') : Continues(toPeer'[i]) => i \in 1..Len(toPeer) /\ toPeer'[i] = toPeer[i]
  BY <1>1, <1>2 DEF Begins, Continues
<1>6. Spaced'
  <2>1. ASSUME NEW j \in 1..Len(toPeer'), Continues(toPeer'[j])
        PROVE  /\ \A i \in 1..(j - 1) : toPeer'[j].position >= toPeer'[i].position + (j - i)
               /\ toPeer'[j].n # started'
    BY <1>2, <1>3, <1>5, <2>1 DEF Whole, Spaced
  <2> QED
    BY <2>1 DEF Spaced
<1>7. Reaches'
  <2>1. ASSUME Receiving, NEW i \in 1..Len(toPeer'), Continues(toPeer'[i])
        PROVE  /\ toPeer'[i].position >= peer.got + i + Missing
               /\ toPeer'[i].position <= peer.length
    BY <1>5, <2>1 DEF Whole, Reaches
  <2>2. Missing' = Missing
    BY <1>3 DEF Missing
  <2> QED
    BY <1>3, <2>1, <2>2 DEF Reaches
<1> QED
  BY <1>1, <1>4, <1>6, <1>7 DEF Whole

LEMMA ContinuationKeepsWhole ==
  ASSUME CInv, Ordered, Whole, SendConsecutive \/ SendPanics
  PROVE  Whole'
<1>0. /\ host = "send" /\ UNCHANGED <<started, toHost, peer, accepted, misled>>
      /\ toPeer' \in {toPeer, Append(toPeer, ConsecutiveFrame)}
      /\ Underway' => /\ toPeer' = Append(toPeer, ConsecutiveFrame)
                      /\ tx'.length = tx.length /\ tx'.offset = tx.offset + 1
  BY ContinueSteps
<1>1. /\ ConsecutiveFrame \in FrameType /\ ConsecutiveFrame.n = started
      /\ ConsecutiveFrame.pci = "consecutive" /\ ConsecutiveFrame.position = tx.offset
  BY <1>0, ConsecutiveParts
<1>2. /\ Len(toPeer) \in Nat /\ Len(toPeer') \in Nat
      /\ \A i \in 1..Len(toPeer') : \/ i \in 1..Len(toPeer) /\ toPeer'[i] = toPeer[i]
                                    \/ i = Len(toPeer) + 1 /\ toPeer'[i] = ConsecutiveFrame
      /\ \A i \in 1..Len(toPeer') :
           \A j \in 1..(i - 1) : j \in 1..Len(toPeer) /\ toPeer'[j] = toPeer[j]
      /\ Underway' => Len(toPeer') = Len(toPeer) + 1
  BY <1>0, <1>1, FrameAdded
<1>3. /\ tx.offset \in Nat /\ tx.length \in Nat /\ tx.offset <= tx.length
      /\ \A i \in 1..Len(toPeer) : toPeer[i].position \in Nat
      /\ Receiving => peer.got \in Nat /\ peer.length \in Nat /\ Missing \in {0, 1}
      /\ Underway
  BY <1>0, Measures DEF Underway
<1>4. /\ Receiving => peer.n = started
      /\ \A i \in 1..Len(toPeer) : Continues(toPeer[i]) /\ toPeer[i].n = started
  BY <1>0 DEF Ordered, ContinuesBegun, MayContinue
<1>5. Receiving' = Receiving /\ peer' = peer /\ Missing' = Missing /\ started' = started
  BY <1>0 DEF Receiving, Missing
<1>6. LengthsAgree'
  <2>1. \A i \in 1..Len(toPeer') : toPeer'[i].pci = "consecutive"
    BY <1>1, <1>2, <1>4 DEF Continues
  <2>2. Receiving => peer.length = tx.length
    BY <1>3, <1>4 DEF Whole, LengthsAgree
  <2> QED
    BY <1>0, <1>5, <2>1, <2>2 DEF LengthsAgree
<1>7. \A i \in 1..Len(toPeer) : tx.offset > toPeer[i].position + (Len(toPeer) - i)
  BY <1>3, <1>4 DEF Whole, Spaced
<1>8. Spaced'
  <2>1. ASSUME NEW j \in 1..Len(toPeer')
        PROVE  /\ \A i \in 1..(j - 1) : toPeer'[j].position >= toPeer'[i].position + (j - i)
               /\ Underway' => tx'.offset > toPeer'[j].position + (Len(toPeer') - j)
    <3>1. CASE j \in 1..Len(toPeer) /\ toPeer'[j] = toPeer[j]
      <4>1. \A i \in 1..(j - 1) : toPeer'[j].position >= toPeer'[i].position + (j - i)
        BY <1>2, <1>4, <3>1 DEF Whole, Spaced
      <4>2. tx.offset > toPeer[j].position + (Len(toPeer) - j) /\ toPeer[j].position \in Nat
        BY <1>3, <1>7, <3>1
      <4>3. tx.offset + 1 > toPeer[j].position + ((Len(toPeer) + 1) - j)
        BY <1>2, <1>3, <3>1, <4>2
      <4> QED
        BY <1>0, <1>2, <3>1, <4>1, <4>3
    <3>2. CASE j = Len(toPeer) + 1 /\ toPeer'[j] = ConsecutiveFrame
      <4>1. ASSUME NEW i \in 1..(j - 1)
            PROVE  toPeer'[j].position >= toPeer'[i].position + (j - i)
        <5>1. i \in 1..Len(toPeer) /\ toPeer'[i] = toPeer[i]
          BY <1>2
        <5>2. tx.offset > toPeer[i].position + (Len(toPeer) - i) /\ toPeer[i].position \in Nat
          BY <1>3, <1>7, <5>1
        <5>3. tx.offset >= toPeer[i].position + (j - i)
          BY <1>2, <1>3, <3>2, <5>1, <5>2
        <5> QED
          BY <1>1, <3>2, <5>1, <5>3
      <4> QED
        BY <1>0, <1>1, <1>2, <1>3, <3>2, <4>1
    <3> QED
      BY <1>2, <3>1, <3>2
  <2> QED
    BY <2>1 DEF Spaced
<1>9. Reaches'
  <2> SUFFICES ASSUME Receiving PROVE Reaches'
    BY <1>5 DEF Reaches
  <2>1. tx.offset > peer.got + Len(toPeer) + Missing /\ peer.length = tx.length
    BY <1>3, <1>4 DEF Whole, Reaches, LengthsAgree
  <2>2. ASSUME NEW i \in 1..Len(toPeer')
        PROVE  /\ toPeer'[i].position >= peer.got + i + Missing
               /\ toPeer'[i].position <= peer.length
    <3>1. CASE i \in 1..Len(toPeer) /\ toPeer'[i] = toPeer[i]
      BY <1>4, <3>1 DEF Whole, Reaches
    <3>2. CASE i = Len(toPeer) + 1 /\ toPeer'[i] = ConsecutiveFrame
      BY <1>1, <1>2, <1>3, <2>1, <3>2
    <3> QED
      BY <1>2, <3>1, <3>2
  <2>3. Underway' => tx'.offset > peer.got + Len(toPeer') + Missing
    BY <1>0, <1>2, <1>3, <2>1
  <2> QED
    BY <1>5, <2>2, <2>3 DEF Reaches
<1> QED
  BY <1>0, <1>6, <1>8, <1>9 DEF Whole

LEMMA FirstKeepsWhole ==
  ASSUME CInv, Ordered, Whole, PeerTakesFirst
  PROVE  Whole'
<1>1. /\ PeerTake("first") /\ peer' = Beginning(Head(toPeer)) /\ UNCHANGED accepted
  BY DEF PeerTakesFirst, Beginning
<1>2. /\ toPeer' \in Seq(FrameType) /\ Part(toPeer', toPeer, 1) /\ 1 \in 1..Len(toPeer)
      /\ Head(toPeer) = toPeer[1] /\ toPeer[1].pci = "first" /\ toPeer[1] \in FrameType
      /\ UNCHANGED <<host, tx, started>>
  BY <1>1, TakenFrame
<1>3. /\ \A i \in 1..Len(toPeer') : ~Continues(toPeer'[i])
      /\ toPeer[1].n = started => toPeer' = <<>>
  BY <1>1, BehindBeginning DEF Begins, Continues
<1>4. peer'.n = toPeer[1].n /\ peer'.length = toPeer[1].length /\ peer'.got = 0 /\ peer'.whole
  BY <1>1, <1>2, BeginningParts
<1>5. Underway' = Underway
  BY <1>2 DEF Underway
<1>6. LengthsAgree'
  <2>1. Underway /\ toPeer[1].n = started => toPeer[1].length = tx.length
    BY <1>2 DEF Whole, LengthsAgree
  <2>2. \A i \in 1..Len(toPeer') :
          Underway /\ toPeer'[i].pci = "first" /\ toPeer'[i].n = started => toPeer'[i].length = tx.length
    BY <1>2 DEF Whole, LengthsAgree, Part
  <2> QED
    BY <1>2, <1>4, <1>5, <2>1, <2>2 DEF LengthsAgree
<1>7. Spaced'
  BY <1>3 DEF Spaced
<1>8. Reaches'
  <2>1. Missing' = 0
    BY <1>4 DEF Missing
  <2>2. ASSUME Underway', peer'.n = started'
        PROVE  tx'.offset > peer'.got + Len(toPeer') + Missing'
    <3>1. Len(toPeer') = 0
      BY <1>2, <1>3, <1>4, <2>2
    <3>2. tx.offset > 0
      BY <1>5, <2>2, StaysProceeding DEF Underway, Proceeding
    <3> QED
      BY <1>2, <1>4, <2>1, <3>1, <3>2
  <2> QED
    BY <1>3, <2>2 DEF Reaches
<1> QED
  BY <1>1, <1>6, <1>7, <1>8 DEF Whole

\* The peer is done with a payload, or a frame of it is missing and shows.
LEMMA ConsecutiveKeepsWhole ==
  ASSUME CInv, Ordered, Whole, PeerTakesConsecutive
  PROVE  Whole'
<1>1. /\ toPeer' \in Seq(FrameType) /\ Part(toPeer', toPeer, 1) /\ Len(toPeer') = Len(toPeer) - 1
      /\ 1 \in 1..Len(toPeer) /\ Head(toPeer) = toPeer[1] /\ Continues(toPeer[1])
      /\ UNCHANGED <<host, tx, started>>
  BY ConsecutiveTaken, TakenFrame DEF Continues
<1>2. Receiving' => Receiving /\ peer' = Got /\ Got.n = peer.n /\ Got.length = peer.length
  BY ConsecutiveTaken, GotParts DEF Receiving
<1>3. LengthsAgree' /\ Spaced'
  BY <1>1, <1>2, SpacingLeft DEF Underway
<1>4. ASSUME Receiving, peer \in PeerTransfer
      PROVE  /\ Got.got = peer.got + 1 /\ Got.length = peer.length
             /\ toPeer[1].n = peer.n
             /\ toPeer[1].position >= peer.got + 1 + Missing
             /\ toPeer[1].position <= peer.length
             /\ Got.whole <=> peer.whole /\ toPeer[1].position = peer.got + 1
             /\ toPeer[1].position \in Nat /\ peer.got \in Nat /\ peer.length \in Nat
             /\ Missing \in {0, 1}
  <2>1. toPeer[1].n = peer.n
    BY <1>1, <1>4 DEF Ordered, OldOnesContinue
  <2>2. toPeer[1].position >= peer.got + 1 + Missing /\ toPeer[1].position <= peer.length
    BY <1>1, <1>4 DEF Whole, Reaches
  <2> QED
    BY <1>1, <1>4, <2>1, <2>2, GotParts, Measures
<1>5. accepted'.whole
  <2>1. CASE accepted' = accepted
    BY <2>1 DEF Whole
  <2>2. CASE /\ Receiving /\ peer \in PeerTransfer /\ ~(Got.got < Got.length)
             /\ accepted' = [n |-> Got.n, whole |-> Got.whole]
    <3>1. toPeer[1].position = peer.got + 1 /\ Missing = 0
      BY <1>4, <2>2
    <3>2. peer.whole
      BY <3>1 DEF Missing
    <3> QED
      BY <1>4, <2>2, <3>1, <3>2
  <2> QED
    BY <2>1, <2>2, ConsecutiveTaken
<1>6. Reaches'
  <2> SUFFICES ASSUME Receiving' PROVE Reaches'
    BY DEF Reaches
  <2>1. Receiving /\ peer \in PeerTransfer /\ peer' = Got /\ peer'.n = peer.n
        /\ peer'.length = peer.length
    BY <1>2 DEF CInv, TransfersNumbered
  <2>2. peer'.got = peer.got + 1 /\ Missing' \in {0, 1}
        /\ (peer'.whole <=> peer.whole /\ toPeer[1].position = peer.got + 1)
    BY <1>4, <2>1 DEF Missing
  <2>3. toPeer[1].position >= peer'.got + Missing'
    <3>1. CASE peer'.whole
      BY <1>4, <2>1, <2>2, <3>1 DEF Missing
    <3>2. CASE ~peer'.whole
      <4>1. Missing' = 1 /\ (~peer.whole \/ toPeer[1].position # peer.got + 1)
        BY <2>2, <3>2 DEF Missing
      <4>2. peer.whole <=> Missing = 0
        BY DEF Missing
      <4> QED
        BY <1>4, <2>1, <2>2, <4>1, <4>2
    <3> QED
      BY <3>1, <3>2
  <2>4. ASSUME NEW i \in 1..Len(toPeer'), Continues(toPeer'[i])
        PROVE  /\ toPeer'[i].position >= peer'.got + i + Missing'
               /\ toPeer'[i].position <= peer'.length
    <3>1. /\ i + 1 \in 1..Len(toPeer) /\ toPeer'[i] = toPeer[i + 1] /\ 1 \in 1..((i + 1) - 1)
          /\ (i + 1) - 1 = i
      BY <1>1 DEF Part
    <3>2. toPeer[i + 1].position >= toPeer[1].position + i
      BY <2>4, <3>1 DEF Whole, Spaced
    <3>3. toPeer[i + 1].position <= peer.length /\ toPeer[i + 1].position \in Nat
      BY <2>1, <2>4, <3>1, Measures DEF Whole, Reaches
    <3>4. i \in Nat /\ toPeer[1].position \in Nat /\ peer'.got \in Nat
      BY <1>1, <1>4, <2>1, <2>2
    <3>5. toPeer[i + 1].position >= peer'.got + i + Missing'
      <4>1. \A a, b, c, d, m \in Nat : a >= b + d /\ b >= c + m => a >= c + d + m
        OBVIOUS
      <4>2. Missing' \in Nat
        BY <2>2
      <4> QED
        BY <2>3, <3>2, <3>3, <3>4, <4>1, <4>2
    <3> QED
      BY <2>1, <3>1, <3>3, <3>5
  <2>5. ASSUME Underway', peer'.n = started'
        PROVE  tx'.offset > peer'.got + Len(toPeer') + Missing'
    <3>1. Underway /\ toPeer[1].n = started
      BY <1>1, <1>4, <2>1, <2>5 DEF Underway
    <3>2. tx.offset > toPeer[1].position + (Len(toPeer) - 1)
      BY <1>1, <3>1 DEF Whole, Spaced
    <3>3. tx.offset \in Nat /\ Len(toPeer) \in Nat /\ Len(toPeer') = Len(toPeer) - 1
      BY <1>1, <3>1, Measures, UnderWay DEF Underway
    <3> QED
      BY <1>1, <1>4, <2>1, <2>2, <2>3, <3>2, <3>3
  <2> QED
    BY <2>4, <2>5 DEF Reaches
<1> QED
  BY <1>3, <1>5, <1>6 DEF Whole

LEMMA StepKeepsWhole ==
  ASSUME CInv, Ordered, Whole, ~misled', [Next]_vars
  PROVE  Whole'
<1>1. CASE QuietActions
  BY <1>1, QuietSteps, QuietKeepsWhole
<1> QED
  BY <1>1, BeginningKeepsWhole, ContinuationKeepsWhole, FirstKeepsWhole, ConsecutiveKeepsWhole
  DEF Next, Host, Peer, QuietActions

\* What misled the host once stays.
LEMMA MisledStays ==
  ASSUME CInv, [Next]_vars, ~misled'
  PROVE  ~misled
<1>1. CASE TakeContinue
  BY <1>1 DEF TakeContinue
<1>2. CASE ~TakeContinue
  <2>1. misled' = misled
    BY <1>2 DEF Next, Host, Peer, SendSingle, SendFirst, SendFirstThen, TakeWait, TakeOverflow,
                FlowControlTimeout, SendConsecutive, SendPanics, DropFlowControls, PeerTake,
                PeerTakesSingle, PeerTakesFirst, PeerTakesConsecutive, PeerSendsFlowControl,
                PeerGivesUp, Lose, vars
  <2> QED
    BY <2>1
<1> QED
  BY <1>1, <1>2

LEMMA InitOInv == Init => OInv
<1> SUFFICES ASSUME Init PROVE OInv
  OBVIOUS
<1>1. /\ ~Receiving /\ toPeer = <<>> /\ toHost = <<>> /\ ~Underway /\ accepted.whole
      /\ host # "send"
  BY DEF Init, Receiving, Underway
<1>2. Len(toPeer) = 0 /\ Len(toHost) = 0
  BY <1>1
<1>3. Ordered
  BY <1>1, <1>2 DEF Ordered, NewOnesBegin, OldOnesContinue, ContinuesBegun, MayContinue
<1>4. Whole
  BY <1>1, <1>2 DEF Whole, LengthsAgree, Spaced, Reaches
<1> QED
  BY <1>3, <1>4, InitCInv DEF OInv

LEMMA OInvStep == OInv /\ [Next]_vars => OInv'
BY CInvStep, MisledStays, StepKeepsOrder, StepKeepsWhole DEF OInv

(* The peer takes no payload but one the host sent, with all its data in   *)
(* place, whatever is lost, fails or is abandoned, as long as no flow      *)
(* control outlived the call it was meant for.                             *)
THEOREM PayloadsAreWhole == Spec => []PayloadsWhole
<1>1. OInv => PayloadsWhole
  BY DEF OInv, Whole, PayloadsWhole
<1> QED
  BY <1>1, InitOInv, OInvStep, PTL DEF Spec
-----------------------------------------------------------------------------
(* Blocks, and who waits, as long as nothing is lost.                      *)

LEMMA CurrentParts ==
  ASSUME CInv, Current
  PROVE  /\ Receiving /\ peer \in PeerTransfer /\ peer.n = started
         /\ peer.inBlock \in Nat /\ peer.block_size \in Nat /\ peer.got \in Nat
         /\ peer.length \in Nat /\ MayContinue
BY DEF Current, CInv, TransfersNumbered, PeerTransfer, MayContinue

\* Nothing but frames that continue the current payload is on its way.
LEMMA NothingBegins ==
  ASSUME Ordered, MayContinue, NEW i \in 1..Len(toPeer)
  PROVE  toPeer[i].pci = "consecutive" /\ toPeer[i].n = started
BY DEF Ordered, ContinuesBegun, Continues

LEMMA QueuedMayContinue == ContinueQueued => MayContinue
BY DEF ContinueQueued, Continue, MayContinue

\* While the host sends, both sides know how far into the block they are.
LEMMA HostSends ==
  ASSUME CInv, Ordered, Whole, Steady, host = "send"
  PROVE  /\ Current /\ ~peer.owes /\ ~ContinueQueued
         /\ tx.block_size = peer.block_size /\ peer.length = tx.length
         /\ peer.block_size # 0 => /\ tx.frames_in_block = peer.inBlock + Len(toPeer)
                                   /\ tx.frames_in_block < peer.block_size
                                   /\ tx.frames_in_block + 1 < CounterLimit
         /\ peer.got + Len(toPeer) = tx.offset - 1
         /\ Proceeding(tx) /\ tx.frames_in_block \in Nat
<1>1. Current
  BY DEF Steady, ClearedIsCurrent
<1>2. ~peer.owes /\ ~ContinueQueued
  BY <1>1 DEF Steady, BlocksAgree
<1>3. /\ tx.block_size = peer.block_size
      /\ peer.block_size # 0 => tx.frames_in_block = peer.inBlock + Len(toPeer)
  BY <1>1, <1>2 DEF Steady, BlocksAgree, Underway
<1>4. peer.length = tx.length
  BY <1>1 DEF Whole, LengthsAgree, Underway, Current
<1>5. peer.got + Len(toPeer) = tx.offset - 1
  BY <1>1 DEF Steady, FramesConserved, Underway
<1>6. Proceeding(tx) /\ tx.frames_in_block \in Nat
  BY StaysProceeding DEF Proceeding, Transfer
<1> QED
  BY <1>1, <1>2, <1>3, <1>4, <1>5, <1>6, CountFits

\* When a payload begins, the peer cannot have it yet.
LEMMA BeginningIsSteady ==
  ASSUME CInv, SendSingle \/ SendFirst, ~upset'
  PROVE  Steady'
<1>1. PICK frame \in FrameType :
        /\ Begins(frame) /\ frame.n = started + 1
        /\ toPeer' \in {toPeer, Append(toPeer, frame)}
        /\ started' = started + 1 /\ UNCHANGED <<peer, accepted, toHost, misled>>
        /\ \/ host' = "idle"
           \/ /\ SendFirst /\ frame.pci = "first" /\ toPeer' = Append(toPeer, frame)
              /\ host' = "flow" /\ tx'.length = frame.length /\ tx'.offset = 1
        /\ frame.pci = "first" => host' = "flow"
  BY BeginSteps
<1>2. /\ \A i \in 1..Len(toPeer') : \/ i \in 1..Len(toPeer) /\ toPeer'[i] = toPeer[i]
                                    \/ i = Len(toPeer) + 1 /\ toPeer'[i] = frame
      /\ \A i \in 1..Len(toPeer) : toPeer[i].n # started'
      /\ \A i \in 1..Len(toHost') : toHost'[i].n # started'
  <2>1. \A i \in 1..Len(toPeer) : toPeer[i].n \in Nat /\ toPeer[i].n <= started
    BY UnderWay
  <2>2. \A i \in 1..Len(toHost') : toHost'[i].n \in Nat /\ toHost'[i].n <= started
    BY <1>1, UnderWay
  <2> QED
    BY <1>1, <2>1, <2>2, FrameAdded, UnderWay
<1>3. ~Current'
  <2>1. Receiving => peer.n \in Nat /\ peer.n <= started /\ started \in Nat
    BY Measures, UnderWay
  <2> QED
    BY <1>1, <2>1 DEF Current, Receiving
<1>4. ~ContinueQueued' /\ host' # "send"
  BY <1>1, <1>2 DEF ContinueQueued, Continue
<1>5. FirstSent'
  BY <1>1, <1>2 DEF FirstSent
<1>6. HostAwaits'
  <2>1. toPeer' = Append(toPeer, frame) =>
          Len(toPeer) + 1 \in 1..Len(toPeer') /\ toPeer'[Len(toPeer) + 1] = frame
    BY UnderWay, AppendedParts
  <2> QED
    BY <1>1, <2>1 DEF HostAwaits
<1> QED
  BY <1>3, <1>4, <1>5, <1>6 DEF Steady, FramesConserved, BlocksAgree, ClearedIsCurrent

\* Who waits goes on waiting for the same.
LEMMA IdleIsSteady ==
  ASSUME CInv, Steady, UNCHANGED vars \/ DropFlowControls
  PROVE  Steady'
<1>1. CASE UNCHANGED vars
  <2>1. UNCHANGED <<host, tx, started, toPeer, toHost, peer>>
    BY <1>1 DEF vars, hostVars, peerVars
  <2>2. /\ ContinueQueued' <=> ContinueQueued
        /\ OneContinue' <=> OneContinue
        /\ Current' <=> Current
        /\ Underway' <=> Underway
    BY <2>1 DEF ContinueQueued, OneContinue, Continue, Current, Receiving, Underway
  <2> QED
    BY <2>1, <2>2 DEF Steady, FirstSent, FramesConserved, BlocksAgree, HostAwaits, ClearedIsCurrent
<1>2. CASE DropFlowControls
  <2>1. host = "idle" /\ UNCHANGED <<host, tx, started, toPeer, peer>> /\ toHost' = <<>>
    BY <1>2 DEF DropFlowControls, hostVars, peerVars
  <2>2. ~ContinueQueued' /\ (Current' <=> Current) /\ ~Underway'
    BY <2>1 DEF ContinueQueued, Current, Receiving, Underway
  <2>3. Current => ~peer.owes
    BY <2>1 DEF Steady, BlocksAgree
  <2>4. FirstSent' /\ FramesConserved' /\ HostAwaits' /\ ClearedIsCurrent'
    BY <2>1, <2>2 DEF Steady, FirstSent, FramesConserved, HostAwaits, ClearedIsCurrent
  <2>5. BlocksAgree'
    BY <2>1, <2>2, <2>3 DEF Steady, BlocksAgree
  <2> QED
    BY <2>4, <2>5 DEF Steady
<1> QED
  BY <1>1, <1>2

LEMMA ContinueIsSteady ==
  ASSUME CInv, Ordered, Steady, TakeContinue, ~misled'
  PROVE  Steady'
<1>1. /\ TakeFlow("continue") /\ host' = "send" /\ ~(Head(toHost).n # started)
      /\ tx' = [tx EXCEPT !.block_size = Head(toHost).block_size, !.frames_in_block = 0]
  BY DEF TakeContinue
<1>2. /\ toHost' \in Seq(FlowType) /\ Part(toHost', toHost, 1) /\ 1 \in 1..Len(toHost)
      /\ Head(toHost) = toHost[1] /\ toHost[1].status = "continue"
      /\ toHost[1].block_size \in PeerBlockSizes
      /\ host = "flow" /\ UNCHANGED <<started, toPeer, peer, accepted, lost>>
  BY <1>1, TakenFlow
<1>3. Continue(toHost[1]) /\ ContinueQueued /\ MayContinue
  BY <1>1, <1>2, QueuedMayContinue DEF Continue, ContinueQueued
<1>4. Current /\ ~peer.owes /\ toPeer = <<>> /\ peer.inBlock = 0 /\ OneContinue
  BY <1>3 DEF Steady, ClearedIsCurrent, BlocksAgree
<1>5. toHost[1].block_size = peer.block_size
  BY <1>2, <1>3, <1>4 DEF OneContinue
<1>6. ~ContinueQueued'
  <2>1. ASSUME NEW i \in 1..Len(toHost') PROVE ~Continue(toHost'[i])
    <3>1. i + 1 \in 1..Len(toHost) /\ toHost'[i] = toHost[i + 1] /\ 1 \in 1..((i + 1) - 1)
      BY <1>2 DEF Part
    <3> QED
      BY <1>3, <1>4, <3>1 DEF OneContinue
  <2> QED
    BY <1>2, <2>1 DEF ContinueQueued, Continue
<1>7. /\ tx'.block_size = peer.block_size /\ tx'.frames_in_block = 0
      /\ tx'.offset = tx.offset
  <2>1. Proceeding(tx)
    BY <1>2, StaysProceeding
  <2> QED
    BY <1>1, <1>2, <1>5, <2>1, FirstInBlockParts
<1>8. Current' /\ Len(toPeer') = 0 /\ Len(toPeer) = 0 /\ peer' = peer /\ toPeer' = toPeer
  BY <1>2, <1>4 DEF Current, Receiving
<1>9. FirstSent' /\ HostAwaits' /\ ClearedIsCurrent'
  BY <1>1, <1>8 DEF FirstSent, HostAwaits, ClearedIsCurrent
<1>10. FramesConserved'
  <2>1. peer.got + Len(toPeer) = tx.offset - 1
    BY <1>2, <1>4 DEF Steady, FramesConserved, Underway
  <2> QED
    BY <1>1, <1>7, <1>8, <2>1 DEF FramesConserved
<1>11. BlocksAgree'
  <2>1. peer.block_size # 0 => 0 < peer.block_size /\ peer.inBlock + 0 <= peer.block_size
    BY <1>4, CurrentParts
  <2>2. 0 = peer.inBlock + Len(toPeer')
    BY <1>4, <1>8
  <2>3. peer.inBlock + Len(toPeer') <= peer.block_size \/ peer.block_size = 0
    BY <1>4, <1>8, <2>1
  <2> QED
    BY <1>1, <1>4, <1>6, <1>7, <1>8, <2>1, <2>2, <2>3 DEF BlocksAgree
<1> QED
  BY <1>9, <1>10, <1>11 DEF Steady

LEMMA WaitIsSteady ==
  ASSUME CInv, Steady, TakeWait
  PROVE  Steady'
<1>1. TakeFlow("wait") /\ UNCHANGED <<host, tx>>
  BY DEF TakeWait
<1>2. /\ toHost' \in Seq(FlowType) /\ Part(toHost', toHost, 1) /\ 1 \in 1..Len(toHost)
      /\ toHost[1].status = "wait"
      /\ host = "flow" /\ UNCHANGED <<started, toPeer, peer, accepted, lost>>
      /\ toHost' = Tail(toHost)
  BY <1>1, TakenFlow DEF TakeFlow
<1>3. /\ \A i \in 1..Len(toHost') : i + 1 \in 1..Len(toHost) /\ toHost'[i] = toHost[i + 1]
      /\ \A i \in 1..Len(toHost) : i # 1 => i - 1 \in 1..Len(toHost') /\ toHost'[i - 1] = toHost[i]
  <2>1. \A i \in 1..Len(toHost') : i + 1 \in 1..Len(toHost) /\ toHost'[i] = toHost[i + 1]
    BY <1>2 DEF Part
  <2>2. toHost \in Seq(FlowType) /\ toHost # <<>> /\ Len(toHost) \in Nat
    BY <1>1, UnderWay DEF TakeFlow
  <2>3. Len(toHost') = Len(toHost) - 1
    BY <1>2, <2>2, TailIsPart
  <2>4. \A i \in 1..Len(toHost) : i # 1 => i - 1 \in 1..Len(toHost') /\ (i - 1) + 1 = i
    BY <2>2, <2>3
  <2> QED
    BY <2>1, <2>4
<1>4. ContinueQueued' <=> ContinueQueued
  <2>1. ~Continue(toHost[1]) /\ \A flow : Continue(flow)' <=> Continue(flow)
    BY <1>2 DEF Continue
  <2>2. ASSUME NEW i \in 1..Len(toHost), Continue(toHost[i])
        PROVE  \E j \in 1..Len(toHost') : Continue(toHost'[j])
    BY <1>3, <2>1, <2>2
  <2>3. ASSUME NEW i \in 1..Len(toHost'), Continue(toHost'[i])
        PROVE  \E j \in 1..Len(toHost) : Continue(toHost[j])
    BY <1>3, <2>3
  <2>4. ContinueQueued' <=> \E j \in 1..Len(toHost') : Continue(toHost'[j])
    BY <1>2 DEF ContinueQueued, Continue
  <2> QED
    BY <2>2, <2>3, <2>4 DEF ContinueQueued
<1>5. OneContinue => OneContinue'
  <2>1. ASSUME OneContinue, NEW i \in 1..Len(toHost'), Continue(toHost'[i])
        PROVE  /\ toHost'[i].block_size = peer.block_size
               /\ \A j \in 1..(i - 1) : ~Continue(toHost'[j])
    <3>1. i + 1 \in 1..Len(toHost) /\ toHost'[i] = toHost[i + 1]
      BY <1>3
    <3>2. \A j \in 1..(i - 1) : /\ j + 1 \in 1..((i + 1) - 1) /\ j \in 1..Len(toHost')
      OBVIOUS
    <3> QED
      BY <1>3, <2>1, <3>1, <3>2 DEF OneContinue
  <2> QED
    BY <1>2, <2>1 DEF OneContinue, Continue
<1>6. (Current' <=> Current) /\ (Underway' <=> Underway)
  BY <1>1, <1>2 DEF Current, Receiving, Underway
<1>7. HostAwaits'
  <2>1. ASSUME NEW i \in 1..Len(toHost), toHost[i].status = "overflow"
        PROVE  \E j \in 1..Len(toHost') : toHost'[j].status = "overflow"
    BY <1>2, <1>3, <2>1
  <2> QED
    BY <1>1, <1>2, <1>6, <2>1 DEF Steady, HostAwaits
<1>8. FirstSent' /\ FramesConserved' /\ ClearedIsCurrent'
  BY <1>1, <1>2, <1>4, <1>6 DEF Steady, FirstSent, FramesConserved, ClearedIsCurrent
<1>9. BlocksAgree'
  BY <1>1, <1>2, <1>4, <1>5, <1>6 DEF Steady, BlocksAgree
<1> QED
  BY <1>7, <1>8, <1>9 DEF Steady

LEMMA SendingIsSteady ==
  ASSUME CInv, Ordered, Whole, Steady, SendConsecutive, ~upset'
  PROVE  Steady'
<1>1. /\ host = "send" /\ toPeer' = Append(toPeer, ConsecutiveFrame)
      /\ host' = IF BlockFull THEN "flow" ELSE IF More THEN "send" ELSE "idle"
      /\ tx' = IF host' = "idle" THEN None ELSE Sent
      /\ UNCHANGED <<started, toHost, peer>>
  BY DEF SendConsecutive, FrameFails, peerVars
<1>2. /\ Current /\ ~peer.owes /\ ~ContinueQueued
      /\ tx.block_size = peer.block_size /\ peer.length = tx.length
      /\ peer.block_size # 0 => /\ tx.frames_in_block = peer.inBlock + Len(toPeer)
                                /\ tx.frames_in_block < peer.block_size
                                /\ tx.frames_in_block + 1 < CounterLimit
      /\ peer.got + Len(toPeer) = tx.offset - 1 /\ Proceeding(tx)
  BY <1>1, HostSends
<1>3. /\ Sent.offset = tx.offset + 1 /\ Sent.length = tx.length
      /\ Sent.block_size = peer.block_size
      /\ peer.block_size # 0 => Sent.frames_in_block = peer.inBlock + Len(toPeer) + 1
  BY <1>2, SentParts
<1>4. /\ ConsecutiveFrame \in FrameType /\ ConsecutiveFrame.pci = "consecutive"
      /\ Len(toPeer) \in Nat /\ Len(toPeer') = Len(toPeer) + 1
      /\ peer.inBlock \in Nat /\ peer.block_size \in Nat /\ peer.got \in Nat
      /\ tx.offset \in Nat /\ tx.length \in Nat /\ tx.offset <= tx.length /\ MayContinue
  BY <1>1, <1>2, ConsecutiveParts, UnderWay, AppendedParts, CurrentParts, Measures
<1>5. (Current' <=> Current) /\ (ContinueQueued' <=> ContinueQueued)
  BY <1>1 DEF Current, Receiving, ContinueQueued, Continue
<1>6. \A i \in 1..Len(toPeer') : toPeer'[i].pci = "consecutive"
  BY <1>1, <1>4, UnderWay, AppendedParts, NothingBegins
<1>7. FirstSent' /\ HostAwaits' /\ ClearedIsCurrent'
  BY <1>2, <1>5, <1>6 DEF FirstSent, HostAwaits, ClearedIsCurrent
<1>8. FramesConserved'
  <2>1. Underway' => peer.got + Len(toPeer') = tx'.offset - 1
    <3>1. Underway' => tx'.offset = tx.offset + 1
      BY <1>1, <1>3 DEF Underway
    <3>2. peer.got + Len(toPeer') = (tx.offset + 1) - 1
      BY <1>2, <1>4
    <3> QED
      BY <3>1, <3>2
  <2>2. host' = "idle" => ~More
    BY <1>1 DEF BlockFull
  <2>3. ~More => tx.offset = tx.length
    BY <1>3, <1>4 DEF More
  <2>4. host' = "idle" => peer.got + Len(toPeer') = peer.length
    BY <1>2, <1>4, <2>2, <2>3
  <2> QED
    BY <1>1, <2>1, <2>4 DEF FramesConserved
<1>9. BlocksAgree'
  <2>1. Underway' => /\ tx'.block_size = peer.block_size
                     /\ peer.block_size # 0 => tx'.frames_in_block = peer.inBlock + Len(toPeer')
    <3>1. peer.inBlock + Len(toPeer') = peer.inBlock + Len(toPeer) + 1
      BY <1>4
    <3> QED
      BY <1>1, <1>3, <3>1 DEF Underway
  <2>2. peer.block_size # 0 => /\ peer.inBlock + Len(toPeer') <= peer.block_size
                               /\ peer.inBlock < peer.block_size
    BY <1>2, <1>4
  <2>3. host' = "flow" => peer.block_size # 0 /\ tx'.frames_in_block = peer.block_size
    <3>1. host' = "flow" => BlockFull /\ tx' = Sent
      BY <1>1
    <3>2. BlockFull => peer.block_size # 0 /\ Sent.frames_in_block >= peer.block_size
      BY <1>2 DEF BlockFull
    <3>3. peer.block_size # 0 => Sent.frames_in_block = peer.inBlock + Len(toPeer) + 1
      BY <1>3
    <3>4. peer.block_size # 0 => peer.inBlock + Len(toPeer) < peer.block_size
      BY <1>2
    <3>5. BlockFull => peer.block_size # 0 /\ Sent.frames_in_block = peer.block_size
      BY <1>4, <3>2, <3>3, <3>4
    <3> QED
      BY <1>3, <3>1, <3>5
  <2>4. host' # "panicked"
    BY <1>1
  <2> QED
    BY <1>1, <1>2, <1>5, <2>1, <2>2, <2>3, <2>4 DEF BlocksAgree
<1> QED
  BY <1>7, <1>8, <1>9 DEF Steady

LEMMA PanickingIsSteady ==
  ASSUME CInv, CInv', Ordered, Whole, Steady, SendPanics
  PROVE  Steady'
<1>1. /\ host = "send" /\ toPeer' = Append(toPeer, ConsecutiveFrame) /\ host' = "panicked"
      /\ UNCHANGED <<tx, started, toHost, peer>>
  BY DEF SendPanics, peerVars
<1>2. Current /\ ~peer.owes /\ ~ContinueQueued /\ tx.block_size = peer.block_size
  BY <1>1, HostSends
<1>3. tx.block_size = 0
  BY <1>1 DEF CInv, PanicsOnlyUnbounded
<1>4. /\ ConsecutiveFrame \in FrameType /\ ConsecutiveFrame.pci = "consecutive" /\ MayContinue
  BY <1>1, <1>2, ConsecutiveParts, CurrentParts
<1>5. (Current' <=> Current) /\ (ContinueQueued' <=> ContinueQueued) /\ ~Underway'
  BY <1>1 DEF Current, Receiving, ContinueQueued, Continue, Underway
<1>6. \A i \in 1..Len(toPeer') : toPeer'[i].pci = "consecutive"
  BY <1>1, <1>4, UnderWay, AppendedParts, NothingBegins
<1>7. FirstSent' /\ HostAwaits' /\ ClearedIsCurrent' /\ FramesConserved'
  BY <1>1, <1>2, <1>5, <1>6 DEF FirstSent, HostAwaits, ClearedIsCurrent, FramesConserved
<1>8. BlocksAgree'
  BY <1>1, <1>2, <1>3, <1>5 DEF BlocksAgree
<1> QED
  BY <1>7, <1>8 DEF Steady

(* The peer.                                                               *)

\* The frames that begin the payload being sent are still there, but for the
\* one taken.
LEMMA FirstLeft ==
  ASSUME CInv, Steady, NEW pci, PeerTake(pci)
  PROVE  /\ FirstSent'
         /\ \A i \in 1..Len(toPeer) : i # 1 =>
              i - 1 \in 1..Len(toPeer') /\ toPeer'[i - 1] = toPeer[i]
         /\ UNCHANGED <<host, tx, started, toHost>>
<1>1. /\ Part(toPeer', toPeer, 1) /\ Len(toPeer') = Len(toPeer) - 1 /\ Len(toPeer) \in Nat
      /\ UNCHANGED <<host, tx, started, toHost>>
  BY TakenFrame, UnderWay
<1>2. \A i \in 1..Len(toPeer') : i + 1 \in 1..Len(toPeer) /\ toPeer'[i] = toPeer[i + 1]
  BY <1>1 DEF Part
<1>3. \A i \in 1..Len(toPeer) : i # 1 => i - 1 \in 1..Len(toPeer') /\ (i - 1) + 1 = i
  BY <1>1
<1>4. FirstSent'
  BY <1>1, <1>2 DEF Steady, FirstSent
<1> QED
  BY <1>1, <1>2, <1>3, <1>4

LEMMA SingleIsSteady ==
  ASSUME CInv, Ordered, Steady, PeerTakesSingle
  PROVE  Steady'
<1>1. PeerTake("single") /\ peer' = None
  BY DEF PeerTakesSingle
<1>2. /\ 1 \in 1..Len(toPeer) /\ toPeer[1].pci = "single"
      /\ FirstSent' /\ UNCHANGED <<host, tx, started, toHost>>
      /\ \A i \in 1..Len(toPeer) : i # 1 => i - 1 \in 1..Len(toPeer') /\ toPeer'[i - 1] = toPeer[i]
  BY <1>1, TakenFrame, FirstLeft
<1>3. ~MayContinue
  BY <1>1, BehindBeginning
<1>4. ~Current /\ ~ContinueQueued /\ host # "send"
  BY <1>3, CurrentParts, QueuedMayContinue DEF MayContinue
<1>5. ~Current' /\ ~ContinueQueued' /\ host' # "send"
  BY <1>1, <1>2, <1>4 DEF Current, Receiving, ContinueQueued, Continue
<1>6. HostAwaits'
  <2>1. ASSUME NEW i \in 1..Len(toPeer), toPeer[i].pci = "first" /\ toPeer[i].n = started
        PROVE  \E j \in 1..Len(toPeer') : toPeer'[j].pci = "first" /\ toPeer'[j].n = started
    <3>1. i # 1
      BY <1>2, <2>1
    <3> QED
      BY <1>2, <2>1, <3>1
  <2> QED
    BY <1>2, <1>4, <2>1 DEF Steady, HostAwaits
<1> QED
  BY <1>2, <1>5, <1>6 DEF Steady, FramesConserved, BlocksAgree, ClearedIsCurrent

LEMMA FirstIsSteady ==
  ASSUME CInv, Ordered, Steady, PeerTakesFirst
  PROVE  Steady'
<1>1. PeerTake("first") /\ peer' = Beginning(Head(toPeer))
  BY DEF PeerTakesFirst, Beginning
<1>2. /\ 1 \in 1..Len(toPeer) /\ toPeer[1].pci = "first" /\ Head(toPeer) = toPeer[1]
      /\ toPeer[1] \in FrameType
      /\ FirstSent' /\ UNCHANGED <<host, tx, started, toHost>>
      /\ \A i \in 1..Len(toPeer) : i # 1 => i - 1 \in 1..Len(toPeer') /\ toPeer'[i - 1] = toPeer[i]
  BY <1>1, TakenFrame, FirstLeft
<1>3. ~MayContinue /\ (toPeer[1].n = started => toPeer' = <<>>)
  BY <1>1, BehindBeginning
<1>4. ~Current /\ ~ContinueQueued /\ host # "send"
  BY <1>3, CurrentParts, QueuedMayContinue DEF MayContinue
<1>5. /\ Receiving' /\ peer'.n = toPeer[1].n /\ peer'.got = 0 /\ peer'.owes
      /\ peer'.block_size = 0
  BY <1>1, <1>2, BeginningParts, SomePeerTransfer DEF Receiving
<1>6. ~ContinueQueued' /\ host' # "send"
  BY <1>2, <1>4 DEF ContinueQueued, Continue
<1>7. Current' => /\ toPeer' = <<>> /\ Len(toPeer') = 0 /\ host' = "flow" /\ tx'.offset = 1
  <2>1. toPeer[1].n = started => host = "flow" /\ tx.offset = 1
    BY <1>2 DEF Steady, FirstSent
  <2> QED
    BY <1>2, <1>3, <1>5, <2>1 DEF Current
<1>8. FramesConserved'
  BY <1>5, <1>7 DEF FramesConserved
<1>9. BlocksAgree'
  BY <1>5, <1>6, <1>7 DEF BlocksAgree
<1>10. HostAwaits'
  <2>1. ASSUME NEW i \in 1..Len(toPeer), toPeer[i].pci = "first" /\ toPeer[i].n = started
        PROVE  \/ Current'
               \/ \E j \in 1..Len(toPeer') : toPeer'[j].pci = "first" /\ toPeer'[j].n = started
    <3>1. CASE i = 1
      BY <1>2, <1>5, <2>1, <3>1 DEF Current
    <3>2. CASE i # 1
      BY <1>2, <2>1, <3>2
    <3> QED
      BY <3>1, <3>2
  <2> QED
    BY <1>2, <1>4, <2>1 DEF Steady, HostAwaits
<1> QED
  BY <1>2, <1>6, <1>8, <1>9, <1>10 DEF Steady, ClearedIsCurrent

LEMMA ConsecutiveIsSteady ==
  ASSUME CInv, Ordered, Whole, Steady, PeerTakesConsecutive, ~upset'
  PROVE  Steady'
<1>1. /\ PeerTake("consecutive") /\ Receiving /\ peer \in PeerTransfer
      /\ \/ Got.got < Got.length /\ peer' = Got
         \/ ~(Got.got < Got.length) /\ peer' = None
  BY ConsecutiveTaken
<1>2. /\ 1 \in 1..Len(toPeer) /\ toPeer[1].pci = "consecutive" /\ toPeer # <<>>
      /\ Len(toPeer') = Len(toPeer) - 1 /\ Len(toPeer) \in Nat /\ toPeer' \in Seq(FrameType)
      /\ FirstSent' /\ UNCHANGED <<host, tx, started, toHost>>
      /\ \A i \in 1..Len(toPeer) : i # 1 => i - 1 \in 1..Len(toPeer') /\ toPeer'[i - 1] = toPeer[i]
  BY <1>1, TakenFrame, FirstLeft, UnderWay
<1>3. /\ Got.n = peer.n /\ Got.got = peer.got + 1 /\ Got.inBlock = peer.inBlock + 1
      /\ Got.block_size = peer.block_size /\ Got.length = peer.length
      /\ Got.owes <=> peer.owes \/ peer.inBlock + 1 = peer.block_size
      /\ Got \in PeerTransfer
  BY <1>1, GotParts
<1>4. Receiving' <=> peer' = Got
  BY <1>1, <1>3, SomePeerTransfer DEF Receiving
<1>5. ContinueQueued' <=> ContinueQueued
  BY <1>2 DEF ContinueQueued, Continue
<1>6. ASSUME Current
      PROVE  /\ ~peer.owes /\ ~ContinueQueued
             /\ peer.got \in Nat /\ peer.length \in Nat /\ peer.inBlock \in Nat
             /\ peer.block_size \in Nat /\ peer.n = started
  BY <1>2, <1>6, CurrentParts DEF Steady, BlocksAgree
<1>7. ASSUME Current, Underway
      PROVE  peer' = Got /\ Current'
  <2>1. peer.got + Len(toPeer) = tx.offset - 1 /\ peer.length = tx.length
    BY <1>7, CurrentParts DEF Steady, FramesConserved, Whole, LengthsAgree
  <2>2. tx.offset \in Nat /\ tx.length \in Nat /\ tx.offset <= tx.length
    BY <1>7, Measures DEF Underway
  <2>3. peer.got + 1 < peer.length
    BY <1>2, <1>6, <1>7, <2>1, <2>2
  <2> QED
    BY <1>1, <1>2, <1>3, <1>4, <1>6, <1>7, <2>3 DEF Current
<1>8. ASSUME Current'
      PROVE  /\ Current /\ peer' = Got /\ peer'.n = peer.n /\ peer'.got = peer.got + 1
             /\ peer'.inBlock = peer.inBlock + 1 /\ peer'.block_size = peer.block_size
             /\ peer'.length = peer.length
             /\ peer'.owes <=> peer.inBlock + 1 = peer.block_size
  BY <1>1, <1>2, <1>3, <1>4, <1>6, <1>8 DEF Current
<1>9. FramesConserved'
  <2> SUFFICES ASSUME Current' PROVE FramesConserved'
    BY DEF FramesConserved
  <2>1. peer'.got + Len(toPeer') = peer.got + Len(toPeer)
    BY <1>2, <1>6, <1>8
  <2> QED
    BY <1>2, <1>8, <2>1 DEF Steady, FramesConserved, Underway
<1>10. BlocksAgree'
  <2> SUFFICES ASSUME Current' PROVE BlocksAgree'
    BY DEF BlocksAgree
  <2>1. peer'.inBlock + Len(toPeer') = peer.inBlock + Len(toPeer)
    BY <1>2, <1>6, <1>8
  <2>2. /\ Underway => /\ tx.block_size = peer.block_size
                       /\ peer.block_size # 0 => tx.frames_in_block = peer.inBlock + Len(toPeer)
                       /\ host = "flow" => peer.block_size # 0 /\ tx.frames_in_block = peer.block_size
        /\ peer.block_size # 0 => peer.inBlock + Len(toPeer) <= peer.block_size
        /\ peer.block_size # 0 => peer.inBlock < peer.block_size
        /\ host = "panicked" => peer.block_size = 0
    BY <1>6, <1>8 DEF Steady, BlocksAgree
  <2>3. ASSUME peer'.owes PROVE host = "flow" /\ toPeer' = <<>>
    <3>1. peer.inBlock + 1 = peer.block_size /\ peer.block_size # 0
      BY <1>6, <1>8, <2>3
    <3>2. Len(toPeer) = 1 /\ peer.inBlock + Len(toPeer) = peer.block_size
      <4>1. Len(toPeer) >= 1 /\ peer.inBlock + Len(toPeer) <= peer.block_size
        BY <1>2, <2>2, <3>1
      <4> QED
        BY <1>2, <1>6, <1>8, <3>1, <4>1
    <3>3. Len(toPeer') = 0 /\ toPeer' = <<>>
      BY <1>2, <3>2, EmptySeq
    <3>4. host # "panicked"
      BY <2>2, <3>1
    <3>5. host # "idle"
      <4>1. host = "idle" => peer.got + Len(toPeer) = peer.length
        BY <1>8 DEF Steady, FramesConserved
      <4>2. peer.got + 1 < peer.length
        BY <1>1, <1>3, <1>8, SomePeerTransfer
      <4> QED
        BY <1>6, <1>8, <3>2, <4>1, <4>2
    <3>6. host # "send"
      <4>1. host = "send" => tx.frames_in_block < peer.block_size
                             /\ tx.frames_in_block = peer.inBlock + Len(toPeer)
        BY <3>1, HostSends
      <4>2. peer.block_size \in Nat
        BY <1>6, <1>8
      <4> QED
        BY <3>2, <4>1, <4>2
    <3> QED
      BY <3>3, <3>4, <3>5, <3>6 DEF CInv, TypeOK
  <2>4. ~peer'.owes /\ peer.block_size # 0 => peer'.inBlock < peer.block_size
    BY <1>6, <1>8, <2>2
  <2>5. Underway' <=> Underway
    BY <1>2 DEF Underway
  <2>6. ~ContinueQueued'
    BY <1>5, <1>6, <1>8
  <2> QED
    BY <1>2, <1>8, <2>1, <2>2, <2>3, <2>4, <2>5, <2>6 DEF BlocksAgree
<1>11. HostAwaits'
  <2>1. ASSUME NEW i \in 1..Len(toPeer), toPeer[i].pci = "first" /\ toPeer[i].n = started
        PROVE  \E j \in 1..Len(toPeer') : toPeer'[j].pci = "first" /\ toPeer'[j].n = started
    <3>1. i # 1
      BY <1>2, <2>1
    <3> QED
      BY <1>2, <2>1, <3>1
  <2>2. host = "flow" /\ Current => Current'
    BY <1>7 DEF Underway
  <2> QED
    BY <1>2, <2>1, <2>2 DEF Steady, HostAwaits
<1>12. ClearedIsCurrent'
  <2>1. host = "send" => Current'
    BY <1>7 DEF Steady, ClearedIsCurrent, Underway
  <2>2. ContinueQueued => FALSE
    BY <1>6 DEF Steady, ClearedIsCurrent
  <2> QED
    BY <1>2, <1>5, <2>1, <2>2 DEF ClearedIsCurrent
<1> QED
  BY <1>2, <1>9, <1>10, <1>11, <1>12 DEF Steady

\* The peer answers for the payload it has: the queue gains one flow control.
LEMMA AnswerQueued ==
  ASSUME CInv, NEW flow \in FlowType, toHost' = Append(toHost, flow), started' = started
  PROVE  /\ \A i \in 1..Len(toHost') : \/ i \in 1..Len(toHost) /\ toHost'[i] = toHost[i]
                                       \/ i = Len(toHost) + 1 /\ toHost'[i] = flow
         /\ \A i \in 1..Len(toHost') :
              \A j \in 1..(i - 1) : j \in 1..Len(toHost) /\ toHost'[j] = toHost[j]
         /\ \A i \in 1..Len(toHost) : i \in 1..Len(toHost') /\ toHost'[i] = toHost[i]
         /\ Len(toHost) + 1 \in 1..Len(toHost') /\ toHost'[Len(toHost) + 1] = flow
         /\ ~ContinueQueued /\ ~Continue(flow) => ~ContinueQueued'
<1>1. /\ \A i \in 1..Len(toHost') : \/ i \in 1..Len(toHost) /\ toHost'[i] = toHost[i]
                                    \/ i = Len(toHost) + 1 /\ toHost'[i] = flow
      /\ \A i \in 1..Len(toHost) : i \in 1..Len(toHost') /\ toHost'[i] = toHost[i]
      /\ Len(toHost) + 1 \in 1..Len(toHost') /\ toHost'[Len(toHost) + 1] = flow
      /\ Len(toHost') = Len(toHost) + 1 /\ Len(toHost) \in Nat
  BY UnderWay, AppendedParts
<1>2. \A i \in 1..Len(toHost') : \A j \in 1..(i - 1) : j \in 1..Len(toHost)
  BY <1>1
<1>3. ~ContinueQueued /\ ~Continue(flow) => ~ContinueQueued'
  BY <1>1 DEF ContinueQueued, Continue
<1> QED
  BY <1>1, <1>2, <1>3

LEMMA FlowIsSteady ==
  ASSUME CInv, Steady, PeerSendsFlowControl
  PROVE  Steady'
<1>1. /\ Receiving /\ peer.owes /\ peer \in PeerTransfer
      /\ UNCHANGED <<host, tx, started, toPeer, accepted, lost, upset, misled>>
  BY FlowControlSent
<1>2. PICK flow \in FlowType :
        /\ toHost' = Append(toHost, flow) /\ flow.n = peer.n
        /\ flow.block_size \in PeerBlockSizes
        /\ \/ flow.status = "continue" /\ peer' = Cleared(flow.block_size)
           \/ flow.status = "wait" /\ peer' = peer
           \/ flow.status = "overflow" /\ peer' = None
  BY FlowControlSent
<1>3. /\ \A i \in 1..Len(toHost') : \/ i \in 1..Len(toHost) /\ toHost'[i] = toHost[i]
                                    \/ i = Len(toHost) + 1 /\ toHost'[i] = flow
      /\ \A i \in 1..Len(toHost') :
           \A j \in 1..(i - 1) : j \in 1..Len(toHost) /\ toHost'[j] = toHost[j]
      /\ \A i \in 1..Len(toHost) : i \in 1..Len(toHost') /\ toHost'[i] = toHost[i]
      /\ Len(toHost) + 1 \in 1..Len(toHost') /\ toHost'[Len(toHost) + 1] = flow
      /\ ~ContinueQueued /\ ~Continue(flow) => ~ContinueQueued'
  BY <1>1, <1>2, AnswerQueued
<1>4. /\ Cleared(flow.block_size) \in PeerTransfer /\ ~Cleared(flow.block_size).owes
      /\ Cleared(flow.block_size).inBlock = 0
      /\ Cleared(flow.block_size).block_size = flow.block_size
      /\ Cleared(flow.block_size).n = peer.n
      /\ Cleared(flow.block_size).length = peer.length
      /\ Cleared(flow.block_size).got = peer.got
  BY <1>1, <1>2, ClearedParts
<1>5. Receiving' => /\ flow.status # "overflow" /\ peer'.n = peer.n
                    /\ peer'.got = peer.got /\ peer'.length = peer.length
  BY <1>2, <1>4 DEF Receiving
<1>6. (flow.status # "overflow" => Receiving') /\ (Underway' <=> Underway) /\ FirstSent'
  BY <1>1, <1>2, <1>4, SomePeerTransfer DEF Receiving, Underway, Steady, FirstSent
<1>7. CASE Current
  <2>1. /\ host = "flow" /\ toPeer = <<>> /\ ~ContinueQueued /\ peer.n = started /\ Len(toPeer) = 0
    BY <1>1, <1>7 DEF Steady, BlocksAgree, Current
  <2>2. FramesConserved'
    BY <1>1, <1>5, <1>6, <1>7 DEF Steady, FramesConserved, Current
  <2>3. flow.status # "overflow" => Current'
    BY <1>1, <1>5, <1>6, <2>1 DEF Current
  <2>4. HostAwaits'
    BY <1>1, <1>3, <2>3 DEF HostAwaits
  <2>5. ContinueQueued' => flow.status = "continue"
    BY <1>3, <2>1 DEF Continue
  <2>6. ClearedIsCurrent'
    BY <1>1, <2>1, <2>3, <2>5 DEF ClearedIsCurrent
  <2>7. BlocksAgree'
    <3>1. CASE flow.status = "continue"
      <4>1. Continue(flow) /\ ContinueQueued'
        BY <1>1, <1>2, <1>3, <2>1, <3>1 DEF Continue, ContinueQueued
      <4>2. peer'.block_size = flow.block_size /\ ~peer'.owes /\ peer'.inBlock = 0
        BY <1>2, <1>4, <3>1
      <4>3. OneContinue'
        <5>1. \A j \in 1..Len(toHost) : ~(toHost[j].status = "continue" /\ toHost[j].n = started)
          BY <2>1 DEF ContinueQueued, Continue
        <5>2. ASSUME NEW i \in 1..Len(toHost'),
                     toHost'[i].status = "continue" /\ toHost'[i].n = started
              PROVE  /\ toHost'[i].block_size = flow.block_size
                     /\ \A j \in 1..(i - 1) : ~(toHost'[j].status = "continue" /\ toHost'[j].n = started)
          <6>1. i \notin 1..Len(toHost) \/ toHost'[i] # toHost[i]
            BY <5>1, <5>2
          <6>2. toHost'[i] = flow
            BY <1>3, <6>1
          <6>3. \A j \in 1..(i - 1) : ~(toHost'[j].status = "continue" /\ toHost'[j].n = started)
            BY <1>3, <5>1
          <6> QED
            BY <6>2, <6>3
        <5> QED
          BY <1>1, <4>2, <5>2 DEF OneContinue, Continue
      <4>4. PeerBlockSizes \subseteq Nat
        BY SendAssumption
      <4>5. flow.block_size \in Nat
        BY <1>2, <4>4
      <4>6. /\ peer'.inBlock + Len(toPeer') <= peer'.block_size
            /\ peer'.block_size # 0 => peer'.inBlock < peer'.block_size
        BY <1>1, <2>1, <4>2, <4>5
      <4> QED
        BY <1>1, <2>1, <4>1, <4>2, <4>3, <4>6 DEF BlocksAgree
    <3>2. CASE flow.status = "wait"
      <4>1. ~ContinueQueued'
        BY <1>3, <2>1, <3>2 DEF Continue
      <4>2. peer' = peer
        BY <1>2, <3>2
      <4> QED
        BY <1>1, <1>7, <2>1, <4>1, <4>2 DEF Steady, BlocksAgree
    <3>3. CASE flow.status = "overflow"
      BY <1>5, <3>3 DEF BlocksAgree, Current
    <3> QED
      BY <1>2, <3>1, <3>2, <3>3
  <2> QED
    BY <1>6, <2>2, <2>4, <2>6, <2>7 DEF Steady
<1>8. CASE ~Current
  <2>1. ~ContinueQueued /\ host # "send" /\ peer.n # started
    BY <1>1, <1>8 DEF Steady, ClearedIsCurrent, Current
  <2>2. ~ContinueQueued' /\ ~Current'
    BY <1>1, <1>2, <1>3, <1>5, <2>1 DEF Continue, Current
  <2>3. HostAwaits'
    <3>1. ASSUME NEW i \in 1..Len(toHost), toHost[i].status = "overflow"
          PROVE  \E j \in 1..Len(toHost') : toHost'[j].status = "overflow"
      BY <1>3, <3>1
    <3> QED
      BY <1>1, <1>8, <3>1 DEF Steady, HostAwaits
  <2> QED
    BY <1>1, <1>6, <2>1, <2>2, <2>3
    DEF Steady, FramesConserved, BlocksAgree, ClearedIsCurrent
<1> QED
  BY <1>7, <1>8

(* Every step, as long as nothing is lost.                                 *)

\* Actions that leave upset alone, and those that can only set it.
LEMMA UpsetStays ==
  ASSUME CInv, [Next]_vars, ~(SendSingle \/ SendFirst), ~upset'
  PROVE  /\ ~upset
         /\ ~TakeOverflow /\ ~FlowControlTimeout /\ ~PeerGivesUp /\ ~Lose
<1>1. ~TakeOverflow /\ ~FlowControlTimeout /\ ~PeerGivesUp /\ ~Lose
  BY DEF TakeOverflow, FlowControlTimeout, PeerGivesUp, Lose
<1>2. CASE PeerTakesConsecutive
  <2>1. upset' \/ upset' = upset
    BY <1>2, ConsecutiveTaken
  <2> QED
    BY <1>1, <2>1
<1>3. CASE SendConsecutive
  <2>1. upset' = TRUE \/ upset' = upset
    BY <1>3 DEF SendConsecutive, FrameFails
  <2> QED
    BY <1>1, <2>1
<1>4. CASE /\ ~PeerTakesConsecutive /\ ~SendConsecutive
  <2>1. upset' = upset
    BY <1>1, <1>4 DEF Next, Host, Peer, TakeContinue, TakeWait, SendPanics, DropFlowControls,
                      PeerTakesSingle, PeerTakesFirst, PeerSendsFlowControl, vars
  <2> QED
    BY <1>1, <2>1
<1> QED
  BY <1>2, <1>3, <1>4

LEMMA StepIsSteady ==
  ASSUME CInv, CInv', ~misled => Ordered /\ Whole, Undisturbed => Steady, [Next]_vars,
         Undisturbed'
  PROVE  Steady'
<1>1. ~misled /\ ~misled' /\ ~upset' /\ Ordered /\ Whole
  BY MisledStays DEF Undisturbed
<1>2. CASE SendSingle \/ SendFirst
  BY <1>1, <1>2, BeginningIsSteady
<1>3. CASE ~(SendSingle \/ SendFirst)
  <2>1. /\ ~TakeOverflow /\ ~FlowControlTimeout /\ ~PeerGivesUp /\ ~Lose
        /\ Steady
    BY <1>1, <1>3, UpsetStays DEF Undisturbed
  <2> QED
    BY <1>1, <1>3, <2>1, IdleIsSteady, ContinueIsSteady, WaitIsSteady, SendingIsSteady,
       PanickingIsSteady, SingleIsSteady, FirstIsSteady, ConsecutiveIsSteady, FlowIsSteady
    DEF Next, Host, Peer
<1> QED
  BY <1>2, <1>3

LEMMA InitWInv == Init => WInv
<1> SUFFICES ASSUME Init PROVE WInv
  OBVIOUS
<1>1. /\ host = "idle" /\ Len(toPeer) = 0 /\ Len(toHost) = 0 /\ ~Current
  BY DEF Init, Current, Receiving
<1>2. Steady
  BY <1>1 DEF Steady, FirstSent, FramesConserved, BlocksAgree, HostAwaits, ClearedIsCurrent,
              ContinueQueued
<1> QED
  BY <1>2, InitOInv DEF WInv

LEMMA WInvStep == WInv /\ [Next]_vars => WInv'
<1> SUFFICES ASSUME WInv, [Next]_vars PROVE WInv'
  OBVIOUS
<1>1. OInv /\ OInv' /\ (Undisturbed => Steady)
  BY OInvStep DEF WInv
<1>2. CInv /\ CInv' /\ (~misled => Ordered /\ Whole)
  BY <1>1 DEF OInv
<1>3. Undisturbed' => Steady'
  BY <1>1, <1>2, StepIsSteady
<1> QED
  BY <1>1, <1>3 DEF WInv

(* The frames of a block, those the peer has and those on their way, are   *)
(* never more than the flow control of this payload cleared.               *)
THEOREM BlocksAreRespected == Spec => []BlocksRespected
<1>1. WInv => BlocksRespected
  BY DEF WInv, Steady, BlocksAgree, BlocksRespected, Undisturbed, Current, Receiving
<1> QED
  BY <1>1, InitWInv, WInvStep, PTL DEF Spec

(* In receive_flow_control the host never waits for nothing: a frame or a  *)
(* flow control is on its way, or the peer is about to send one.           *)
THEOREM NobodyEverWaits == Spec => []NobodyWaits
<1>1. WInv => NobodyWaits
  <2> SUFFICES ASSUME WInv, Undisturbed, host = "flow", toPeer = <<>>, toHost = <<>>
               PROVE  peer # None /\ peer.owes
    BY DEF NobodyWaits, Undisturbed
  <2>1. CInv /\ Steady /\ Len(toPeer) = 0 /\ Len(toHost) = 0
    BY DEF WInv, OInv
  <2>2. Current /\ ~ContinueQueued
    BY <2>1 DEF Steady, HostAwaits, ContinueQueued
  <2>3. ASSUME ~peer.owes PROVE FALSE
    <3>1. /\ peer.block_size # 0 /\ tx.frames_in_block = peer.block_size
          /\ tx.frames_in_block = peer.inBlock + Len(toPeer)
          /\ peer.inBlock < peer.block_size
      BY <2>1, <2>2, <2>3 DEF Steady, BlocksAgree, Underway
    <3>2. peer.inBlock \in Nat /\ peer.block_size \in Nat
      BY <2>1, <2>2, CurrentParts
    <3> QED
      BY <2>1, <3>1, <3>2
  <2> QED
    BY <2>2, <2>3 DEF Current, Receiving
<1> QED
  BY <1>1, InitWInv, WInvStep, PTL DEF Spec
=============================================================================
