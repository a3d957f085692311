------------------------------- MODULE IsoTpSend -------------------------------
(***************************************************************************)
(* Sending of ISO-TP payloads by the SLCAN adapter's host                  *)
(* (send_iso_tp_data, receive_flow_control and send_frame of               *)
(* commapi/slcan_api.rs).                                                  *)
(*                                                                         *)
(* The host sends a first frame, waits at most a second for the peer's     *)
(* flow control, and sends consecutive frames block by block.  Any error   *)
(* ends the call where it stands; flow controls that come later stay in    *)
(* iso_receive_queue, for the next call to find.  The peer (external) puts *)
(* payloads together as ISO 15765-2 asks; frames and flow controls get     *)
(* lost.  Payload numbers and positions are there for the properties.      *)
(***************************************************************************)
EXTENDS Naturals, Sequences

CONSTANTS
  PeerBlockSizes,  \* block sizes the peer may ask for; 0 is "no blocks"
  SeqModulus,      \* 16 in the code: sequence numbers are four bits wide
  CounterLimit,    \* 256 in the code: frames_in_block is a u8
  Lengths,         \* payload lengths in consecutive frames; 0 is a single frame
  MaxPayloads,     \* bound: payloads the host sends
  MaxLost,         \* bound: frames and flow controls lost
  MaxQueued        \* bound: flow controls not yet taken

ASSUME SendAssumption ==
  /\ CounterLimit \in Nat \ {0}
  /\ PeerBlockSizes \subseteq 0..(CounterLimit - 1)
  /\ SeqModulus \in Nat \ {0, 1}
  /\ Lengths \subseteq Nat
  /\ MaxPayloads \in Nat /\ MaxLost \in Nat /\ MaxQueued \in Nat

VARIABLES
  host,      \* "idle", "flow" (in receive_flow_control), "send", "panicked"
  tx,        \* the host's transfer, or None
  started,   \* payloads the host has begun to send
  toPeer,    \* frames on their way to the peer
  toHost,    \* flow controls on their way, or in iso_receive_queue
  peer,      \* the payload the peer puts together, or None
  accepted,  \* the last payload the peer took: its number, whether it is whole
  lost,      \* frames and flow controls lost so far
  upset,     \* history: a frame or flow control of payload "started" did not get
             \* through, or the peer gave it up
  misled     \* history: the host took a flow control meant for an earlier payload

hostVars == <<host, tx, started>>
peerVars == <<peer, accepted>>
vars == <<hostVars, toPeer, toHost, peerVars, lost, upset, misled>>
-----------------------------------------------------------------------------
None == [length |-> 0]

Frame(pci, n, length) ==
  [pci |-> pci, n |-> n, length |-> length, seq |-> 0, position |-> 0]

ConsecutiveFrame ==
  [pci |-> "consecutive", n |-> started, length |-> 0,
   seq |-> tx.sequence, position |-> tx.offset]

Init ==
  /\ host = "idle" /\ tx = None /\ started = 0
  /\ toPeer = <<>> /\ toHost = <<>>
  /\ peer = None /\ accepted = [n |-> 0, whole |-> TRUE]
  /\ lost = 0 /\ upset = FALSE /\ misled = FALSE
-----------------------------------------------------------------------------
(* The host.                                                               *)

\* send_frame fails: rejected, or timed out with the frame perhaps on the bus.
FrameFails(frame) ==
  /\ toPeer' \in {toPeer, Append(toPeer, frame)}
  /\ host' = "idle" /\ tx' = None
  /\ upset' = TRUE

SendSingle ==
  /\ host = "idle" /\ started < MaxPayloads /\ 0 \in Lengths
  /\ started' = started + 1
  /\ LET frame == Frame("single", started + 1, 0) IN
       \/ FrameFails(frame)
       \/ toPeer' = Append(toPeer, frame) /\ upset' = FALSE /\ UNCHANGED <<host, tx>>
  /\ UNCHANGED <<toHost, peerVars, lost, misled>>

NewTransfer(length) ==
  [length |-> length, offset |-> 1, sequence |-> 1, frames_in_block |-> 0,
   block_size |-> 0]

SendFirstThen(place) ==
  /\ host = "idle" /\ started < MaxPayloads
  /\ started' = started + 1
  /\ \E length \in Lengths \ {0} :
       LET frame == Frame("first", started + 1, length) IN
       \/ FrameFails(frame)
       \/ /\ toPeer' = Append(toPeer, frame)
          /\ host' = place /\ tx' = NewTransfer(length)
          /\ upset' = FALSE
  /\ UNCHANGED <<toHost, peerVars, lost, misled>>

\* Fault: the first flow control is not waited for.
SendFirst_NoWait == SendFirstThen("send")

SendFirst == SendFirstThen("flow")

TakeFlow(status) ==
  /\ host = "flow" /\ toHost # <<>> /\ Head(toHost).status = status
  /\ toHost' = Tail(toHost)
  /\ UNCHANGED <<started, toPeer, peerVars, lost>>

\* Fault: the next block goes on counting where the last one stopped.
TakeContinue_NoReset ==
  /\ TakeFlow("continue")
  /\ host' = "send"
  /\ tx' = [tx EXCEPT !.block_size = Head(toHost).block_size]
  /\ misled' = (misled \/ Head(toHost).n # started)
  /\ UNCHANGED upset

\* Continue to send: a new block begins.
TakeContinue ==
  /\ TakeFlow("continue")
  /\ host' = "send"
  /\ tx' = [tx EXCEPT !.block_size = Head(toHost).block_size,
                      !.frames_in_block = 0]
  /\ misled' = (misled \/ Head(toHost).n # started)
  /\ UNCHANGED upset

TakeWait ==
  /\ TakeFlow("wait")
  /\ UNCHANGED <<host, tx, upset, misled>>

\* Error 12, or 11 and 13 for a flow control the host cannot make sense of.
TakeOverflow ==
  /\ TakeFlow("overflow")
  /\ host' = "idle" /\ tx' = None /\ upset' = TRUE
  /\ UNCHANGED misled

\* Error 14.
FlowControlTimeout ==
  /\ host = "flow"
  /\ host' = "idle" /\ tx' = None /\ upset' = TRUE
  /\ UNCHANGED <<started, toPeer, toHost, peerVars, lost, misled>>

Sent == [tx EXCEPT !.offset = @ + 1,
                   !.sequence = (@ + 1) % SeqModulus,
                   !.frames_in_block = (@ + 1) % CounterLimit]

More == Sent.offset <= Sent.length

\* Faults: one frame too many per block; a flow control after the last frame.
BlockFull_OneMore ==
  tx.block_size # 0 /\ Sent.frames_in_block > tx.block_size /\ More
BlockFull_AtEnd ==
  tx.block_size # 0 /\ Sent.frames_in_block >= tx.block_size

BlockFull ==
  tx.block_size # 0 /\ Sent.frames_in_block >= tx.block_size /\ More

\* Fault: the sequence number runs past four bits.
SendConsecutive_Unmasked ==
  /\ host = "send"
  /\ toPeer' = Append(toPeer, ConsecutiveFrame)
  /\ host' = IF BlockFull THEN "flow" ELSE IF More THEN "send" ELSE "idle"
  /\ tx' = IF host' = "idle" THEN None
           ELSE [Sent EXCEPT !.sequence = tx.sequence + 1]
  /\ UNCHANGED <<started, toHost, peerVars, lost, upset, misled>>

SendConsecutive ==
  /\ host = "send"
  /\ \/ FrameFails(ConsecutiveFrame)
     \/ /\ toPeer' = Append(toPeer, ConsecutiveFrame)
        /\ host' = IF BlockFull THEN "flow" ELSE IF More THEN "send" ELSE "idle"
        /\ tx' = IF host' = "idle" THEN None ELSE Sent
        /\ UNCHANGED upset
  /\ UNCHANGED <<started, toHost, peerVars, lost, misled>>

\* frames_in_block += 1 overflows: a build with overflow checks panics here,
\* any other wraps and goes on as above.
SendPanics ==
  /\ host = "send" /\ tx.frames_in_block + 1 = CounterLimit
  /\ toPeer' = Append(toPeer, ConsecutiveFrame)
  /\ host' = "panicked"
  /\ UNCHANGED <<tx, started, toHost, peerVars, lost, upset, misled>>

\* Between calls: clear_iso15765_rx_buffer, or a read that skips flow controls.
DropFlowControls ==
  /\ host = "idle" /\ toHost # <<>>
  /\ toHost' = <<>>
  /\ UNCHANGED <<hostVars, toPeer, peerVars, lost, upset, misled>>
-----------------------------------------------------------------------------
(* The peer and the bus (external).                                        *)

PeerTake(pci) ==
  /\ toPeer # <<>> /\ Head(toPeer).pci = pci
  /\ toPeer' = Tail(toPeer)
  /\ UNCHANGED <<hostVars, toHost, lost, misled>>

PeerTakesSingle ==
  /\ PeerTake("single")
  /\ accepted' = [n |-> Head(toPeer).n, whole |-> TRUE]
  /\ peer' = None
  /\ UNCHANGED upset

PeerTakesFirst ==
  /\ PeerTake("first")
  /\ peer' = [length |-> Head(toPeer).length, n |-> Head(toPeer).n, got |-> 0,
              whole |-> TRUE, next |-> 1, block_size |-> 0, inBlock |-> 0,
              owes |-> TRUE]
  /\ UNCHANGED <<accepted, upset>>

PeerTakesConsecutive ==
  /\ PeerTake("consecutive")
  /\ LET frame == Head(toPeer)
         got == [peer EXCEPT
                   !.got = @ + 1,
                   !.whole = @ /\ frame.n = peer.n /\ frame.position = peer.got + 1,
                   !.next = (@ + 1) % SeqModulus,
                   !.inBlock = @ + 1,
                   !.owes = @ \/ peer.inBlock + 1 = peer.block_size]
     IN IF peer = None \/ frame.seq # peer.next
        THEN peer' = None /\ upset' = TRUE /\ UNCHANGED accepted
        ELSE IF got.got < got.length
        THEN peer' = got /\ UNCHANGED <<accepted, upset>>
        ELSE /\ peer' = None
             /\ accepted' = [n |-> got.n, whole |-> got.whole]
             /\ UNCHANGED upset

PeerSendsFlowControl ==
  /\ peer # None /\ peer.owes /\ Len(toHost) < MaxQueued
  /\ \E status \in {"continue", "wait", "overflow"}, size \in PeerBlockSizes :
       /\ toHost' = Append(toHost, [status |-> status, block_size |-> size,
                                    n |-> peer.n])
       /\ peer' = CASE status = "continue" ->
                         [peer EXCEPT !.owes = FALSE, !.inBlock = 0,
                                      !.block_size = size]
                    [] status = "wait" -> peer
                    [] status = "overflow" -> None
  /\ UNCHANGED <<hostVars, toPeer, accepted, lost, upset, misled>>

PeerGivesUp ==
  /\ peer # None
  /\ peer' = None /\ upset' = TRUE
  /\ UNCHANGED <<hostVars, toPeer, toHost, accepted, lost, misled>>

\* What was sent last, to either side, does not arrive.
Lose ==
  /\ lost < MaxLost
  /\ \/ /\ toPeer # <<>>
        /\ toPeer' = SubSeq(toPeer, 1, Len(toPeer) - 1)
        /\ UNCHANGED toHost
     \/ /\ toHost # <<>>
        /\ toHost' = SubSeq(toHost, 1, Len(toHost) - 1)
        /\ UNCHANGED toPeer
  /\ lost' = lost + 1 /\ upset' = TRUE
  /\ UNCHANGED <<hostVars, peerVars, misled>>
-----------------------------------------------------------------------------
Host == SendSingle \/ SendFirst \/ TakeContinue \/ TakeWait \/ TakeOverflow
          \/ FlowControlTimeout \/ SendConsecutive \/ SendPanics
          \/ DropFlowControls

Peer == PeerTakesSingle \/ PeerTakesFirst \/ PeerTakesConsecutive
          \/ PeerSendsFlowControl \/ PeerGivesUp

Next == Host \/ Peer \/ Lose

Spec == Init /\ [][Next]_vars
-----------------------------------------------------------------------------
TypeOK ==
  /\ host \in {"idle", "flow", "send", "panicked"}
  /\ (tx = None) <=> (host = "idle")
  /\ tx # None => /\ tx.offset \in 1..tx.length
                  /\ tx.sequence \in 0..(SeqModulus - 1)
                  /\ tx.frames_in_block \in 0..(CounterLimit - 1)
                  /\ tx.block_size \in PeerBlockSizes \cup {0}
  /\ started \in 0..MaxPayloads /\ accepted.n \in 0..started
  /\ Len(toHost) <= MaxQueued /\ lost \in 0..MaxLost
  /\ accepted.whole \in BOOLEAN /\ upset \in BOOLEAN /\ misled \in BOOLEAN

(* The peer takes no payload but one the host sent, with all its data in   *)
(* place, through lost frames, failed sends and abandoned calls, as long   *)
(* as no flow control outlived the call it was meant for.                  *)
PayloadsWhole == ~misled => accepted.whole

(* The host sends no more frames than the block the peer cleared.          *)
BlocksRespected ==
  ~misled /\ ~upset /\ peer # None /\ peer.n = started /\ peer.block_size # 0
    => peer.inBlock + Len(toPeer) <= peer.block_size

(* While the host waits for a flow control and nothing went wrong, a frame *)
(* or a flow control is on its way, or the peer is about to send one.      *)
NobodyWaits ==
  ~upset /\ ~misled /\ host = "flow" =>
    toPeer # <<>> \/ toHost # <<>> \/ (peer # None /\ peer.owes)

(* Every block the peer clears starts its own count: with blocks of any    *)
(* size the u8 frames_in_block never overflows.  (Without blocks it does,  *)
(* CounterLimit frames into a payload.)                                    *)
PanicsOnlyUnbounded == host = "panicked" => tx.block_size = 0

(* The counters stay in their widths, and each transfer in its bounds.     *)
CountersFit == TypeOK /\ PanicsOnlyUnbounded
=============================================================================
