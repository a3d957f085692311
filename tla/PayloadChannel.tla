---------------------------- MODULE PayloadChannel ----------------------------
(***************************************************************************)
(* What ISO-TP promises the layers above it in one direction: payloads are *)
(* delivered in the order they were sent and at most once.  Some may be    *)
(* lost.  IsoTpReceive implements it.                                      *)
(***************************************************************************)
EXTENDS Naturals

VARIABLES
  sent,       \* how many payloads were given to the sender
  delivered   \* the payload delivered last, 0 before the first

Init == sent = 0 /\ delivered = 0

Send == sent' = sent + 1 /\ UNCHANGED delivered

Deliver ==
  /\ delivered' \in (delivered + 1)..sent
  /\ UNCHANGED sent

Next == Send \/ Deliver

Spec == Init /\ [][Next]_<<sent, delivered>>
=============================================================================
