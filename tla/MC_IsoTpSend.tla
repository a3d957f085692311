----------------------------- MODULE MC_IsoTpSend -----------------------------
(* Instance of IsoTpSend for TLC: the peer asks for blocks of two frames,  *)
(* or for none; a payload of five frames overruns counter and numbers.     *)
EXTENDS IsoTpSend

TwoOrNone  == {0, 2}
FewLengths == {0, 4, 5}
=============================================================================
