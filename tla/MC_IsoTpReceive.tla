--------------------------- MODULE MC_IsoTpReceive ---------------------------
(* Instance of IsoTpReceive for TLC: blocks of two frames or no blocks, and *)
(* payloads of up to six frames, two more than a sequence number tells.    *)
EXTENDS IsoTpReceive

TwoOrNone  == {0, 2}
FewLengths == {0, 1, 3, 5, 6}
=============================================================================
