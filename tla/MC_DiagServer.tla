---------------------------- MODULE MC_DiagServer ----------------------------
(* Instances of DiagServer for TLC: two sessions besides Default, or one,  *)
(* and one ordinary service; the bus holds MaxInFlight frames each way.    *)
EXTENDS DiagServer

TwoModes   == {"Default", "Extended"}
OneService == {"ReadDTC"}
=============================================================================
