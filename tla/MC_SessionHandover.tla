-------------------------- MODULE MC_SessionHandover --------------------------
(* SessionHandover for TLC; its constants are numbers and sit in the cfg.  *)
EXTENDS SessionHandover
=============================================================================
