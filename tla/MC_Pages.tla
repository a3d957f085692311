------------------------------- MODULE MC_Pages -------------------------------
(* The window, the scanner and the OBD page for TLC, each explored in turn *)
(* while the others rest in one initial state: what they share, the        *)
(* adapter, is abstracted in each of them.                                 *)
(*                                                                         *)
(* Scanner: five identifiers, 3 standing for 0x7DF, and three cars:        *)
(* neighbours, so that two late answers in a row meet; an ECU at the last  *)
(* identifier, with a sender of what looks like flow controls; one at      *)
(* identifier 0, where the last identifier itself sends.  Window: an ECU   *)
(* file with one connection and one whose first connection is a K-Line.    *)
EXTENDS Windows, DiagScanner, ObdServer, TLC

VARIABLE explored

MCJsonEcus == {<<"ISOTP">>, <<"LIN", "ISOTP">>}

MCNetworks == {
  [ecus |-> 1 :> 11 @@ 2 :> 12, kwp |-> {1}, uds |-> {2}, chatter |-> None],
  [ecus |-> 1 :> 11 @@ 5 :> 15, kwp |-> {1}, uds |-> {1, 5}, chatter |-> 13 :> "fc"],
  [ecus |-> 0 :> 10 @@ 2 :> 12, kwp |-> {2}, uds |-> {2}, chatter |-> 5 :> "empty"] }

\* One ECU with a group of PIDs too many, one that answers on another identifier.
MCVehicles ==
  {[id |-> 1, last |-> 2, info |-> {"cvns", "ecu_name"}, lists |-> {"0A"}],
   [id |-> 2, last |-> 0, info |-> {}, lists |-> {}]}
MCMisreadings == {{}, {"vin"}}

PagesInit ==
  /\ explored \in {"window", "scanner", "obd"}
  /\ WindowsInit /\ Init /\ ObdInit
  /\ explored # "obd" => vehicle.id = 1
  /\ explored # "scanner" => ~unfiltered /\ network.chatter = None

PagesNext ==
  /\ UNCHANGED explored
  /\ \/ explored = "window" /\ WindowsNext /\ UNCHANGED <<vars, obdVars>>
     \/ explored = "scanner" /\ Next /\ UNCHANGED <<windowVars, obdVars>>
     \/ explored = "obd" /\ ObdNext /\ UNCHANGED <<windowVars, vars>>

PagesSpec ==
  /\ PagesInit /\ [][PagesNext]_<<explored, windowVars, vars, obdVars>>
  /\ WindowsFairness /\ ScanFairness /\ ObdFairness
=============================================================================
