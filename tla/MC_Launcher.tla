------------------------------ MODULE MC_Launcher ------------------------------
(* Launcher and the two adapters for TLC: the UI thread and one diagnostic *)
(* server, or two pages and a server; one device of each API.              *)
EXTENDS Launcher

MCThreads  == {"ui", "server"}
MCPages    == {"page 1", "page 2"}
MCServers  == {"server"}
MCFilters  == {"f1", "f2"}
MCSlots    == {0, 1}
MCPassthru == {"J2534 device"}
MCSocket   == {"can0"}
MCSlcan    == {"COM3"}
=============================================================================
