--------------------------- MODULE MC_SlcanAdapter ---------------------------
(* Instances of SlcanAdapter for TLC: one clone of the API with a filter   *)
(* slot, or two clones without; one identifier is on the bus.              *)
EXTENDS SlcanAdapter

OneClient  == {"ui"}
TwoClients == {"ui", "server"}
OneId      == {"a"}
NoSlots    == {}
OneSlot    == {0}
=============================================================================
