------------------------------ MODULE MCUpkeep ------------------------------
(* Upkeep, with one of the backends fixed: two whose protocols are both chosen
   freely would be looked at too long. *)
EXTENDS Upkeep
CONSTANT Plain  \* a backend that is asked for the older protocol, and speaks it
MCInit == UpkeepInit /\ (focus = "readings" => mode[Plain] = "legacy" /\ speaks[Plain] = {"legacy"})
MCSpec == MCInit /\ [][UpkeepNext]_allVars
=============================================================================
