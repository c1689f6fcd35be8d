------------------------------ MODULE MCWebUI ------------------------------
(* Small instances of WebUI for TLC.                                       *)
EXTENDS WebUI, TLC

(* The behaviours that start with another record selected are those that   *)
(* start with this one, its name and the other's swapped.                  *)
First == CHOOSE r \in Records : TRUE

MCInit == UIInit /\ page.sel \in {None, First}

MCSpec == MCInit /\ [][UINext]_uiVars /\ UIFairness
=============================================================================
