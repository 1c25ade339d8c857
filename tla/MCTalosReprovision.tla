------------------------- MODULE MCTalosReprovision -------------------------
(* Model-checking instances of TalosReprovision.                           *)
EXTENDS TalosReprovision
=============================================================================
