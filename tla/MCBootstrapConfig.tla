------------------------- MODULE MCBootstrapConfig -------------------------
(* Instances of BootstrapConfig for model checking. *)
EXTENDS BootstrapConfig
=============================================================================
