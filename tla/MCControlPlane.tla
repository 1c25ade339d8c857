--------------------------- MODULE MCControlPlane ---------------------------
(* ControlPlane on small instances.                                        *)
EXTENDS ControlPlane, TLC
=============================================================================
