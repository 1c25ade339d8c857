---------------------------- MODULE MCCARotation ----------------------------
(* Model-checking instances of CARotation.                                 *)
EXTENDS CARotation
=============================================================================
