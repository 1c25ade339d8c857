------------------------- MODULE MCMachineShutdown -------------------------
(* MachineShutdown on small instances.                                     *)
EXTENDS MachineShutdown, TLC
=============================================================================
