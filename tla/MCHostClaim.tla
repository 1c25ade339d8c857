---------------------------- MODULE MCHostClaim ----------------------------
(* HostClaim on small instances.                                           *)
EXTENDS HostClaim, TLC

\* Every machine prefers the host registered last.
MCScore(m, id) == id

Symmetry == Permutations(Hosts) \union Permutations(Machines)

MachineSymmetry == Permutations(Machines)
=============================================================================
