------------------------ MODULE MCKubernetesUpgrade ------------------------
EXTENDS KubernetesUpgrade
EachTrouble == {{}} \cup {{t} : t \in TroubleKind}
\* An operation under way stops an upgrade as Machines that are not ready do;
\* a cluster that is not initialized, or whose version is not detected, is
\* waited for as one whose workload API is away.
DistinctTrouble == {{}, {"workload"}, {"talos"}, {"machines"}}
Overlapping == {{}, {"operation", "detect"}}
=============================================================================
