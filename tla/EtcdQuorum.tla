------------------------------ MODULE EtcdQuorum ------------------------------
(***************************************************************************)
(* The pure quorum decisions of domain/controlplane/quorum.go.  An         *)
(* observation is a record of the member count, the count of healthy       *)
(* members, and the target's health and whether that was observed.         *)
(***************************************************************************)
EXTENDS Integers

QuorumSize(n) == n \div 2 + 1

Consistent(o) == o.healthy >= 0 /\ o.healthy <= o.members

\* Mutant: the current majority is checked, the remaining one is not.
CanRemoveMemberNow(o) ==
  /\ o.members >= 2 /\ o.targetObserved /\ Consistent(o)
  /\ o.targetHealthy => o.healthy # 0
  /\ ~o.targetHealthy => o.healthy # o.members
  /\ o.healthy >= QuorumSize(o.members)

CanRemoveMember(o) ==
  /\ o.members >= 2 /\ o.targetObserved /\ Consistent(o)
  /\ o.targetHealthy => o.healthy # 0
  /\ ~o.targetHealthy => o.healthy # o.members
  /\ o.healthy >= QuorumSize(o.members)
  /\ (IF o.targetHealthy THEN o.healthy - 1 ELSE o.healthy)
       >= QuorumSize(o.members - 1)

\* Mutant: the target is not subtracted.
CanDisruptHealthy(o) ==
  /\ o.members >= 1 /\ o.targetObserved /\ o.targetHealthy /\ Consistent(o)
  /\ o.healthy >= QuorumSize(o.members)

\* A member that is stopped for a while stays in the membership; the only
\* member of a cluster may always be stopped.
CanTemporarilyDisruptMember(o) ==
  /\ o.members >= 1 /\ o.targetObserved /\ o.targetHealthy /\ Consistent(o)
  /\ IF o.members = 1 THEN o.healthy = 1
     ELSE o.healthy - 1 >= QuorumSize(o.members)
=============================================================================
