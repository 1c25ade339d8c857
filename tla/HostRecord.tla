----------------------------- MODULE HostRecord -----------------------------
(***************************************************************************)
(* The TartHost record and the pure decisions usecase/host and the two     *)
(* controllers take on one.  A UID is a member of Machines, None stands    *)
(* for an absent reference or an empty UID, hostID 0 for the zero HostID.  *)
(* reuseApproval, reusePolicy and reuseMode are one field, reuse: the UID  *)
(* approved and the mode, with uid None when the policy is not AllowReuse, *)
(* the approval is missing or the mode is not a valid one.                 *)
(***************************************************************************)
EXTENDS Naturals

CONSTANTS Machines,        \* the UIDs of the TartMachines
          None,            \* no reference
          FailureDomains,  \* the failure domains of hosts and machines
          Identities,      \* the stable identities of hosts: MAC address, and, once
                           \* observed, system UUID and disks
          ReuseModes       \* the reuse modes users ask for

ASSUME NoneAssumption == None \notin Machines /\ None \notin FailureDomains

ASSUME DomainsAssumption == Identities # {} /\ FailureDomains # {}

ASSUME ReuseModesAssumption ==
  "Adopt" \in ReuseModes /\ ReuseModes \subseteq {"Adopt", "Reprovision"}

MaybeMachine == Machines \union {None}

NoReuse == [uid |-> None, mode |-> "Adopt"]

NoDeletionApproval == [consumer |-> None, previous |-> None]

\* History: reidentified, the identity is another than the host was registered with.
TartHost ==
  [present: BOOLEAN, deleting: BOOLEAN, finalizer: BOOLEAN,
   hostID: Nat, identity: Identities, reidentified: BOOLEAN,
   failureDomain: FailureDomains,
   consumer: MaybeMachine, previous: MaybeMachine,
   reuse: [uid: MaybeMachine, mode: ReuseModes],
   deletionApproval: [consumer: MaybeMachine, previous: MaybeMachine]]

\* What a user applies to register a host.
NewHost(identity, fd) ==
  [present |-> TRUE, deleting |-> FALSE, finalizer |-> FALSE,
   hostID |-> 0, identity |-> identity, reidentified |-> FALSE, failureDomain |-> fd,
   consumer |-> None, previous |-> None, reuse |-> NoReuse,
   deletionApproval |-> NoDeletionApproval]

-----------------------------------------------------------------------------
(* Eligibility (usecase/host/eligibility.go).                              *)

ReuseApproved(host) ==
  host.previous # None /\ host.reuse.uid = host.previous

\* Mutant: a host that was used before counts as a fresh one.
ClassifyForgetsRetention(host) ==
  IF host.consumer # None THEN "Claimed" ELSE "Available"

Classify(host) ==
  IF host.consumer # None THEN "Claimed"
  ELSE IF host.previous = None THEN "Available"
  ELSE IF ReuseApproved(host) THEN "Reusable"
  ELSE "Retained"

\* The host is in the failure domain asked for; None asks for nothing.
MatchesForFailureDomain(host, fd) ==
  fd = None \/ host.failureDomain = fd

-----------------------------------------------------------------------------
(* Claim and retention decisions (usecase/host/claimdecision.go).          *)

ClaimModes == {"FreshAutomatic", "ExplicitReusable"}

\* Mutant: any consumer counts as the machine's own.
DecideClaimOwnerIgnored(host, m) ==
  IF host.consumer = None THEN "apply" ELSE "noop"

DecideClaim(host, m) ==
  IF host.consumer = None THEN "apply"
  ELSE IF host.consumer = m THEN "noop" ELSE "conflict"

DecideRetention(host, m) ==
  IF host.consumer = None
  THEN IF host.previous = m THEN "noop" ELSE "conflict"
  ELSE IF host.consumer = m THEN "apply" ELSE "conflict"

\* Mutant: the failure domain is not looked at again.
ValidateWithoutFailureDomain(host, req) ==
  /\ host.hostID = req.expectedHostID
  /\ Classify(host) = IF req.mode = "FreshAutomatic"
                      THEN "Available" ELSE "Reusable"

ValidateClaimCandidate(host, req) ==
  /\ host.hostID = req.expectedHostID
  /\ Classify(host) = IF req.mode = "FreshAutomatic"
                      THEN "Available" ELSE "Reusable"
  /\ MatchesForFailureDomain(host, req.failureDomain)

\* deletionApproved (controller/tarthost/reconciler.go).
DeletionApproved(host) ==
  /\ host.consumer # None => host.deletionApproval.consumer = host.consumer
  /\ host.previous # None => host.deletionApproval.previous = host.previous
=============================================================================
