-------------------------- MODULE TalosReprovision --------------------------
(***************************************************************************)
(* The Talos installation of a host outlives the machine it was made for.  *)
(* The recovery identity of an installation (a Secret with the Talos API   *)
(* CA, named by the host's status) is what later lets the TartMachine      *)
(* controller authenticate the installation and reset it, when a user has  *)
(* approved that.  The module models one host through several machines:    *)
(* the reconcile that resets, binds and installs, call by call; CA         *)
(* rotation of the clusters; and the controller that collects recovery     *)
(* Secrets no host refers to.                                              *)
(***************************************************************************)
EXTENDS Naturals

CONSTANTS
  Clusters,        \* the Talos clusters the machines belong to
  Neighbour,       \* the cluster of the box that may take over the host's address
  MaxGeneration,   \* bound: secret generations of a cluster
  MaxMachines,     \* bound: machines that claim the host, one after the other
  Rotating,        \* the clusters whose CAs may be rotated
  MaxFaults        \* bound: failing calls, crashes, unasked reboots, address moves,
                   \* and edits of the approval under a claim

ASSUME ReprovisionAssumption ==
  /\ "none" \notin Clusters /\ Neighbour \in Clusters
  /\ MaxGeneration \in Nat \ {0} /\ MaxMachines \in Nat \ {0}
  /\ Rotating \subseteq Clusters /\ MaxFaults \in Nat

VARIABLES
  active,            \* the active secret generation of each cluster
  machine,           \* the machine that holds the host, or NoMachine
  host, hostCache,   \* the TartHost: stored, cached
  secrets,           \* the recovery Secrets, by name: absent, or their age
  physical,          \* what runs on the host
  answering,         \* which box answers at the host's Talos endpoint
  other,             \* the cluster of the other box's installation; "none": it has none
  work,              \* the TartMachine reconcile in flight, or Idle
  collecting,        \* the Secret the collector is about to delete
  wiped,             \* installations of the current holder that were reset (history)
  faults             \* how many disturbances MaxFaults counts have happened

objectVars == <<active, machine, host, hostCache, secrets>>
realVars == <<physical, answering, other>>
vars == <<objectVars, realVars, work, collecting, wiped, faults>>

-----------------------------------------------------------------------------
(* Types and initial states.                                               *)

Generations == 1..MaxGeneration
UIDs == 1..MaxMachines
NoUID == 0

\* A recovery Secret's name is made of the cluster ID and the fingerprint of the
\* generation's Talos API CA, so it stands for the Secret's content as well.
SecretName(cluster, generation) == [cluster |-> cluster, generation |-> generation]

Identities == [cluster: Clusters, generation: Generations]
NoIdentity == [cluster |-> "none", generation |-> 0]

\* data: the generation its Bootstrap Secret was rendered from; 0: not rendered.
\* History: inherited is the binding of the host at the claim; resolute, that the
\* host was unused or to be reprovisioned then, and the approval left alone since.
NoMachine == [uid |-> NoUID, cluster |-> "none", data |-> 0, provisioned |-> FALSE,
              deleting |-> FALSE, inherited |-> NoIdentity, resolute |-> FALSE]
Machines == [uid: UIDs, cluster: Clusters, data: Generations \union {0},
             provisioned: BOOLEAN, deleting: BOOLEAN,
             inherited: Identities \union {NoIdentity}, resolute: BOOLEAN]

TartHost ==
  [consumer: UIDs \union {NoUID}, previous: UIDs \union {NoUID},
   approval: UIDs \union {NoUID}, mode: {"none", "Adopt", "Reprovision"},
   identity: Identities \union {NoIdentity}]

\* An installation: the cluster of its configuration, the CAs its Talos API
\* accepts, and the machine it was made for.  NoInstallation: maintenance mode,
\* in which a configuration may have been accepted that is being installed.
Installations == [cluster: Clusters, trust: SUBSET Generations, madeFor: UIDs]
NoInstallation == [cluster |-> "none", trust |-> {}, madeFor |-> NoUID]

Idle == [step |-> "idle"]
Steps == {"reprovision", "dial", "reset", "confirm", "unbind", "bind", "refer", "talos"}

TypeOK ==
  /\ active \in [Clusters -> Generations]
  /\ machine \in Machines \union {NoMachine}
  /\ host \in TartHost /\ hostCache \in TartHost
  /\ secrets \in [Identities -> {"absent", "young", "old"}]
  /\ physical \in [up: BOOLEAN, installation: Installations \union {NoInstallation},
                   accepted: Installations \union {NoInstallation}]
  /\ answering \in {"host", "other"} /\ other \in Clusters \union {"none"}
  /\ work \in [step: Steps, selected: TartHost, new: Identities \union {NoIdentity},
               configuration: Generations, box: {"none", "host", "other"}] \union {Idle}
  /\ collecting \in Identities \union {NoIdentity}
  /\ wiped \in 0..1
  /\ faults \in 0..MaxFaults

\* An enrolled host in maintenance mode that nobody has claimed yet.
Init ==
  /\ active = [c \in Clusters |-> 1]
  /\ machine = NoMachine
  /\ host = [consumer |-> NoUID, previous |-> NoUID, approval |-> NoUID,
             mode |-> "none", identity |-> NoIdentity]
  /\ hostCache = host
  /\ secrets = [i \in Identities |-> "absent"]
  /\ physical = [up |-> TRUE, installation |-> NoInstallation, accepted |-> NoInstallation]
  /\ answering = "host" /\ other = Neighbour
  /\ work = Idle /\ collecting = NoIdentity /\ wiped = 0
  /\ faults = 0

-----------------------------------------------------------------------------
(* The user, the cluster and the host itself.                              *)

ReprovisionApproved(h) ==
  h.mode = "Reprovision" /\ h.previous # NoUID /\ h.approval = h.previous

Reusable(h) == h.previous # NoUID /\ h.approval = h.previous /\ h.mode # "none"

DeliverHost ==
  /\ hostCache # host /\ hostCache' = host
  /\ UNCHANGED <<active, machine, host, secrets, realVars, work, collecting, wiped, faults>>

\* An edit of the approval.  Before the next claim, which reads the stored host, the
\* cached one serves the collector, for its binding: the rest of it lags for nobody.
EditApproval(uid, mode) ==
  /\ host.approval # uid \/ host.mode # mode
  /\ host' = [host EXCEPT !.approval = uid, !.mode = mode]
  /\ \/ /\ machine = NoMachine /\ machine' = machine
        /\ hostCache' = [hostCache EXCEPT !.approval = uid, !.mode = mode]
        /\ faults' = faults
     \/ /\ machine # NoMachine /\ machine' = [machine EXCEPT !.resolute = FALSE]
        /\ hostCache' = hostCache
        /\ faults < MaxFaults /\ faults' = faults + 1
  /\ UNCHANGED <<active, secrets, realVars, work, collecting, wiped>>

\* The user approves the reuse of the host by the UID of its consumer, former or
\* current, or withdraws the approval.  The API checks neither the moment nor
\* whether the host holds an installation to adopt.  Nobody reuses the host after
\* the last machine.
Approve(mode) ==
  \E uid \in {host.consumer, host.previous} \ {NoUID, MaxMachines} : EditApproval(uid, mode)
Withdraw == EditApproval(NoUID, "none")

\* HostClaim models the claim; it sets consumerRef and leaves the previous
\* consumer, the approval and the mode as they are.
Claim(cluster) ==
  /\ machine = NoMachine /\ host.consumer = NoUID
  /\ host.previous = NoUID \/ Reusable(host)
  /\ host.previous < MaxMachines
  /\ machine' = [uid |-> host.previous + 1, cluster |-> cluster, data |-> 0,
                 provisioned |-> FALSE, deleting |-> FALSE, inherited |-> host.identity,
                 resolute |-> host.previous = NoUID \/ ReprovisionApproved(host)]
  /\ host' = [host EXCEPT !.consumer = host.previous + 1]
  /\ hostCache' = host'     \* the claim hands the reconcile the host it wrote
  /\ wiped' = 0
  /\ UNCHANGED <<active, secrets, realVars, work, collecting, faults>>

\* TartBootstrapConfig renders the machine's configuration from the active
\* bundle, and again when another generation becomes active.
Render ==
  /\ machine # NoMachine /\ machine.data # active[machine.cluster]
  /\ machine' = [machine EXCEPT !.data = active[machine.cluster]]
  /\ UNCHANGED <<active, host, hostCache, secrets, realVars, work, collecting, wiped, faults>>

DeleteMachine ==
  /\ machine # NoMachine /\ ~machine.deleting
  /\ machine' = [machine EXCEPT !.deleting = TRUE]
  /\ UNCHANGED <<active, host, hostCache, secrets, realVars, work, collecting, wiped, faults>>

PoweredOff == [physical EXCEPT !.up = FALSE, !.accepted = NoInstallation]

\* MachineShutdown models the deletion path: the host has been shut down when
\* the claim becomes a retention record.
RetainHost ==
  /\ machine.deleting /\ work = Idle
  /\ machine' = NoMachine
  /\ host' = [host EXCEPT !.consumer = NoUID, !.previous = host.consumer]
  /\ hostCache' = [host' EXCEPT !.identity = hostCache.identity]
  /\ physical' = PoweredOff
  /\ UNCHANGED <<active, secrets, answering, other, work, collecting, wiped, faults>>

\* The host finishes booting: into its installation, or maintenance mode.
Boots ==
  /\ ~physical.up /\ physical' = [physical EXCEPT !.up = TRUE]
  /\ UNCHANGED <<objectVars, answering, other, work, collecting, wiped, faults>>

\* The installer has written the accepted configuration and reboots the host.
Installs ==
  /\ physical.accepted # NoInstallation
  /\ physical' = [up |-> FALSE, installation |-> physical.accepted,
                  accepted |-> NoInstallation]
  /\ UNCHANGED <<objectVars, answering, other, work, collecting, wiped, faults>>

Outage ==
  /\ faults < MaxFaults /\ faults' = faults + 1
  /\ \/ physical.up /\ physical' = PoweredOff /\ answering' = answering
     \/ answering = "host" /\ answering' = "other" /\ physical' = physical
  /\ UNCHANGED <<objectVars, other, work, collecting, wiped>>

AddressReturns ==
  /\ answering = "other" /\ answering' = "host"
  /\ UNCHANGED <<objectVars, physical, other, work, collecting, wiped, faults>>

\* Mutant: a generation is skipped.
SkippedGeneration(generation) == generation + 2

NextGeneration(generation) == generation + 1

\* CA rotation of the holder's cluster (CARotation models it): the node first
\* accepts both CAs, then only the new one; a machine being deleted is skipped.
RotateTrust ==
  LET i == physical.installation IN
  /\ machine # NoMachine /\ ~machine.deleting /\ physical.up
  /\ i.cluster = machine.cluster /\ i.cluster \in Rotating /\ machine.provisioned
  /\ active[i.cluster] < MaxGeneration
  /\ \/ /\ i.trust = {active[i.cluster]}
        /\ physical' = [physical EXCEPT !.installation.trust = @ \union {NextGeneration(active[i.cluster])}]
     \/ /\ active[i.cluster] \in i.trust /\ NextGeneration(active[i.cluster]) \in i.trust
        /\ physical' = [physical EXCEPT !.installation.trust = {NextGeneration(active[i.cluster])}]
  /\ UNCHANGED <<objectVars, answering, other, work, collecting, wiped, faults>>

\* The active generation moves on when no machine that is not being deleted is
\* left on the old one.
Promote(cluster) ==
  /\ active[cluster] < MaxGeneration
  /\ (machine.cluster = cluster /\ ~machine.deleting) =>
       physical.installation.trust = {NextGeneration(active[cluster])}
  /\ active' = [active EXCEPT ![cluster] = NextGeneration(@)]
  /\ UNCHANGED <<machine, host, hostCache, secrets, realVars, work, collecting, wiped, faults>>

\* Thirty minutes are more than a reconcile or a cache needs.
SecretAges(i) ==
  /\ secrets[i] = "young"
  /\ work = Idle /\ hostCache = host
  /\ secrets' = [secrets EXCEPT ![i] = "old"]
  /\ UNCHANGED <<active, machine, host, hostCache, realVars, work, collecting, wiped, faults>>

-----------------------------------------------------------------------------
(* The TartMachine reconcile: reset, bind, install.                        *)

Continue(step) == work' = [work EXCEPT !.step = step]

\* The reconcile ends with a report (or an error) and comes back later.
Report == work' = Idle

Reconcile ==
  /\ work = Idle /\ machine # NoMachine /\ ~machine.deleting
  /\ hostCache.consumer = machine.uid /\ machine.data # 0
  /\ work' = [step |-> "reprovision", selected |-> hostCache, new |-> NoIdentity,
              configuration |-> machine.data, box |-> "none"]
  /\ UNCHANGED <<objectVars, realVars, collecting, wiped, faults>>

\* The recovery Secret is there and is what its name says.
recoveryMaterial(identity) == identity # NoIdentity /\ secrets[identity] # "absent"

reconcileReprovision ==
  /\ work.step = "reprovision"
  /\ IF ~ReprovisionApproved(work.selected) \/ work.selected.identity = NoIdentity
       THEN Continue("bind")
       ELSE IF recoveryMaterial(work.selected.identity) THEN Continue("dial") ELSE Report
  /\ UNCHANGED <<objectVars, realVars, collecting, wiped, faults>>

\* What an authenticated Talos API shows at the endpoint to a client with the
\* CA of an identity: the cluster of its configuration and the box's own MAC.
Observed(identity) ==
  IF answering = "host"
    THEN IF /\ physical.up /\ physical.installation.cluster = identity.cluster
            /\ identity.generation \in physical.installation.trust
           THEN {[cluster |-> identity.cluster, mac |-> "host"]} ELSE {}
    ELSE IF other = identity.cluster
           THEN {[cluster |-> other, mac |-> "other"]} ELSE {}

\* Mutant: the cluster is thought to identify the node.
VerifyClusterOnly(identity, observed) == observed.cluster = identity.cluster

VerifyResetTarget(identity, observed) ==
  observed.cluster = identity.cluster /\ observed.mac = "host"

\* DialRecovery and observeResetTarget, then the verification.
DialRecovery ==
  /\ work.step = "dial"
  /\ LET identity == work.selected.identity IN
       IF Observed(identity) = {} THEN Continue("confirm")
       ELSE \E o \in Observed(identity) :
              IF VerifyResetTarget(identity, o)
                THEN work' = [work EXCEPT !.step = "reset", !.box = o.mac] ELSE Report
  /\ UNCHANGED <<objectVars, realVars, collecting, wiped, faults>>

\* The Reset RPC: the connection is made lazily, so it reaches what answers at the
\* endpoint by now, if that accepts the CA, or is lost with the box that was verified.
Reset ==
  /\ work.step = "reset"
  /\ LET reached == {o.mac : o \in Observed(work.selected.identity)} IN
       \/ /\ "host" \in reached
          /\ physical' = [up |-> FALSE, installation |-> NoInstallation, accepted |-> NoInstallation]
          /\ wiped' = IF physical.installation.madeFor = machine.uid THEN 1 ELSE wiped
          /\ other' = other
       \/ "other" \in reached /\ other' = "none" /\ UNCHANGED <<physical, wiped>>
       \/ work.box \notin reached /\ UNCHANGED <<physical, other, wiped>>
  /\ Report
  /\ UNCHANGED <<objectVars, answering, collecting, faults>>

\* The maintenance API answers, on the host with the expected MAC address.
MaintenanceOfHost ==
  answering = "host" /\ physical.up /\ physical.installation = NoInstallation

\* Mutant: the old installation is gone, but the host still refers to it.
ConfirmWithoutUnbinding ==
  /\ work.step = "confirm"
  /\ IF MaintenanceOfHost THEN Continue("bind") ELSE Report
  /\ UNCHANGED <<objectVars, realVars, collecting, wiped, faults>>

confirmReprovisionCompleted ==
  /\ work.step = "confirm"
  /\ IF MaintenanceOfHost THEN Continue("unbind") ELSE Report
  /\ UNCHANGED <<objectVars, realVars, collecting, wiped, faults>>

\* A merge patch carries the field only when the snapshot's value changed.
Unbind ==
  /\ work.step = "unbind"
  /\ host' = [host EXCEPT !.identity = NoIdentity]
  /\ work' = [work EXCEPT !.step = "bind", !.selected.identity = NoIdentity]
  /\ UNCHANGED <<active, machine, hostCache, secrets, realVars, collecting, wiped, faults>>

\* Mutant: whatever the host refers to gives way to the holder's cluster.
RebindAcrossClusters(current, name) == current # name

shouldRebindTalosIdentity(current, name) ==
  \/ current = NoIdentity
  \/ current.cluster = name.cluster /\ current # name

\* The active bundle's identity; Create tolerates a Secret that exists already.
ensureTalosIdentityBinding ==
  /\ work.step = "bind"
  /\ LET name == SecretName(machine.cluster, active[machine.cluster]) IN
       IF shouldRebindTalosIdentity(work.selected.identity, name)
         THEN /\ secrets' = [secrets EXCEPT ![name] = IF @ = "absent" THEN "young" ELSE @]
              /\ work' = [work EXCEPT !.step = "refer", !.new = name]
         ELSE secrets' = secrets /\ Continue("talos")
  /\ UNCHANGED <<active, machine, host, hostCache, realVars, collecting, wiped, faults>>

\* The active bundle cannot be read: an existing binding is kept and used.
BundleUnavailable ==
  /\ work.step = "bind" /\ faults < MaxFaults /\ faults' = faults + 1
  /\ IF work.selected.identity # NoIdentity THEN Continue("talos") ELSE Report
  /\ UNCHANGED <<objectVars, realVars, collecting, wiped>>

Refer ==
  /\ work.step = "refer"
  /\ host' = [host EXCEPT !.identity = work.new]
  /\ work' = [work EXCEPT !.step = "talos", !.selected.identity = work.new, !.new = NoIdentity]
  /\ UNCHANGED <<active, machine, hostCache, secrets, realVars, collecting, wiped, faults>>

\* The configuration's own credentials reach the node: it is provisioned.
reconcileAuthenticatedTalos ==
  /\ work.step = "talos"
  /\ Observed(SecretName(machine.cluster, work.configuration)) # {}
  /\ machine' = [machine EXCEPT !.provisioned = TRUE]
  /\ Report
  /\ UNCHANGED <<active, host, hostCache, secrets, realVars, collecting, wiped, faults>>

\* Mutant: the configuration is staged for a next boot that never comes.
StageMaintenanceTalos ==
  /\ work.step = "talos"
  /\ Observed(SecretName(machine.cluster, work.configuration)) = {}
  /\ Report
  /\ UNCHANGED <<objectVars, realVars, collecting, wiped, faults>>

\* Otherwise the configuration is applied to the host in maintenance mode,
\* unless the machine was provisioned before.
reconcileMaintenanceTalos ==
  /\ work.step = "talos"
  /\ Observed(SecretName(machine.cluster, work.configuration)) = {}
  /\ IF ~machine.provisioned /\ MaintenanceOfHost
       THEN physical' = [physical EXCEPT !.accepted =
                           [cluster |-> machine.cluster, trust |-> {work.configuration},
                            madeFor |-> machine.uid]]
       ELSE physical' = physical
  /\ Report
  /\ UNCHANGED <<objectVars, answering, other, collecting, wiped, faults>>

\* A call fails, or the process dies: the reconcile is lost between two calls.
ReconcileFails ==
  /\ work # Idle /\ faults < MaxFaults /\ faults' = faults + 1
  /\ Report
  /\ UNCHANGED <<objectVars, realVars, collecting, wiped>>

-----------------------------------------------------------------------------
(* The collector of recovery Secrets.                                      *)

ShouldDelete(i) == secrets[i] = "old" /\ hostCache.identity # i

Collect(i) ==
  /\ collecting = NoIdentity /\ ShouldDelete(i)
  /\ collecting' = i
  /\ UNCHANGED <<objectVars, realVars, work, wiped, faults>>

DeleteSecret ==
  /\ collecting # NoIdentity
  /\ secrets' = [secrets EXCEPT ![collecting] = "absent"]
  /\ collecting' = NoIdentity
  /\ UNCHANGED <<active, machine, host, hostCache, realVars, work, wiped, faults>>

-----------------------------------------------------------------------------
reconcileTalos ==
  \/ Reconcile \/ reconcileReprovision \/ DialRecovery \/ Reset
  \/ confirmReprovisionCompleted \/ Unbind
  \/ ensureTalosIdentityBinding \/ Refer
  \/ reconcileAuthenticatedTalos \/ reconcileMaintenanceTalos

User ==
  \/ (\E mode \in {"Adopt", "Reprovision"} : Approve(mode)) \/ Withdraw
  \/ \E c \in Clusters : Claim(c)
  \/ DeleteMachine \/ RetainHost

Environment ==
  \/ DeliverHost \/ Render \/ Boots \/ Installs \/ Outage \/ AddressReturns
  \/ RotateTrust \/ (\E c \in Rotating : Promote(c))

Collector == (\E i \in Identities : SecretAges(i) \/ Collect(i)) \/ DeleteSecret

Next == reconcileTalos \/ BundleUnavailable \/ ReconcileFails \/ User \/ Environment \/ Collector

\* Reconciles are retried, caches converge, hosts boot and addresses settle; a
\* machine being deleted is let go.
Fairness ==
  /\ WF_vars(reconcileTalos) /\ WF_vars(DeliverHost) /\ WF_vars(Render) /\ WF_vars(Boots)
  /\ WF_vars(Installs) /\ WF_vars(AddressReturns) /\ WF_vars(RetainHost)

Spec == Init /\ [][Next]_vars /\ Fairness

-----------------------------------------------------------------------------
(* Properties.                                                             *)

\* domain/recovery: a reset destroys data, so it is sent only after the node at the
\* host's endpoint was found to be the approved host, by cluster and by MAC address.
\* The installation of another box is destroyed only if the address moved since.
ResetTargetIsVerified == [][other' # other => work.box = "host"]_vars

\* reprovision.go: "no Reset unless the identity matches completely".  Whatever
\* answers at the endpoint, the installation of another box is never destroyed.
OtherBoxIsNeverReset == [][other' = other]_vars

\* reprovision.go, identity.go: the binding is the only ground on which the host's
\* installation can be reset later.  Whatever patches of stale reads do, it is
\* dropped only by a reconcile that read an approved reprovisioning, and never goes
\* from one cluster's identity to another's in one step.
BindingIsKept ==
  [][host'.identity.cluster # host.identity.cluster =>
       \/ host.identity = NoIdentity
       \/ host'.identity = NoIdentity /\ ReprovisionApproved(work.selected)]_vars

\* reprovision.go: a fresh installation starts only after the reference to the
\* previous one is gone.  A configuration accepted or installed for the machine that
\* holds the host is of its cluster.  It is named by another cluster's identity only
\* when the host was adopted or the approval edited under the claim, and then by the
\* very identity the host was claimed with, which was never touched.
InstalledUnderItsBinding ==
  \A i \in {physical.accepted, physical.installation} :
    (machine # NoMachine /\ i.madeFor = machine.uid) =>
      /\ i.cluster = machine.cluster
      /\ \/ host.identity.cluster \in {i.cluster, "none"}
         \/ ~machine.resolute /\ host.identity = machine.inherited

\* reprovision.go: the recovery identity of an installation is established before the
\* installation is applied, so the binding names what is installed on the host.
BindingNamesTheInstallation ==
  physical.installation # NoInstallation =>
    host.identity.cluster \in {physical.installation.cluster, "none"}

\* A retained installation is named by the host and can be authenticated: the
\* Secret is there and holds a CA the node accepts.
RetainedInstallationIsRecoverable ==
  (host.consumer = NoUID /\ physical.installation # NoInstallation) =>
    /\ host.identity.cluster = physical.installation.cluster
    /\ host.identity.generation \in physical.installation.trust
    /\ secrets[host.identity] # "absent"

\* reconcileReprovision: the branch resets the old installation the host still
\* holds; the installation made for the machine that holds the host now is not
\* what the approval was given for.
HoldersInstallationIsKept == wiped = 0

\* The Secret named by the host's status exists: the grace period covers the
\* moment before the reference is written.
ReferencedSecretExists == host.identity # NoIdentity => secrets[host.identity] # "absent"

\* The host has no installation, or one the machine's configuration can reach.
InstallationIsOpen ==
  physical.installation # NoInstallation =>
    /\ physical.installation.cluster = machine.cluster
    /\ active[machine.cluster] \in physical.installation.trust

\* talos_reconcile.go: a machine that holds the host is provisioned in the end, however
\* calls fail, hosts reboot and addresses move, unless it is deleted first, its
\* reprovisioning is approved, or the host holds an installation of another cluster or
\* CA, which nothing may overwrite.
InstallationCompletes ==
  []<>(machine = NoMachine \/ machine.deleting \/ machine.provisioned
         \/ ReprovisionApproved(host) \/ ~InstallationIsOpen)

=============================================================================
