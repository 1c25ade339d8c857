-------------------------- MODULE KubernetesUpgrade --------------------------
(***************************************************************************)
(* The cluster-wide Kubernetes version upgrade of the TartControlPlane     *)
(* controller (src/controller/tartcontrolplane/kubernetesupgrade.go).      *)
(*                                                                         *)
(* Every replica of the controller reconciles the TartControlPlane: it     *)
(* observes the lowest version any component runs, evaluates a preflight,  *)
(* takes a Lease by compare-and-swap on its resourceVersion, runs Talos'   *)
(* upgrade while a goroutine renews the Lease, and releases it.  A replica *)
(* may crash at any point, any call may fail, and the user may change the  *)
(* desired version, also while an upgrade runs.                            *)
(*                                                                         *)
(* Time is counted in renew intervals (Tick).  Versions are numbers; 0 is  *)
(* a version that is empty once its "v" prefix is trimmed.                 *)
(***************************************************************************)
EXTENDS Integers, FiniteSets

CONSTANTS
  Replicas,        \* controller processes, each with its own holder identity
  Versions,        \* Kubernetes versions, in order
  Components,      \* 1..n: the order in which upstream upgrades components
  Troubles,        \* the troubles the cluster may be in, sets of TroubleKind
  LeaseDuration,   \* kubernetesUpgradeLeaseDuration in renew intervals
  UpgradeTimeout,  \* kubernetesUpgradeTimeout in renew intervals
  MachinesMarked,  \* whether anything outside src/ marks Machines UpToDate
  MaxFaults,       \* bound: failed calls and crashes
  MaxChanges       \* bound: changes of spec.version and Nodes that join

TroubleKind == {"uninitialized", "workload", "talos", "machines",
                "operation", "detect"}

ASSUME UpgradeAssumption ==
  /\ IsFiniteSet(Replicas)
  /\ IsFiniteSet(Versions) /\ Versions \subseteq Nat \ {0} /\ Versions # {}
  /\ IsFiniteSet(Components) /\ Components # {}
  /\ Components = 1..Cardinality(Components)
  /\ {} \in Troubles /\ Troubles \subseteq SUBSET TroubleKind
  /\ LeaseDuration \in Nat \ {0} /\ UpgradeTimeout \in Nat \ {0}
  /\ MachinesMarked \in BOOLEAN
  /\ MaxFaults \in Nat /\ MaxChanges \in Nat

Nobody == "nobody"
ASSUME NobodyAssumption == Nobody \notin Replicas

VARIABLES
  spec,      \* TartControlPlane.spec.version
  comp,      \* the version each component runs
  trouble,   \* what is wrong with the cluster at present
  lease,     \* the Lease: its holder and its age since renewTime
  current,   \* readers whose copy of the Lease is the stored one
  work,      \* per replica: the reconcile it is in
  renew,     \* per replica: the renewing goroutine
  status,    \* TartControlPlane.status
  budget     \* faults and changes that may still happen

vars == <<spec, comp, trouble, lease, current, work, renew, status, budget>>

KubernetesVersion == Versions \cup {0}

\* What the reconciler reports of an upgrade.
TartControlPlaneKubernetesUpgradeStatus ==
  [observed : KubernetesVersion, upToDate : BOOLEAN,
   upgrading : {"True", "False", "Unknown"}]

Unreported == [observed |-> 0, upToDate |-> FALSE, upgrading |-> "False"]

Idle == [pc |-> "idle", to |-> 0, from |-> 0, fresh |-> FALSE, elapsed |-> 0,
         result |-> Unreported, original |-> Unreported]

TypeOK ==
  /\ spec \in KubernetesVersion
  /\ comp \in [Components -> Versions]
  /\ trouble \in Troubles
  /\ lease \in [holder : Replicas \cup {Nobody}, age : 0..LeaseDuration]
  /\ current \subseteq Replicas \X {"work", "renew"}
  /\ work \in [Replicas ->
       [pc : {"idle", "acquire", "claim", "upgrade", "release", "clear",
              "patch"},
        to : KubernetesVersion, from : KubernetesVersion,
        fresh : BOOLEAN, elapsed : 0..UpgradeTimeout,
        result : TartControlPlaneKubernetesUpgradeStatus,
        original : TartControlPlaneKubernetesUpgradeStatus]]
  /\ renew \in [Replicas -> {"off", "wait", "due", "read"}]
  /\ status \in TartControlPlaneKubernetesUpgradeStatus
  /\ budget \in [faults : 0..MaxFaults, changes : 0..MaxChanges]

Init ==
  /\ spec \in Versions
  /\ \E v \in Versions : comp = [c \in Components |-> v]
  /\ trouble = {}
  /\ lease = [holder |-> Nobody, age |-> LeaseDuration]
  /\ current = {}
  /\ status = Unreported
  /\ work = [r \in Replicas |-> Idle]
  /\ renew = [r \in Replicas |-> "off"]
  /\ budget = [faults |-> MaxFaults, changes |-> MaxChanges]

Fault == /\ budget.faults > 0
         /\ budget' = [budget EXCEPT !.faults = @ - 1]

-----------------------------------------------------------------------------
(* The Lease at the API server: a write succeeds only from the stored copy  *)
(* and makes every other copy stale.                                        *)

GetLease(r, who) == current' = current \cup {<<r, who>>}

WriteLease(new) == lease' = new /\ current' = {}

\* The holder itself, nobody, or a holder that has not renewed for the whole
\* duration.
kubernetesUpgradeLeaseAcquirable(r) ==
  \/ lease.holder \in {Nobody, r}
  \/ lease.age >= LeaseDuration

\* An upgrade that runs under a context without a deadline.
NoDeadline(r) == FALSE

\* The deadline of the context the upgrade runs under.
TimedOut(r) == work[r].pc = "upgrade" /\ work[r].elapsed >= UpgradeTimeout

-----------------------------------------------------------------------------
(* The cluster and its users.                                               *)

ChangeVersion(v) ==
  /\ budget.changes > 0 /\ v # spec
  /\ spec' = v
  /\ budget' = [budget EXCEPT !.changes = @ - 1]
  /\ UNCHANGED <<comp, trouble, lease, current, work, renew, status>>

\* A Node joins whose kubelet, the last component, is older.
OldNodeJoins(v) ==
  /\ budget.changes > 0 /\ v < comp[Cardinality(Components)]
  /\ comp' = [comp EXCEPT ![Cardinality(Components)] = v]
  /\ budget' = [budget EXCEPT !.changes = @ - 1]
  /\ UNCHANGED <<spec, trouble, lease, current, work, renew, status>>

TroubleStarts(t) ==
  /\ t # {} /\ trouble = {} /\ Fault
  /\ trouble' = t
  /\ UNCHANGED <<spec, comp, lease, current, work, renew, status>>

TroubleEnds ==
  /\ trouble # {}
  /\ trouble' = {}
  /\ UNCHANGED <<spec, comp, lease, current, work, renew, status, budget>>

\* A renew interval passes: no goroutine that is due skips its turn, no
\* upgrade outlives its deadline, and the write of a claim arrives within the
\* interval of the renewTime it carries.
Tick ==
  /\ \A r \in Replicas : renew[r] \notin {"due", "read"} /\ ~TimedOut(r)
  /\ \A r \in Replicas : work[r].pc # "claim"
  /\ lease' = [lease EXCEPT !.age = IF @ < LeaseDuration THEN @ + 1 ELSE @]
  /\ renew' = [r \in Replicas |-> IF renew[r] = "wait" THEN "due" ELSE renew[r]]
  /\ work' = [r \in Replicas |->
                IF work[r].pc = "upgrade"
                  THEN [work[r] EXCEPT !.elapsed = @ + 1] ELSE work[r]]
  /\ UNCHANGED <<spec, comp, trouble, current, status, budget>>

-----------------------------------------------------------------------------
(* The preflight.                                                           *)

\* DetectLowestVersion.
LowestVersion == CHOOSE v \in {comp[c] : c \in Components} :
                   \A c \in Components : v <= comp[c]

\* Observed once, then taken from the status.
ObserveOnce ==
  /\ status.observed = 0
  /\ trouble \cap {"uninitialized", "workload", "talos", "detect"} = {}

\* The version is read from the cluster only when the workload API answers
\* and every control-plane etcd member was seen healthy through Talos.
observeClusterKubernetesVersion ==
  trouble \cap {"uninitialized", "workload", "talos", "detect"} = {}

\* The outcomes are tried in the order of the code; 0 as the version observed
\* means that none was ever observed.
evaluateKubernetesUpgrade(desired, observed, fresh) ==
  CASE desired = 0                     -> "Fail"
    [] "uninitialized" \in trouble     -> "Wait"
    [] fresh /\ observed = desired     -> "None"
    [] "workload" \in trouble          -> "Wait"
    [] "talos" \in trouble             -> "Unknown"
    [] "machines" \in trouble          -> "Wait"
    [] "operation" \in trouble         -> "Wait"
    [] observed = 0                    -> "Wait"
    [] OTHER                           -> "Upgrade"

\* setControlPlaneStatus: UpToDate needs every Machine ready and marked
\* UpToDate, the workload API, the observed version to be the desired one and
\* no active upgrade.
controlPlaneStatus(desired, observed, active, unknown) ==
  [observed |-> observed,
   upToDate |-> /\ trouble \cap {"workload", "machines"} = {}
                /\ MachinesMarked
                /\ ~unknown /\ ~active /\ observed = desired,
   upgrading |-> IF unknown THEN "Unknown"
                 ELSE IF active THEN "True" ELSE "False"]

\* Status().Patch(MergeFrom(original)): only what differs from the copy the
\* reconcile started from is sent, and conditions are sent as one list.
patchStatus(r) ==
  LET new == work[r].result
      original == work[r].original
      conditions == \/ new.upToDate # original.upToDate
                    \/ new.upgrading # original.upgrading
  IN [status EXCEPT
        !.observed  = IF new.observed # original.observed
                        THEN new.observed ELSE @,
        !.upToDate  = IF conditions THEN new.upToDate ELSE @,
        !.upgrading = IF conditions THEN new.upgrading ELSE @]

-----------------------------------------------------------------------------
(* reconcileKubernetesUpgrade.                                              *)

\* The reconcile up to the decision.  Only Upgrade goes on to the Lease; a
\* pass that tried the upgrade reports an active one however it ended.
reconcileKubernetesUpgrade(r) ==
  LET fresh == observeClusterKubernetesVersion
      observed == IF fresh THEN LowestVersion ELSE status.observed
      decision == evaluateKubernetesUpgrade(spec, observed, fresh)
      active == \/ decision \in {"Fail", "Upgrade"}
                \/ decision = "Wait" /\ observed \notin {0, spec}
  IN /\ work[r].pc = "idle" /\ renew[r] = "off"
     /\ work' = [work EXCEPT ![r] =
          [Idle EXCEPT
             !.pc = IF decision = "Upgrade" THEN "acquire" ELSE "patch",
             !.to = IF decision = "Upgrade" THEN spec ELSE 0,
             !.from = IF decision = "Upgrade" THEN observed ELSE 0,
             !.fresh = fresh,
             !.original = status,
             !.result = controlPlaneStatus(spec, observed, active,
                                           decision = "Unknown")]]
     /\ UNCHANGED <<spec, comp, trouble, lease, current, renew, status, budget>>

\* Only the report is left to do.
GiveUp(r) == work' = [work EXCEPT ![r] =
                        [@ EXCEPT !.pc = "patch", !.to = 0, !.from = 0]]

\* acquireKubernetesUpgradeLease: Get and the check.
acquireKubernetesUpgradeLease(r) ==
  /\ work[r].pc = "acquire"
  /\ \/ /\ kubernetesUpgradeLeaseAcquirable(r)
        /\ GetLease(r, "work")
        /\ work' = [work EXCEPT ![r].pc = "claim"]
     \/ /\ ~kubernetesUpgradeLeaseAcquirable(r)
        /\ GiveUp(r) /\ UNCHANGED current
  /\ UNCHANGED <<spec, comp, trouble, lease, renew, status, budget>>

\* The claim with an unconditional write.
ClaimWithoutCAS(r) ==
  /\ work[r].pc = "claim"
  /\ WriteLease([holder |-> r, age |-> 0])
  /\ work' = [work EXCEPT ![r].pc = "upgrade"]
  /\ renew' = [renew EXCEPT ![r] = "wait"]
  /\ UNCHANGED <<spec, comp, trouble, status, budget>>

\* acquireKubernetesUpgradeLease: Create or Update; then the renewing
\* goroutine starts.
claimLease(r) ==
  /\ work[r].pc = "claim"
  /\ \/ /\ <<r, "work">> \in current
        /\ WriteLease([holder |-> r, age |-> 0])
        /\ work' = [work EXCEPT ![r].pc = "upgrade"]
        /\ renew' = [renew EXCEPT ![r] = "wait"]
     \/ /\ <<r, "work">> \notin current
        /\ GiveUp(r)
        /\ UNCHANGED <<lease, current, renew>>
  /\ UNCHANGED <<spec, comp, trouble, status, budget>>

\* A Get or a write of the Lease fails: UpgradeLeaseUnavailable.
acquireFails(r) ==
  /\ work[r].pc \in {"acquire", "claim"} /\ Fault
  /\ GiveUp(r) /\ current' = current \ {<<r, "work">>}
  /\ UNCHANGED <<spec, comp, trouble, lease, renew, status>>

\* stopRenew: the goroutine ends, but a write it has sent may still arrive.
StopRenew(r) == renew' = [renew EXCEPT ![r] = IF @ = "read" THEN @ ELSE "off"]

EndUpgrade(r) ==
  /\ work' = [work EXCEPT ![r] = [@ EXCEPT !.pc = "release", !.to = 0,
                                         !.from = 0, !.elapsed = 0]]
  /\ StopRenew(r)
  /\ UNCHANGED <<spec, comp, trouble, lease, current, status>>

\* Upstream moves one component after the other to the target.
UpgradeComponent(r, c) ==
  /\ work[r].pc = "upgrade" /\ work[r].from <= work[r].to
  /\ trouble \cap {"workload", "talos"} = {}
  /\ comp[c] # work[r].to
  /\ \A d \in Components : d < c => comp[d] = work[r].to
  /\ comp' = [comp EXCEPT ![c] = work[r].to]
  /\ UNCHANGED <<spec, trouble, lease, current, work, renew, status, budget>>

runKubernetesUpgrade(r) ==
  /\ work[r].pc = "upgrade"
  /\ \A c \in Components : comp[c] = work[r].to
  /\ EndUpgrade(r) /\ UNCHANGED budget

\* The path leads down, or the cluster does not answer until the deadline.
upgradeRefused(r) ==
  /\ work[r].pc = "upgrade"
  /\ \/ work[r].from > work[r].to
     \/ trouble \cap {"workload", "talos"} # {}
  /\ EndUpgrade(r) /\ UNCHANGED budget

\* The upgrade is cut short by an error or by its deadline.
upgradeFails(r) == work[r].pc = "upgrade" /\ EndUpgrade(r) /\ Fault

\* releaseKubernetesUpgradeLease: Get, and nothing for a Lease of another.
releaseKubernetesUpgradeLease(r) ==
  /\ work[r].pc = "release"
  /\ \/ /\ lease.holder = r
        /\ GetLease(r, "work")
        /\ work' = [work EXCEPT ![r].pc = "clear"]
     \/ /\ lease.holder # r
        /\ GiveUp(r) /\ UNCHANGED current
  /\ UNCHANGED <<spec, comp, trouble, lease, renew, status, budget>>

\* releaseKubernetesUpgradeLease: the Update; a conflict is ignored.
clearLease(r) ==
  /\ work[r].pc = "clear"
  /\ GiveUp(r)
  /\ IF <<r, "work">> \in current
       THEN WriteLease([lease EXCEPT !.holder = Nobody])
       ELSE UNCHANGED <<lease, current>>
  /\ UNCHANGED <<spec, comp, trouble, renew, status, budget>>

releaseFails(r) ==
  /\ work[r].pc \in {"release", "clear"} /\ Fault
  /\ GiveUp(r) /\ current' = current \ {<<r, "work">>}
  /\ UNCHANGED <<spec, comp, trouble, lease, renew, status>>

\* The rest of the reconcile.
reportStatus(r) ==
  /\ work[r].pc = "patch"
  /\ status' = patchStatus(r)
  /\ work' = [work EXCEPT ![r] = Idle]
  /\ UNCHANGED <<spec, comp, trouble, lease, current, renew, budget>>

reportFails(r) ==
  /\ work[r].pc = "patch" /\ Fault
  /\ work' = [work EXCEPT ![r] = Idle]
  /\ UNCHANGED <<spec, comp, trouble, lease, current, renew, status>>

-----------------------------------------------------------------------------
(* renewKubernetesUpgradeLease.                                             *)

AfterRenewal(r) == IF work[r].pc = "upgrade" THEN "wait" ELSE "off"

renewKubernetesUpgradeLease(r) ==
  /\ renew[r] = "due"
  /\ \/ /\ lease.holder = r
        /\ GetLease(r, "renew")
        /\ renew' = [renew EXCEPT ![r] = "read"]
     \/ /\ lease.holder # r
        /\ renew' = [renew EXCEPT ![r] = "off"]
        /\ UNCHANGED current
  /\ UNCHANGED <<spec, comp, trouble, lease, work, status, budget>>

\* A renewal that sends what it read without its resourceVersion.
RenewWithoutCAS(r) ==
  /\ renew[r] = "read"
  /\ renew' = [renew EXCEPT ![r] = AfterRenewal(r)]
  /\ WriteLease([holder |-> r, age |-> 0])
  /\ UNCHANGED <<spec, comp, trouble, work, status, budget>>

updateRenewTime(r) ==
  /\ renew[r] = "read"
  /\ renew' = [renew EXCEPT ![r] = AfterRenewal(r)]
  /\ IF <<r, "renew">> \in current
       THEN WriteLease([lease EXCEPT !.age = 0])
       ELSE UNCHANGED <<lease, current>>
  /\ UNCHANGED <<spec, comp, trouble, work, status, budget>>

\* Failures are only logged: the upgrade goes on.
renewFails(r) ==
  /\ renew[r] \in {"due", "read"} /\ Fault
  /\ renew' = [renew EXCEPT ![r] = AfterRenewal(r)]
  /\ current' = current \ {<<r, "renew">>}
  /\ UNCHANGED <<spec, comp, trouble, lease, work, status>>

\* The process dies; it comes back under the same identity.
Crash(r) ==
  /\ work[r].pc # "idle" \/ renew[r] # "off"
  /\ Fault
  /\ work' = [work EXCEPT ![r] = Idle]
  /\ renew' = [renew EXCEPT ![r] = "off"]
  /\ current' = current \ ({r} \X {"work", "renew"})
  /\ UNCHANGED <<spec, comp, trouble, lease, status>>

-----------------------------------------------------------------------------
Replica(r) ==
  \/ reconcileKubernetesUpgrade(r)
  \/ acquireKubernetesUpgradeLease(r) \/ claimLease(r)
  \/ (\E c \in Components : UpgradeComponent(r, c)) \/ runKubernetesUpgrade(r)
  \/ upgradeRefused(r)
  \/ releaseKubernetesUpgradeLease(r) \/ clearLease(r)
  \/ reportStatus(r)
  \/ renewKubernetesUpgradeLease(r) \/ updateRenewTime(r)

Failure(r) ==
  \/ acquireFails(r) \/ upgradeFails(r) \/ releaseFails(r) \/ reportFails(r)
  \/ renewFails(r) \/ Crash(r)

Environment ==
  \/ \E v \in KubernetesVersion : ChangeVersion(v)
  \/ \E v \in Versions : OldNodeJoins(v)
  \/ \E t \in Troubles : TroubleStarts(t)
  \/ TroubleEnds
  \/ Tick

Next == Environment \/ \E r \in Replicas : Replica(r) \/ Failure(r)

\* Reconciles are queued again after every wait and on resync, the goroutines
\* of a live process run, the clock goes on.  Nothing is assumed of users,
\* failures or the end of a trouble.
Fairness ==
  /\ WF_vars(Tick)
  /\ \A r \in Replicas :
       /\ WF_vars(reconcileKubernetesUpgrade(r))
       /\ WF_vars(acquireKubernetesUpgradeLease(r)) /\ WF_vars(claimLease(r))
       /\ WF_vars(\E c \in Components : UpgradeComponent(r, c))
       /\ WF_vars(runKubernetesUpgrade(r)) /\ WF_vars(upgradeRefused(r))
       /\ WF_vars(releaseKubernetesUpgradeLease(r)) /\ WF_vars(clearLease(r))
       /\ WF_vars(reportStatus(r))
       /\ WF_vars(renewKubernetesUpgradeLease(r)) /\ WF_vars(updateRenewTime(r))

Spec == Init /\ [][Next]_vars /\ Fairness

-----------------------------------------------------------------------------
\* Two replicas never run the upgrade at once, whatever crashes, and however
\* acquisition, renewal and release interleave, as long as fewer renewals fail
\* than the duration of the Lease allows.
AtMostOneUpgrade ==
  \A r, q \in Replicas :
    work[r].pc = "upgrade" /\ work[q].pc = "upgrade" => r = q

\* A Lease passes from one replica to another only by expiry: no renewal or
\* release that was sent before the Lease was lost takes it back or frees it.
LeaseIsNotStolen ==
  [][ \A r \in Replicas :
        lease.holder = r /\ lease'.holder # r
          => \/ lease.age >= LeaseDuration
             \/ lease'.holder = Nobody /\ work[r].pc = "clear" ]_vars

\* The desired version is at or above what runs, and stays put with the
\* cluster.
Steady(v) == spec = v /\ trouble = {} /\ \A c \in Components : comp[c] <= v

\* Once the desired version and the cluster stay put, every component gets
\* there, the status observes it and reports no upgrade any more: the holder
\* may crash half-way and another replica, or the same one restarted, takes
\* over.
UpgradeCompletes ==
  \A v \in Versions :
    <>[]Steady(v) => <>[](/\ \A c \in Components : comp[c] = v
                          /\ status.observed = v /\ status.upgrading = "False")

\* The control plane turns UpToDate once it has converged: status.go keeps it
\* from UpToDate "while the Kubernetes version upgrade has not converged".
UpgradedIsUpToDate ==
  \A v \in Versions : <>[]Steady(v) => <>[]status.upToDate

\* "must not conclude UpToDate from a cached value alone": a reconcile that
\* reports UpToDate has observed the version itself.
UpToDateIsObserved ==
  \A r \in Replicas : work[r].result.upToDate => work[r].fresh

\* "The cluster is running the desired Kubernetes version": when a reconcile
\* that saw the cluster itself reports UpToDate, no component is beyond it.
UpToDateIsUniform ==
  [][ \A r \in Replicas :
        work[r].pc = "idle" /\ work'[r].result.upToDate /\ work'[r].fresh
          => \A c \in Components : comp[c] = spec ]_vars
=============================================================================
