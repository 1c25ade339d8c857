----------------------- MODULE KubernetesUpgradeProofs -----------------------
(***************************************************************************)
(* Type correctness of KubernetesUpgrade; that its Lease changes hands only *)
(* by expiry; and that it keeps two replicas from upgrading at once when    *)
(* the Lease outlasts the renewals that fail: for any number of replicas,   *)
(* versions, components, faults and changes.                                *)
(***************************************************************************)
EXTENDS KubernetesUpgrade, WellFoundedInduction, TLAPS

Report == TartControlPlaneKubernetesUpgradeStatus

\* A reconcile in flight, the type of work[r].
Reconcile ==
  [pc : {"idle", "acquire", "claim", "upgrade", "release", "clear", "patch"},
   to : KubernetesVersion, from : KubernetesVersion,
   fresh : BOOLEAN, elapsed : 0..UpgradeTimeout,
   result : Report, original : Report]

\* A copy of the Lease that is still the stored one is held only between a
\* Get and its write, and what was checked on it still holds; no reconcile
\* asks for the Lease while a renewal of its predecessor is under way.
Copy(r) ==
  /\ <<r, "work">> \in current =>
       \/ work[r].pc = "claim" /\ kubernetesUpgradeLeaseAcquirable(r)
       \/ work[r].pc = "clear" /\ lease.holder = r
  /\ <<r, "renew">> \in current => renew[r] = "read" /\ lease.holder = r
  /\ work[r].pc \in {"acquire", "claim"} => renew[r] = "off"

Copies == \A r \in Replicas : Copy(r)

\* An upgrade is started only for a desired version that is set.
Targets ==
  \A r \in Replicas :
    work[r].pc \in {"acquire", "claim", "upgrade"} => work[r].to \in Versions

FaultsSoFar == MaxFaults - budget.faults

\* A replica that upgrades holds the Lease, its goroutine is alive, and the
\* Lease is no older than the renewals that failed, and the one that is due.
Holds(r) ==
  work[r].pc = "upgrade" =>
    /\ lease.holder = r
    /\ \/ renew[r] = "wait" /\ lease.age <= FaultsSoFar
       \/ renew[r] = "due" /\ lease.age <= FaultsSoFar + 1
       \/ /\ renew[r] = "read" /\ lease.age <= FaultsSoFar + 1
          /\ <<r, "renew">> \in current

Held == \A r \in Replicas : Holds(r)

-----------------------------------------------------------------------------
(* Type correctness.                                                       *)

\* A set of numbers has a least one.
LEMMA LeastNumber ==
  ASSUME NEW S, S \subseteq Nat, S # {}
  PROVE  \E m \in S : \A n \in S : m <= n
<1> DEFINE R == {p \in Nat \X Nat : p[1] < p[2]}
<1>0. IsWellFoundedOn(R, Nat)
  BY NatLessThanWellFounded, Zenon DEF OpToRel
<1>1. PICK m \in S : \A n \in S : ~ (<<n, m>> \in R)
  <2> HIDE DEF R
  <2>1. QED
    BY <1>0, WFMin
<1>2. ASSUME NEW n \in S
      PROVE  m <= n
  <2>1. ~ (n < m)
    BY <1>1
  <2>2. QED
    BY <2>1
<1>3. QED
  BY <1>2

\* DetectLowestVersion returns a version that some component runs and none is
\* below.
LEMMA LowestVersionIsLeast ==
  ASSUME comp \in [Components -> Versions]
  PROVE  /\ LowestVersion \in {comp[c] : c \in Components}
         /\ \A c \in Components : LowestVersion <= comp[c]
<1> DEFINE S == {comp[c] : c \in Components}
<1>0. Versions \subseteq Nat /\ Components # {}
  BY UpgradeAssumption
<1>1. S \subseteq Nat /\ S # {}
  BY <1>0
<1>2. PICK v \in S : \A w \in S : v <= w
  <2> HIDE DEF S
  <2>1. QED
    BY <1>1, LeastNumber
<1>3. v \in S /\ \A c \in Components : v <= comp[c]
  BY <1>2
<1>4. QED
  BY <1>3, Zenon DEF LowestVersion

\* Every reconcile starts from nothing reported.
LEMMA IdleType == Unreported \in Report /\ Idle \in Reconcile
BY UpgradeAssumption DEF Unreported, Idle, Report, Reconcile, KubernetesVersion,
                         TartControlPlaneKubernetesUpgradeStatus

\* What a reconcile reports of any version, and how it is merged into the
\* stored status, is a status.
LEMMA ReportType ==
  ASSUME NEW d \in KubernetesVersion, NEW o \in KubernetesVersion,
         NEW a \in BOOLEAN, NEW u \in BOOLEAN
  PROVE  controlPlaneStatus(d, o, a, u) \in Report
BY DEF controlPlaneStatus, Report, TartControlPlaneKubernetesUpgradeStatus

\* What the status patch of a reconcile leaves stored is a status.
LEMMA PatchType ==
  ASSUME TypeOK, NEW r \in Replicas
  PROVE  patchStatus(r) \in Report
<1>1. /\ work[r].result \in Report /\ work[r].original \in Report
      /\ status \in Report
  BY DEF TypeOK, Report
<1>2. QED
  BY <1>1 DEF patchStatus, Report, TartControlPlaneKubernetesUpgradeStatus

\* The edits of a reconcile in flight keep its type.
LEMMA ReconcileEdits ==
  ASSUME NEW w \in Reconcile
  PROVE  /\ \A s \in {"claim", "upgrade", "clear"} : [w EXCEPT !.pc = s] \in Reconcile
         /\ [w EXCEPT !.pc = "patch", !.to = 0, !.from = 0] \in Reconcile
         /\ [w EXCEPT !.pc = "release", !.to = 0, !.from = 0, !.elapsed = 0] \in Reconcile
         /\ w.elapsed < UpgradeTimeout => [w EXCEPT !.elapsed = @ + 1] \in Reconcile
<1>1. 0 \in KubernetesVersion /\ 0 \in 0..UpgradeTimeout
  BY UpgradeAssumption DEF KubernetesVersion
<1>2. w.elapsed < UpgradeTimeout => w.elapsed + 1 \in 0..UpgradeTimeout
  BY UpgradeAssumption DEF Reconcile
<1>3. w.elapsed < UpgradeTimeout => [w EXCEPT !.elapsed = @ + 1] \in Reconcile
  BY <1>2 DEF Reconcile
<1>4. QED
  BY <1>1, <1>3 DEF Reconcile

\* TypeOK as its parts.
LEMMA TypeParts ==
  TypeOK <=>
    /\ spec \in KubernetesVersion
    /\ comp \in [Components -> Versions]
    /\ trouble \in Troubles
    /\ lease \in [holder : Replicas \cup {Nobody}, age : 0..LeaseDuration]
    /\ current \subseteq Replicas \X {"work", "renew"}
    /\ work \in [Replicas -> Reconcile]
    /\ renew \in [Replicas -> {"off", "wait", "due", "read"}]
    /\ status \in Report
    /\ budget \in [faults : 0..MaxFaults, changes : 0..MaxChanges]
BY DEF TypeOK, Report, Reconcile

\* The initial states are well typed.
LEMMA InitType == Init => TypeOK
<1> SUFFICES ASSUME Init PROVE TypeOK
  OBVIOUS
<1>1. /\ spec \in KubernetesVersion
      /\ comp \in [Components -> Versions]
      /\ trouble \in Troubles
      /\ lease \in [holder : Replicas \cup {Nobody}, age : 0..LeaseDuration]
      /\ current \subseteq Replicas \X {"work", "renew"}
      /\ budget \in [faults : 0..MaxFaults, changes : 0..MaxChanges]
  BY UpgradeAssumption DEF Init, KubernetesVersion
<1>2. /\ work \in [Replicas -> Reconcile]
      /\ renew \in [Replicas -> {"off", "wait", "due", "read"}]
      /\ status \in Report
  BY IdleType DEF Init
<1>3. QED
  BY <1>1, <1>2, TypeParts

\* A fault uses up the budget.
LEMMA FaultType ==
  ASSUME TypeOK, Fault
  PROVE  /\ budget' \in [faults : 0..MaxFaults, changes : 0..MaxChanges]
         /\ budget'.faults = budget.faults - 1
<1>1. budget.faults - 1 \in 0..MaxFaults
  BY UpgradeAssumption DEF TypeOK, Fault
<1>2. QED
  BY <1>1 DEF TypeOK, Fault

\* The steps of the cluster, its users and the clock keep the types.
LEMMA EnvironmentType ==
  ASSUME TypeOK, Environment
  PROVE  TypeOK'
<1> USE TypeParts
<1>1. CASE \E v \in KubernetesVersion : ChangeVersion(v)
  <2>1. budget.changes - 1 \in 0..MaxChanges
    BY <1>1, UpgradeAssumption DEF ChangeVersion
  <2>2. budget' \in [faults : 0..MaxFaults, changes : 0..MaxChanges]
    BY <1>1, <2>1 DEF ChangeVersion
  <2>3. QED
    BY <1>1, <2>2 DEF ChangeVersion, TypeOK
<1>2. CASE \E v \in Versions : OldNodeJoins(v)
  <2>1. budget.changes - 1 \in 0..MaxChanges
    BY <1>2, UpgradeAssumption DEF OldNodeJoins
  <2>2. budget' \in [faults : 0..MaxFaults, changes : 0..MaxChanges]
    BY <1>2, <2>1 DEF OldNodeJoins
  <2>3. comp' \in [Components -> Versions]
    BY <1>2 DEF OldNodeJoins
  <2>4. QED
    BY <1>2, <2>2, <2>3 DEF OldNodeJoins, TypeOK
<1>3. CASE \E t \in Troubles : TroubleStarts(t)
  BY <1>3, FaultType DEF TroubleStarts, TypeOK
<1>4. CASE TroubleEnds
  BY <1>4, UpgradeAssumption DEF TroubleEnds, TypeOK
<1>5. CASE Tick
  <2>1. lease' \in [holder : Replicas \cup {Nobody}, age : 0..LeaseDuration]
    <3>1. lease \in [holder : Replicas \cup {Nobody}, age : 0..LeaseDuration]
      OBVIOUS
    <3>2. lease.age < LeaseDuration => lease.age + 1 \in 0..LeaseDuration
      BY <3>1, UpgradeAssumption
    <3>3. QED
      BY <1>5, <3>1, <3>2, UpgradeAssumption DEF Tick
  <2>2. ASSUME NEW r \in Replicas
        PROVE  work'[r] \in Reconcile
    <3>1. work[r] \in Reconcile
      OBVIOUS
    <3>2. work[r].pc = "upgrade" => work[r].elapsed < UpgradeTimeout
      BY <1>5, <3>1, UpgradeAssumption DEF Tick, TimedOut, Reconcile
    <3>3. work'[r] = IF work[r].pc = "upgrade"
                       THEN [work[r] EXCEPT !.elapsed = @ + 1] ELSE work[r]
      BY <1>5 DEF Tick
    <3>4. QED
      BY <3>1, <3>2, <3>3, ReconcileEdits
  <2>3. work' \in [Replicas -> Reconcile]
    BY <1>5, <2>2 DEF Tick
  <2>4. renew' \in [Replicas -> {"off", "wait", "due", "read"}]
    BY <1>5 DEF Tick
  <2>5. QED
    BY <1>5, <2>1, <2>3, <2>4 DEF Tick, TypeOK, Reconcile, Report
<1>6. QED
  BY <1>1, <1>2, <1>3, <1>4, <1>5 DEF Environment

\* The decision of a reconcile keeps the types.
LEMMA ReconcileType ==
  ASSUME TypeOK, NEW r \in Replicas, reconcileKubernetesUpgrade(r)
  PROVE  TypeOK'
<1> DEFINE fresh == observeClusterKubernetesVersion
           observed == IF fresh THEN LowestVersion ELSE status.observed
           decision == evaluateKubernetesUpgrade(spec, observed, fresh)
           active == \/ decision \in {"Fail", "Upgrade"}
                     \/ decision = "Wait" /\ observed \notin {0, spec}
           new == [Idle EXCEPT
                     !.pc = IF decision = "Upgrade" THEN "acquire" ELSE "patch",
                     !.to = IF decision = "Upgrade" THEN spec ELSE 0,
                     !.from = IF decision = "Upgrade" THEN observed ELSE 0,
                     !.fresh = fresh,
                     !.original = status,
                     !.result = controlPlaneStatus(spec, observed, active,
                                                   decision = "Unknown")]
<1>1. work' = [work EXCEPT ![r] = new]
  BY DEF reconcileKubernetesUpgrade
<1>2. /\ spec \in KubernetesVersion /\ status \in Report
      /\ 0 \in KubernetesVersion
  BY TypeParts DEF KubernetesVersion
<1>3. observed \in KubernetesVersion
  <2>1. status.observed \in KubernetesVersion
    BY <1>2 DEF Report, TartControlPlaneKubernetesUpgradeStatus
  <2>2. LowestVersion \in Versions
    BY LowestVersionIsLeast, TypeParts
  <2>3. QED
    BY <2>1, <2>2 DEF KubernetesVersion
<1>4. fresh \in BOOLEAN /\ active \in BOOLEAN
  BY DEF observeClusterKubernetesVersion
<1> HIDE DEF decision, observed, fresh, active
<1>5. controlPlaneStatus(spec, observed, active, decision = "Unknown") \in Report
  BY <1>2, <1>3, <1>4, ReportType
<1>6. new \in Reconcile
  BY <1>2, <1>3, <1>4, <1>5, IdleType DEF Reconcile
<1> HIDE DEF new
<1>7. work' \in [Replicas -> Reconcile]
  BY <1>1, <1>6, TypeParts
<1>8. QED
  BY <1>7 DEF reconcileKubernetesUpgrade, TypeOK, Reconcile, Report

\* The other steps change the reconcile of r by one of the edits above.
LEMMA WorkStepType ==
  ASSUME TypeOK, NEW r \in Replicas,
         \/ \E s \in {"claim", "upgrade", "clear"} : work' = [work EXCEPT ![r].pc = s]
         \/ GiveUp(r)
         \/ work' = [work EXCEPT ![r] = [@ EXCEPT !.pc = "release", !.to = 0,
                                                 !.from = 0, !.elapsed = 0]]
         \/ work' = [work EXCEPT ![r] = Idle]
         \/ UNCHANGED work
  PROVE  work' \in [Replicas -> Reconcile]
<1>1. work \in [Replicas -> Reconcile] /\ work[r] \in Reconcile
  BY TypeParts
<1>2. \E w \in Reconcile : work' = [work EXCEPT ![r] = w]
  BY <1>1, ReconcileEdits, IdleType DEF GiveUp
<1>3. QED
  BY <1>1, <1>2

\* The Lease and its copies, after a Get or a write.
LEMMA LeaseType ==
  ASSUME TypeOK, NEW r \in Replicas
  PROVE  /\ \A who \in {"work", "renew"} :
              current \cup {<<r, who>>} \subseteq Replicas \X {"work", "renew"}
         /\ [holder |-> r, age |-> 0]
              \in [holder : Replicas \cup {Nobody}, age : 0..LeaseDuration]
         /\ [lease EXCEPT !.holder = Nobody]
              \in [holder : Replicas \cup {Nobody}, age : 0..LeaseDuration]
         /\ [lease EXCEPT !.age = 0]
              \in [holder : Replicas \cup {Nobody}, age : 0..LeaseDuration]
<1>1. \A who \in {"work", "renew"} :
        current \cup {<<r, who>>} \subseteq Replicas \X {"work", "renew"}
  BY DEF TypeOK
<1>2. 0 \in 0..LeaseDuration
  BY UpgradeAssumption
<1>3. lease \in [holder : Replicas \cup {Nobody}, age : 0..LeaseDuration]
  BY DEF TypeOK
<1>4. /\ [lease EXCEPT !.holder = Nobody]
           \in [holder : Replicas \cup {Nobody}, age : 0..LeaseDuration]
      /\ [lease EXCEPT !.age = 0]
           \in [holder : Replicas \cup {Nobody}, age : 0..LeaseDuration]
  BY <1>2, <1>3
<1>5. QED
  BY <1>1, <1>2, <1>4

\* The steps of a reconcile, of its goroutine and their failures keep the types.
LEMMA ReplicaType ==
  ASSUME TypeOK, Targets, NEW r \in Replicas, Replica(r) \/ Failure(r)
  PROVE  TypeOK'
<1> USE LeaseType, FaultType DEF Reconcile, Report
<1>1. CASE reconcileKubernetesUpgrade(r)
  BY <1>1, ReconcileType
<1>2. CASE acquireKubernetesUpgradeLease(r)
  <2>1. work' \in [Replicas -> Reconcile]
    BY <1>2, WorkStepType DEF acquireKubernetesUpgradeLease
  <2>2. QED
    BY <1>2, <2>1 DEF acquireKubernetesUpgradeLease, GetLease, TypeOK
<1>3. CASE claimLease(r)
  <2>1. work' \in [Replicas -> Reconcile]
    BY <1>3, WorkStepType DEF claimLease
  <2>2. QED
    BY <1>3, <2>1 DEF claimLease, WriteLease, TypeOK
<1>4. CASE \E c \in Components : UpgradeComponent(r, c)
  <2>1. PICK c \in Components : UpgradeComponent(r, c)
    BY <1>4
  <2>2. work[r].to \in Versions
    BY <2>1 DEF UpgradeComponent, Targets
  <2>3. comp' \in [Components -> Versions]
    BY <2>1, <2>2 DEF UpgradeComponent, TypeOK
  <2>4. QED
    BY <2>1, <2>3 DEF UpgradeComponent, TypeOK
<1>5. CASE runKubernetesUpgrade(r) \/ upgradeRefused(r)
  <2>1. work' \in [Replicas -> Reconcile]
    BY <1>5, WorkStepType DEF runKubernetesUpgrade, upgradeRefused, EndUpgrade
  <2>2. QED
    BY <1>5, <2>1 DEF runKubernetesUpgrade, upgradeRefused, EndUpgrade, StopRenew, TypeOK
<1>6. CASE releaseKubernetesUpgradeLease(r)
  <2>1. work' \in [Replicas -> Reconcile]
    BY <1>6, WorkStepType DEF releaseKubernetesUpgradeLease
  <2>2. QED
    BY <1>6, <2>1 DEF releaseKubernetesUpgradeLease, GetLease, TypeOK
<1>7. CASE clearLease(r)
  <2>1. work' \in [Replicas -> Reconcile]
    BY <1>7, WorkStepType DEF clearLease
  <2>2. QED
    BY <1>7, <2>1 DEF clearLease, WriteLease, TypeOK
<1>8. CASE reportStatus(r)
  <2>1. work' \in [Replicas -> Reconcile]
    BY <1>8, WorkStepType DEF reportStatus
  <2>2. QED
    BY <1>8, <2>1, PatchType DEF reportStatus, TypeOK
<1>9. CASE renewKubernetesUpgradeLease(r)
  <2>1. current' \subseteq Replicas \X {"work", "renew"}
    BY <1>9 DEF renewKubernetesUpgradeLease, GetLease, TypeOK
  <2>2. renew' \in [Replicas -> {"off", "wait", "due", "read"}]
    BY <1>9 DEF renewKubernetesUpgradeLease, TypeOK
  <2>3. QED
    BY <1>9, <2>1, <2>2 DEF renewKubernetesUpgradeLease, TypeOK
<1>10. CASE updateRenewTime(r)
  BY <1>10 DEF updateRenewTime, AfterRenewal, WriteLease, TypeOK
<1>11. CASE acquireFails(r) \/ releaseFails(r)
  <2>1. work' \in [Replicas -> Reconcile]
    BY <1>11, WorkStepType DEF acquireFails, releaseFails
  <2>2. QED
    BY <1>11, <2>1 DEF acquireFails, releaseFails, TypeOK
<1>12. CASE upgradeFails(r)
  <2>1. work' \in [Replicas -> Reconcile]
    BY <1>12, WorkStepType DEF upgradeFails, EndUpgrade
  <2>2. QED
    BY <1>12, <2>1 DEF upgradeFails, EndUpgrade, StopRenew, TypeOK
<1>13. CASE reportFails(r)
  <2>1. work' \in [Replicas -> Reconcile]
    BY <1>13, WorkStepType DEF reportFails
  <2>2. QED
    BY <1>13, <2>1 DEF reportFails, TypeOK
<1>14. CASE renewFails(r)
  BY <1>14 DEF renewFails, AfterRenewal, TypeOK
<1>15. CASE Crash(r)
  <2>1. work' \in [Replicas -> Reconcile]
    BY <1>15, WorkStepType DEF Crash
  <2>2. QED
    BY <1>15, <2>1 DEF Crash, TypeOK
<1>16. QED
  BY <1>1, <1>2, <1>3, <1>4, <1>5, <1>6, <1>7, <1>8, <1>9, <1>10, <1>11, <1>12,
     <1>13, <1>14, <1>15 DEF Replica, Failure

\* A target is set with the decision and dropped with the upgrade.
LEMMA TargetsStep ==
  ASSUME TypeOK, Targets, [Next]_vars
  PROVE  Targets'
<1>1. CASE UNCHANGED vars \/ Environment
  <2>1. ASSUME NEW r \in Replicas
        PROVE  /\ work'[r].pc = work[r].pc
               /\ work'[r].to = work[r].to
    BY <1>1 DEF vars, Environment, ChangeVersion, OldNodeJoins, TroubleStarts, TroubleEnds,
                Tick, TypeOK
  <2>2. QED
    BY <2>1 DEF Targets
<1>2. ASSUME NEW r \in Replicas, Replica(r) \/ Failure(r)
      PROVE  Targets'
  <2>1. CASE reconcileKubernetesUpgrade(r)
    <3>1. /\ work'[r].pc \in {"acquire", "claim", "upgrade"} =>
               work'[r].to = spec /\ spec # 0
          /\ \A q \in Replicas : q # r => work'[q] = work[q]
      BY <2>1 DEF reconcileKubernetesUpgrade, evaluateKubernetesUpgrade, Idle, TypeOK
    <3>2. spec # 0 => spec \in Versions
      BY DEF TypeOK, KubernetesVersion
    <3>3. QED
      BY <3>1, <3>2 DEF Targets
  <2>2. CASE UNCHANGED work
    BY <2>2 DEF Targets
  <2>3. CASE /\ work[r].pc \in {"acquire", "claim"}
             /\ \E s \in {"claim", "upgrade"} : work' = [work EXCEPT ![r].pc = s]
    BY <2>3 DEF Targets, TypeOK
  <2>4. CASE \E w : /\ w.pc \notin {"acquire", "claim", "upgrade"}
                    /\ work' = [work EXCEPT ![r] = w]
    BY <2>4 DEF Targets, TypeOK
  <2>5. QED
    <3>1. \/ reconcileKubernetesUpgrade(r)
          \/ UNCHANGED work
          \/ /\ work[r].pc \in {"acquire", "claim"}
             /\ \E s \in {"claim", "upgrade"} : work' = [work EXCEPT ![r].pc = s]
          \/ work' = [work EXCEPT ![r].pc = "clear"]
          \/ GiveUp(r) \/ EndUpgrade(r)
          \/ work' = [work EXCEPT ![r] = Idle]
      BY <1>2 DEF Replica, Failure, acquireKubernetesUpgradeLease, claimLease,
                  UpgradeComponent, runKubernetesUpgrade, upgradeRefused,
                  releaseKubernetesUpgradeLease, clearLease, reportStatus,
                  renewKubernetesUpgradeLease, updateRenewTime, acquireFails, upgradeFails,
                  releaseFails, reportFails, renewFails, Crash
    <3>2. work[r] \in Reconcile
      BY TypeParts
    <3>3. work' = [work EXCEPT ![r].pc = "clear"] \/ GiveUp(r) \/ EndUpgrade(r)
            \/ work' = [work EXCEPT ![r] = Idle]
          => \E w : /\ w.pc \notin {"acquire", "claim", "upgrade"}
                    /\ work' = [work EXCEPT ![r] = w]
      BY <3>2 DEF Reconcile, GiveUp, EndUpgrade, Idle
    <3>4. QED
      BY <2>1, <2>2, <2>3, <2>4, <3>1, <3>3
<1>3. QED
  BY <1>1, <1>2 DEF Next

\* The types together with what a target is are kept by every step.
LEMMA TypeStep == TypeOK /\ Targets /\ [Next]_vars => TypeOK' /\ Targets'
<1>1. CASE UNCHANGED vars
  BY <1>1, TargetsStep DEF vars, TypeOK
<1>2. QED
  BY <1>1, EnvironmentType, ReplicaType, TargetsStep DEF Next

\* They hold of every behaviour.
LEMMA TypeInvariant == Spec => [](TypeOK /\ Targets)
<1>1. Init => Targets
  BY DEF Init, Targets, Idle
<1>2. QED
  BY <1>1, InitType, TypeStep, PTL DEF Spec

\* Every variable keeps its type: among the rest, no upgrade outlives its
\* deadline, the Lease never counts past its duration, and a component is
\* only ever upgraded to a version that was asked for.
THEOREM TypeCorrect == Spec => []TypeOK
BY TypeInvariant, PTL

-----------------------------------------------------------------------------
(* The Lease.                                                              *)

\* No step of a replica touches the reconcile or the goroutine of another.
LEMMA OthersStand ==
  ASSUME TypeOK, NEW r \in Replicas, Replica(r) \/ Failure(r),
         NEW q \in Replicas, q # r
  PROVE  work'[q] = work[q] /\ renew'[q] = renew[q]
<1>1. \/ UNCHANGED work \/ \E w : work' = [work EXCEPT ![r] = w]
  BY DEF Replica, Failure, reconcileKubernetesUpgrade, acquireKubernetesUpgradeLease,
         claimLease, UpgradeComponent, runKubernetesUpgrade, upgradeRefused, EndUpgrade,
         releaseKubernetesUpgradeLease, clearLease, reportStatus, GiveUp,
         renewKubernetesUpgradeLease, updateRenewTime, acquireFails, upgradeFails,
         releaseFails, reportFails, renewFails, Crash
<1>2. \/ UNCHANGED renew \/ \E n : renew' = [renew EXCEPT ![r] = n]
  BY DEF Replica, Failure, reconcileKubernetesUpgrade, acquireKubernetesUpgradeLease,
         claimLease, UpgradeComponent, runKubernetesUpgrade, upgradeRefused, EndUpgrade,
         StopRenew, releaseKubernetesUpgradeLease, clearLease, reportStatus, GiveUp,
         renewKubernetesUpgradeLease, updateRenewTime, acquireFails, upgradeFails,
         releaseFails, reportFails, renewFails, Crash
<1>3. QED
  BY <1>1, <1>2 DEF TypeOK

\* The step of its reconcile a replica is in after each of its moves.
LEMMA Moves ==
  ASSUME TypeOK, NEW r \in Replicas
  PROVE  /\ \A s : work' = [work EXCEPT ![r].pc = s] => work'[r].pc = s
         /\ GiveUp(r) => work'[r].pc = "patch"
         /\ EndUpgrade(r) => work'[r].pc = "release"
         /\ work' = [work EXCEPT ![r] = Idle] => work'[r].pc = "idle"
         /\ reconcileKubernetesUpgrade(r) => work'[r].pc \in {"acquire", "patch"}
<1>1. work \in [Replicas -> Reconcile] /\ work[r] \in Reconcile
  BY TypeParts
<1>2. \A s : work' = [work EXCEPT ![r].pc = s] => work'[r].pc = s
  BY <1>1 DEF Reconcile
<1>3. GiveUp(r) => work'[r].pc = "patch"
  BY <1>1 DEF Reconcile, GiveUp
<1>4. EndUpgrade(r) => work'[r].pc = "release"
  BY <1>1 DEF Reconcile, EndUpgrade
<1>5. work' = [work EXCEPT ![r] = Idle] => work'[r].pc = "idle"
  BY <1>1 DEF Idle
<1>6. reconcileKubernetesUpgrade(r) => work'[r].pc \in {"acquire", "patch"}
  BY <1>1 DEF Idle, reconcileKubernetesUpgrade
<1>7. QED
  BY <1>2, <1>3, <1>4, <1>5, <1>6

\* Time only makes a Lease more acquirable and is not about its holder;
\* nothing else the environment does is about the Lease.
LEMMA EnvironmentCopies ==
  ASSUME TypeOK, Copies, Environment
  PROVE  Copies'
<1>1. CASE Tick
  <2>1. lease.age \in Int /\ LeaseDuration \in Int
    BY UpgradeAssumption DEF TypeOK
  <2>2. /\ current' = current /\ lease'.holder = lease.holder
        /\ lease.age >= LeaseDuration => lease'.age >= LeaseDuration
    BY <1>1, <2>1 DEF Tick, TypeOK
  <2>3. ASSUME NEW r \in Replicas
        PROVE  /\ work'[r].pc = work[r].pc
               /\ renew[r] \in {"off", "read"} => renew'[r] = renew[r]
    BY <1>1 DEF Tick, TypeOK
  <2>4. QED
    BY <2>2, <2>3 DEF Copies, Copy, kubernetesUpgradeLeaseAcquirable
<1>2. CASE UNCHANGED <<lease, current, work, renew>>
  BY <1>2 DEF Copies, Copy, kubernetesUpgradeLeaseAcquirable
<1>3. QED
  BY <1>1, <1>2 DEF Environment, ChangeVersion, OldNodeJoins, TroubleStarts, TroubleEnds

\* A copy that r does not touch stays true while the Lease is kept.
LEMMA CopyKept ==
  ASSUME TypeOK, Copies, NEW r \in Replicas, Replica(r) \/ Failure(r),
         NEW q \in Replicas, q # r, UNCHANGED lease,
         \A who \in {"work", "renew"} : <<q, who>> \in current' => <<q, who>> \in current
  PROVE  Copy(q)'
BY OthersStand DEF Copies, Copy, kubernetesUpgradeLeaseAcquirable

\* A Get makes a copy of what was just checked, a write leaves no copy, and
\* a step that keeps the Lease keeps what every copy says.
LEMMA ReplicaCopies ==
  ASSUME TypeOK, Copies, NEW r \in Replicas, Replica(r) \/ Failure(r)
  PROVE  Copies'
<1>0. Copy(r)
  BY DEF Copies
<1>1. CASE UNCHANGED lease
  <2>1. ASSUME NEW q \in Replicas, q # r, NEW who \in {"work", "renew"},
               <<q, who>> \in current'
        PROVE  <<q, who>> \in current
    BY <1>1, <2>1
       DEF Replica, Failure, reconcileKubernetesUpgrade, acquireKubernetesUpgradeLease,
           claimLease, UpgradeComponent, runKubernetesUpgrade, upgradeRefused, EndUpgrade,
           releaseKubernetesUpgradeLease, clearLease, reportStatus, GetLease, WriteLease,
           renewKubernetesUpgradeLease, updateRenewTime, acquireFails, upgradeFails,
           releaseFails, reportFails, renewFails, Crash
  <2>2. \A q \in Replicas : q # r => Copy(q)'
    BY <1>1, <2>1, CopyKept
  <2>3. Copy(r)'
    <3> USE Moves, <1>0, <1>1 DEF Copy, kubernetesUpgradeLeaseAcquirable
    <3>1. CASE reconcileKubernetesUpgrade(r)
      BY <3>1 DEF reconcileKubernetesUpgrade
    <3>2. CASE acquireKubernetesUpgradeLease(r)
      BY <3>2 DEF acquireKubernetesUpgradeLease, GetLease
    <3>3. CASE claimLease(r)
      BY <3>3 DEF claimLease, WriteLease
    <3>4. CASE \E c \in Components : UpgradeComponent(r, c)
      BY <3>4 DEF UpgradeComponent
    <3>5. CASE runKubernetesUpgrade(r) \/ upgradeRefused(r) \/ upgradeFails(r)
      BY <3>5 DEF runKubernetesUpgrade, upgradeRefused, upgradeFails, EndUpgrade, StopRenew,
                  TypeOK
    <3>6. CASE releaseKubernetesUpgradeLease(r)
      BY <3>6 DEF releaseKubernetesUpgradeLease, GetLease
    <3>7. CASE clearLease(r)
      BY <3>7 DEF clearLease, WriteLease
    <3>8. CASE reportStatus(r) \/ reportFails(r)
      BY <3>8 DEF reportStatus, reportFails
    <3>9. CASE renewKubernetesUpgradeLease(r)
      BY <3>9 DEF renewKubernetesUpgradeLease, GetLease, TypeOK
    <3>10. CASE updateRenewTime(r)
      BY <3>10 DEF updateRenewTime, AfterRenewal, WriteLease, TypeOK
    <3>11. CASE acquireFails(r) \/ releaseFails(r)
      BY <3>11 DEF acquireFails, releaseFails
    <3>12. CASE renewFails(r)
      BY <3>12 DEF renewFails, AfterRenewal, TypeOK
    <3>13. CASE Crash(r)
      BY <3>13 DEF Crash, TypeOK
    <3>14. QED
      BY <3>1, <3>2, <3>3, <3>4, <3>5, <3>6, <3>7, <3>8, <3>9, <3>10, <3>11, <3>12,
         <3>13 DEF Replica, Failure
  <2>4. QED
    BY <2>2, <2>3 DEF Copies
<1>2. CASE lease' # lease
  <2>1. /\ current' = {}
        /\ claimLease(r) \/ clearLease(r) \/ updateRenewTime(r)
    BY <1>2 DEF Replica, Failure, reconcileKubernetesUpgrade, acquireKubernetesUpgradeLease,
           claimLease, UpgradeComponent, runKubernetesUpgrade, upgradeRefused, EndUpgrade,
           releaseKubernetesUpgradeLease, clearLease, reportStatus, WriteLease,
           renewKubernetesUpgradeLease, updateRenewTime, acquireFails, upgradeFails,
           releaseFails, reportFails, renewFails, Crash
  <2>2. work'[r].pc \in {"acquire", "claim"} => renew'[r] = "off"
    <3>1. CASE claimLease(r) \/ clearLease(r)
      BY <3>1, Moves DEF claimLease, clearLease
    <3>2. CASE updateRenewTime(r)
      BY <3>2, <1>0 DEF updateRenewTime, Copy
    <3>3. QED
      BY <2>1, <3>1, <3>2
  <2>3. \A q \in Replicas : q # r =>
          (work'[q].pc \in {"acquire", "claim"} => renew'[q] = "off")
    BY OthersStand DEF Copies, Copy
  <2>4. QED
    BY <2>1, <2>2, <2>3 DEF Copies, Copy
<1>3. QED
  BY <1>1, <1>2

\* Every step keeps the copies of the lease as old as they are,
LEMMA CopiesStep == TypeOK /\ Copies /\ [Next]_vars => Copies'
<1>1. ASSUME UNCHANGED vars, Copies PROVE Copies'
  BY <1>1 DEF vars, Copies, Copy, kubernetesUpgradeLeaseAcquirable
<1>2. QED
  BY <1>1, EnvironmentCopies, ReplicaCopies DEF Next

\* so they always are.
LEMMA CopiesInvariant == Spec => [](TypeOK /\ Targets /\ Copies)
<1>1. Init => Copies
  BY DEF Init, Copies, Copy, Idle
<1>2. QED
  BY <1>1, CopiesStep, TypeInvariant, PTL DEF Spec

\* The Lease is taken from a replica only when it has expired, and freed only
\* by the replica's own release: a late renewal, a release that was overtaken
\* and a claim from an old copy all fail, whatever crashes.
THEOREM LeaseNotStolen == Spec => LeaseIsNotStolen
<1>1. TypeOK /\ Copies /\ [Next]_vars =>
        [\A r \in Replicas :
           lease.holder = r /\ lease'.holder # r
             => \/ lease.age >= LeaseDuration
                \/ lease'.holder = Nobody /\ work[r].pc = "clear"]_vars
  <2> SUFFICES ASSUME TypeOK, Copies, [Next]_vars, NEW r \in Replicas,
                      lease.holder = r, lease'.holder # r
               PROVE  \/ lease.age >= LeaseDuration
                      \/ lease'.holder = Nobody /\ work[r].pc = "clear"
    OBVIOUS
  <2>1. PICK q \in Replicas : Replica(q) \/ Failure(q)
    BY DEF Next, Environment, ChangeVersion, OldNodeJoins, TroubleStarts, TroubleEnds, Tick,
           vars, TypeOK
  <2>2. claimLease(q) \/ clearLease(q) \/ updateRenewTime(q)
    BY <2>1
       DEF Replica, Failure, reconcileKubernetesUpgrade, acquireKubernetesUpgradeLease,
           UpgradeComponent, runKubernetesUpgrade, upgradeRefused, EndUpgrade,
           releaseKubernetesUpgradeLease, reportStatus,
           renewKubernetesUpgradeLease, acquireFails, upgradeFails,
           releaseFails, reportFails, renewFails, Crash
  <2>3. r # Nobody
    BY NobodyAssumption
  <2>4. Copy(q)
    BY DEF Copies
  <2>5. CASE claimLease(q)
    BY <2>3, <2>4, <2>5 DEF claimLease, Copy, kubernetesUpgradeLeaseAcquirable, WriteLease
  <2>6. CASE clearLease(q)
    BY <2>3, <2>4, <2>6 DEF clearLease, Copy, WriteLease, TypeOK
  <2>7. CASE updateRenewTime(q)
    BY <2>7 DEF updateRenewTime, WriteLease, TypeOK
  <2>8. QED
    BY <2>2, <2>5, <2>6, <2>7
<1>2. QED
  BY <1>1, CopiesInvariant, PTL DEF Spec, LeaseIsNotStolen

-----------------------------------------------------------------------------
(* Mutual exclusion.                                                       *)

\* While the Lease has not expired, only its holder writes it.
LEMMA OnlyHolderWrites ==
  ASSUME TypeOK, Copies, NEW q \in Replicas, Replica(q) \/ Failure(q),
         NEW r \in Replicas, lease.holder = r, lease.age < LeaseDuration, q # r
  PROVE  lease' = lease /\ (<<r, "renew">> \in current => <<r, "renew">> \in current')
<1>1. Copy(q) /\ r # Nobody
  BY NobodyAssumption DEF Copies
<1>2. ~kubernetesUpgradeLeaseAcquirable(q)
  BY <1>1, UpgradeAssumption DEF kubernetesUpgradeLeaseAcquirable, TypeOK
<1>3. <<q, "work">> \notin current /\ <<q, "renew">> \notin current
  BY <1>1, <1>2 DEF Copy
<1>4. QED
  BY <1>3
     DEF Replica, Failure, reconcileKubernetesUpgrade, acquireKubernetesUpgradeLease,
         claimLease, UpgradeComponent, runKubernetesUpgrade, upgradeRefused, EndUpgrade,
         releaseKubernetesUpgradeLease, clearLease, reportStatus, GetLease, WriteLease,
         renewKubernetesUpgradeLease, updateRenewTime, acquireFails, upgradeFails,
         releaseFails, reportFails, renewFails, Crash

\* Faults are only ever added.
LEMMA FaultsGrow ==
  ASSUME TypeOK, TypeOK', [Next]_vars
  PROVE  FaultsSoFar \in 0..MaxFaults /\ FaultsSoFar <= FaultsSoFar'
<1>0. \/ UNCHANGED budget \/ Fault
      \/ budget' = [budget EXCEPT !.changes = @ - 1]
  BY DEF Next, Environment, Replica, Failure, reconcileKubernetesUpgrade, vars,
         acquireKubernetesUpgradeLease,
         ChangeVersion, OldNodeJoins, TroubleStarts, TroubleEnds, Tick,
         claimLease, UpgradeComponent, runKubernetesUpgrade, upgradeRefused,
         releaseKubernetesUpgradeLease, clearLease, reportStatus,
         renewKubernetesUpgradeLease, updateRenewTime, acquireFails, upgradeFails,
         releaseFails, reportFails, renewFails, Crash
<1>1. budget'.faults <= budget.faults
  BY <1>0 DEF Fault, TypeOK
<1>2. budget.faults \in 0..MaxFaults /\ budget'.faults \in 0..MaxFaults
  BY DEF TypeOK
<1>3. QED
  BY <1>1, <1>2, UpgradeAssumption DEF FaultsSoFar

\* Time ages the Lease by one, and makes its renewal due.
LEMMA EnvironmentHeld ==
  ASSUME TypeOK, TypeOK', Held, Environment, FaultsSoFar \in Int, FaultsSoFar' \in Int,
         FaultsSoFar <= FaultsSoFar', NEW r \in Replicas
  PROVE  Holds(r)'
<1>0. Holds(r)
  BY DEF Held
<1>1. CASE Tick
  <2>1. /\ work'[r].pc = work[r].pc
        /\ renew[r] = "wait" => renew'[r] = "due"
        /\ renew[r] \notin {"due", "read"}
        /\ lease'.holder = lease.holder /\ lease'.age <= lease.age + 1
    BY <1>1, UpgradeAssumption DEF Tick, TypeOK
  <2>2. lease.age \in Int /\ lease'.age \in Int
    BY DEF TypeOK
  <2>3. QED
    BY <1>0, <2>1, <2>2 DEF Holds
<1>2. CASE UNCHANGED <<lease, current, work, renew>>
  <2>1. lease.age \in Int
    BY DEF TypeOK
  <2>2. QED
    BY <1>0, <1>2, <2>1 DEF Holds
<1>3. QED
  BY <1>1, <1>2 DEF Environment, ChangeVersion, OldNodeJoins, TroubleStarts, TroubleEnds

\* The holder's own steps: the claim starts from a fresh Lease, a renewal that
\* fails is a fault, one that succeeds sets the clock back.
LEMMA HolderHeld ==
  ASSUME TypeOK, TypeOK', Held, FaultsSoFar \in Nat, FaultsSoFar' \in Nat,
         FaultsSoFar <= FaultsSoFar',
         NEW r \in Replicas, Replica(r) \/ Failure(r)
  PROVE  Holds(r)'
<1>0. Holds(r) /\ lease.age \in Int
  BY DEF Held, TypeOK
<1> SUFFICES ASSUME work'[r].pc = "upgrade" PROVE Holds(r)'
  BY DEF Holds
<1>1. CASE claimLease(r)
  BY <1>1, Moves DEF claimLease, WriteLease, Holds, TypeOK
<1>2. CASE \E c \in Components : UpgradeComponent(r, c)
  BY <1>0, <1>2 DEF UpgradeComponent, Holds
<1>3. CASE renewKubernetesUpgradeLease(r)
  BY <1>0, <1>3 DEF renewKubernetesUpgradeLease, GetLease, Holds, TypeOK
<1>4. CASE updateRenewTime(r)
  <2>1. work[r].pc = "upgrade" /\ <<r, "renew">> \in current
    BY <1>0, <1>4 DEF updateRenewTime, Holds
  <2>2. renew'[r] = "wait" /\ lease'.holder = lease.holder /\ lease'.age = 0
    BY <1>4, <2>1 DEF updateRenewTime, AfterRenewal, WriteLease, TypeOK
  <2>3. QED
    BY <1>0, <2>1, <2>2 DEF Holds
<1>5. CASE renewFails(r)
  <2>1. /\ work[r].pc = "upgrade" /\ renew'[r] = "wait" /\ lease' = lease
        /\ lease.holder = r /\ lease.age <= FaultsSoFar + 1
    BY <1>0, <1>5 DEF renewFails, AfterRenewal, Holds, TypeOK
  <2>2. FaultsSoFar' = FaultsSoFar + 1
    <3>1. budget'.faults = budget.faults - 1
      BY <1>5, FaultType DEF renewFails
    <3>2. budget.faults \in Int /\ MaxFaults \in Int
      BY UpgradeAssumption DEF TypeOK
    <3>3. QED
      BY <3>1, <3>2 DEF FaultsSoFar
  <2>3. QED
    BY <2>1, <2>2 DEF Holds
<1>6. QED
  BY <1>1, <1>2, <1>3, <1>4, <1>5, Moves
     DEF Replica, Failure, acquireKubernetesUpgradeLease, runKubernetesUpgrade,
         upgradeRefused, upgradeFails, releaseKubernetesUpgradeLease, clearLease,
         reportStatus, acquireFails, releaseFails, reportFails, Crash

\* With a Lease that outlasts every fault, a holder never loses it.
LEMMA HeldStep ==
  ASSUME MaxFaults + 2 <= LeaseDuration, TypeOK, TypeOK', Copies, Held, [Next]_vars
  PROVE  Held'
<1> SUFFICES ASSUME NEW r \in Replicas PROVE Holds(r)'
  BY DEF Held
<1>0. /\ Holds(r)
      /\ FaultsSoFar \in 0..MaxFaults /\ FaultsSoFar' \in 0..MaxFaults
      /\ FaultsSoFar <= FaultsSoFar' /\ lease.age \in Int
  <2>1. FaultsSoFar \in 0..MaxFaults /\ FaultsSoFar <= FaultsSoFar'
    BY FaultsGrow
  <2>2. budget'.faults \in 0..MaxFaults /\ MaxFaults \in Nat
    BY UpgradeAssumption DEF TypeOK
  <2>3. FaultsSoFar' \in 0..MaxFaults
    BY <2>2 DEF FaultsSoFar
  <2>4. QED
    BY <2>1, <2>3 DEF Held, TypeOK
<1>1. CASE UNCHANGED vars
  BY <1>0, <1>1 DEF vars, Holds
<1>2. CASE Environment
  BY <1>0, <1>2, EnvironmentHeld
<1>3. CASE Replica(r) \/ Failure(r)
  BY <1>0, <1>3, HolderHeld
<1>4. ASSUME NEW q \in Replicas, q # r, Replica(q) \/ Failure(q)
      PROVE  Holds(r)'
  <2>1. work'[r] = work[r] /\ renew'[r] = renew[r]
    BY <1>4, OthersStand
  <2> SUFFICES ASSUME work[r].pc = "upgrade" PROVE Holds(r)'
    BY <2>1 DEF Holds
  <2>2. lease.holder = r /\ lease.age < LeaseDuration
    BY <1>0, UpgradeAssumption DEF Holds
  <2>3. lease' = lease /\ (<<r, "renew">> \in current => <<r, "renew">> \in current')
    BY <1>4, <2>2, OnlyHolderWrites
  <2>4. QED
    BY <1>0, <2>1, <2>3 DEF Holds
<1>5. QED
  BY <1>1, <1>2, <1>3, <1>4 DEF Next

\* Two replicas never run the upgrade at once, whatever crashes and however
\* acquisition, renewal and release interleave, when the Lease outlasts the
\* calls that fail: it takes LeaseDuration - 1 failures to lose it.
THEOREM OneUpgradeAtATime ==
  ASSUME MaxFaults + 2 <= LeaseDuration
  PROVE  Spec => []AtMostOneUpgrade
<1>1. Init => Held
  BY DEF Init, Held, Holds, Idle
<1>2. TypeOK /\ TypeOK' /\ Copies /\ Held /\ [Next]_vars => Held'
  BY HeldStep
<1>3. Held => AtMostOneUpgrade
  BY DEF Held, Holds, AtMostOneUpgrade
<1>4. QED
  BY <1>1, <1>2, <1>3, CopiesInvariant, PTL DEF Spec
=============================================================================
