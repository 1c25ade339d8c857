------------------------- MODULE BootstrapConfigProofs -------------------------
(***************************************************************************)
(* Proofs about BootstrapConfig, for any disks, generations of the bundle, *)
(* configuration objects, changes and faults: TypeOK, and with it that no  *)
(* two Bootstrap Secrets hold one configuration.  The fairness of Spec is  *)
(* not used.                                                               *)
(***************************************************************************)
EXTENDS BootstrapConfig, FiniteSetTheorems, TLAPS

\* What a reconcile in progress holds: the UID of an object that exists or existed,
\* and, before the Secret is created, the configuration to store in it.
JobOK ==
    /\ job.step # "idle" => job.uid \in 1..MaxUID
    /\ job.step = "create" => job.to.dataSecretName \in Content

Inv == TypeOK /\ JobOK

-----------------------------------------------------------------------------
(* What the operators return.                                               *)

\* SelectDisk selects one of the disks, or none.
LEMMA SelectDiskType ==
    ASSUME NEW S
    PROVE  SelectDisk(S) \in S \cup {None}
<1>1. Cardinality({}) = 0
  BY FS_EmptySet
<1>2. CASE Cardinality(S) = 1
  <2>1. S # {}
    BY <1>1, <1>2
  <2>2. PICK e : e \in S
    BY <2>1
  <2>3. (CHOOSE d \in S : TRUE) \in S
    BY <2>2
  <2>4. QED
    BY <1>2, <2>3 DEF SelectDisk
<1>3. CASE Cardinality(S) # 1
  BY <1>3 DEF SelectDisk
<1>4. QED
  BY <1>2, <1>3

\* What keeps the host from being told, and what else can be reported, are reasons.
LEMMA ContextType ==
    ASSUME NEW input
    PROVE  /\ machineConfigurationContext(input) \in Reasons \cup {"ok"}
           /\ machineConfigurationContext(input) = "ok" => input.generation # 0
<1>1. hostAndDisksForMachine(input) \in Reasons \cup {"ok"}
  BY DEF hostAndDisksForMachine, Reasons
<1>2. QED
  BY <1>1 DEF machineConfigurationContext, Reasons

\* A configuration is rendered only from a bundle that is there.
LEMMA GeneratedType ==
    ASSUME NEW input \in Inputs, input.generation # 0, NEW d \in Disks \cup {None}
    PROVE  LET r == GenerateMachineConfiguration(input, d)
           IN  /\ r.kind \in {"report", "content"} /\ r.reason \in Reasons
               /\ r.kind = "content" => r.content \in Content
<1>1. /\ input.generation \in 1..MaxGeneration /\ input.version \in 1..2
      /\ InstallTarget(input.patches, d) \in Disks \cup {None}
  <2>1. input.generation \in 0..MaxGeneration /\ input.version \in 1..2
    BY DEF Inputs
  <2>2. input.generation \in 1..MaxGeneration
    BY <2>1, BootstrapConfigAssumption
  <2>3. QED
    BY <2>1, <2>2 DEF InstallTarget
<1>2. CASE InstallTargetInvalid(input.patches, d)
  BY <1>2 DEF GenerateMachineConfiguration, Report, Reasons
<1>3. CASE ~InstallTargetInvalid(input.patches, d) /\ input.patches = "conflicting"
  BY <1>3 DEF GenerateMachineConfiguration, Report, Reasons
<1>4. CASE ~InstallTargetInvalid(input.patches, d) /\ input.patches # "conflicting"
  BY <1>1, <1>4 DEF GenerateMachineConfiguration, Reasons, Content
<1>5. QED
  BY <1>2, <1>3, <1>4

\* The outcome of a rendering: an error, a reason, or a configuration.
LEMMA ConfigurationType ==
    ASSUME NEW input \in Inputs
    PROVE  LET r == configuration(input)
           IN  /\ r.kind \in {"error", "report", "content"} /\ r.reason \in Reasons
               /\ r.kind = "content" => r.content \in Content
<1>1. CASE input.patches = "missing"
  BY <1>1 DEF configuration, Report, Reasons
<1>2. CASE input.patches = "mutable"
  BY <1>2 DEF configuration, Reasons
<1>3. CASE input.patches \notin {"missing", "mutable"}
  <2>1. configuration(input) = IF machineConfigurationContext(input) = "ok"
                               THEN GenerateMachineConfiguration(input, SelectDisk(input.disks))
                               ELSE Report(machineConfigurationContext(input))
    BY <1>3 DEF configuration
  <2>2. CASE machineConfigurationContext(input) = "ok"
    <3>1. SelectDisk(input.disks) \in Disks \cup {None}
      BY SelectDiskType DEF Inputs
    <3>2. input.generation # 0
      BY <2>2, ContextType
    <3>3. QED
      BY <2>1, <2>2, <3>1, <3>2, GeneratedType
  <2>3. CASE machineConfigurationContext(input) # "ok"
    BY <2>1, <2>3, ContextType DEF Report
  <2>4. QED
    BY <2>2, <2>3
<1>4. QED
  BY <1>1, <1>2, <1>3

\* A merge patch of a status leaves a status.
LEMMA MergeType ==
    ASSUME NEW s \in TartBootstrapConfigStatus, NEW to \in TartBootstrapConfigStatus,
           NEW from \in TartBootstrapConfigStatus
    PROVE  [f \in DOMAIN s |-> IF to[f] # from[f] THEN to[f] ELSE s[f]]
             \in TartBootstrapConfigStatus
<1> DEFINE m == [f \in DOMAIN s |-> IF to[f] # from[f] THEN to[f] ELSE s[f]]
<1>1. DOMAIN s = {"reason", "dataSecretName"}
  BY DEF TartBootstrapConfigStatus
<1>2. m = [reason |-> m.reason, dataSecretName |-> m.dataSecretName]
  BY <1>1
<1>3. m.reason \in Reasons /\ m.dataSecretName \in Content \cup {None}
  BY <1>1 DEF TartBootstrapConfigStatus
<1>4. QED
  BY <1>2, <1>3 DEF TartBootstrapConfigStatus

-----------------------------------------------------------------------------
(* The steps.                                                               *)

\* The initial state satisfies it.
LEMMA InitInv == Init => Inv
<1> SUFFICES ASSUME Init PROVE Inv
  OBVIOUS
<1>1. NoStatus \in TartBootstrapConfigStatus
  BY DEF NoStatus, TartBootstrapConfigStatus, Reasons
<1>2. /\ 1 \in 1..MaxUID /\ 0 \in 0..MaxUID /\ 0 \in 0..MaxChanges /\ 0 \in 0..MaxFaults
      /\ 0 \in 0..MaxGeneration
  BY BootstrapConfigAssumption
<1>3. in \in Inputs
  BY <1>2 DEF Init, Inputs, Patches
<1>4. QED
  BY <1>1, <1>2, <1>3 DEF Init, Inv, TypeOK, JobOK, Idle

\* The inputs change, with or without a watch.
LEMMA InputInv ==
    ASSUME Inv, NEW next \in Inputs, Watched(next) \/ Unwatched(next),
           UNCHANGED changes \/ Change
    PROVE  Inv'
<1>1. changes' \in 0..MaxChanges
  BY BootstrapConfigAssumption DEF Inv, TypeOK, Change
<1>2. QED
  BY <1>1 DEF Inv, TypeOK, JobOK, Watched, Unwatched, controllerVars

\* The prerequisites and the changes of the inputs keep the invariant.
LEMMA InputsInv ==
    ASSUME Inv, \/ Prerequisites \/ PromoteBundle \/ ChangePatches \/ ChangeDisks
                \/ ChangeIdentity \/ ChangeVersion
    PROVE  Inv'
<1>0. in \in Inputs
  BY DEF Inv, TypeOK
<1>1. ASSUME NEW next \in Inputs, Watched(next) \/ Unwatched(next),
             UNCHANGED changes \/ Change
      PROVE  Inv'
  BY <1>1, InputInv
<1>2. CASE CreateMachine
  <2>1. [in EXCEPT !.machine = TRUE] \in Inputs
    BY <1>0 DEF Inputs
  <2>2. QED
    BY <1>1, <1>2, <2>1 DEF CreateMachine
<1>3. CASE CreateBundle
  <2>1. 1 \in 0..MaxGeneration
    BY BootstrapConfigAssumption
  <2>2. [in EXCEPT !.generation = 1] \in Inputs
    BY <1>0, <2>1 DEF Inputs
  <2>3. QED
    BY <1>1, <1>3, <2>2 DEF CreateBundle
<1>4. CASE BindMachine
  <2>1. [in EXCEPT !.bound = TRUE] \in Inputs
    BY <1>0 DEF Inputs
  <2>2. QED
    BY <1>1, <1>4, <2>1 DEF BindMachine
<1>5. CASE ClaimHost
  <2>1. [in EXCEPT !.claimed = TRUE] \in Inputs
    BY <1>0 DEF Inputs
  <2>2. QED
    BY <1>1, <1>5, <2>1 DEF ClaimHost
<1>6. CASE ObserveInventory
  <2>1. PICK d \in SUBSET Disks : Watched([in EXCEPT !.seen = TRUE, !.disks = d])
    BY <1>6 DEF ObserveInventory
  <2>2. [in EXCEPT !.seen = TRUE, !.disks = d] \in Inputs
    BY <1>0 DEF Inputs
  <2>3. QED
    BY <1>1, <1>6, <2>1, <2>2 DEF ObserveInventory
<1>7. CASE LabelBundle
  <2>1. [in EXCEPT !.active = TRUE] \in Inputs
    BY <1>0 DEF Inputs
  <2>2. QED
    BY <1>1, <1>7, <2>1 DEF LabelBundle
<1>8. CASE PromoteBundle
  <2>1. in.generation \in 0..MaxGeneration
    BY <1>0 DEF Inputs
  <2>2. in.generation + 1 \in 0..MaxGeneration
    BY <1>8, <2>1, BootstrapConfigAssumption DEF PromoteBundle
  <2>3. [in EXCEPT !.generation = @ + 1, !.active = FALSE] \in Inputs
    BY <1>0, <2>2 DEF Inputs
  <2>4. QED
    BY <1>1, <1>8, <2>3 DEF PromoteBundle
<1>9. CASE ChangePatches
  <2>1. PICK p \in Patches : Watched([in EXCEPT !.patches = p])
    BY <1>9 DEF ChangePatches
  <2>2. [in EXCEPT !.patches = p] \in Inputs
    BY <1>0 DEF Inputs
  <2>3. QED
    BY <1>1, <1>9, <2>1, <2>2 DEF ChangePatches
<1>10. CASE ChangeDisks
  <2>1. PICK d \in SUBSET Disks, r \in BOOLEAN :
          Watched([in EXCEPT !.disks = d, !.readOnly = r])
    BY <1>10 DEF ChangeDisks
  <2>2. [in EXCEPT !.disks = d, !.readOnly = r] \in Inputs
    BY <1>0 DEF Inputs
  <2>3. QED
    BY <1>1, <1>10, <2>1, <2>2 DEF ChangeDisks
<1>11. CASE ChangeIdentity
  <2>1. [in EXCEPT !.conflicting = ~@] \in Inputs
    BY <1>0 DEF Inputs
  <2>2. QED
    BY <1>1, <1>11, <2>1 DEF ChangeIdentity
<1>12. CASE ChangeVersion
  <2>1. [in EXCEPT !.version = 2] \in Inputs
    BY <1>0 DEF Inputs
  <2>2. QED
    BY <1>1, <1>12, <2>1 DEF ChangeVersion
<1>13. QED
  BY <1>2, <1>3, <1>4, <1>5, <1>6, <1>7, <1>8, <1>9, <1>10, <1>11, <1>12 DEF Prerequisites

\* So do users, the garbage collector, the watches and the requeue timer.
LEMMA OthersInv ==
    ASSUME Inv, \/ Recreate \/ CollectGarbage \/ DeleteSecret \/ DeliverConfig
                \/ DeliverSecrets \/ Requeue
    PROVE  Inv'
<1>1. NoStatus \in TartBootstrapConfigStatus
  BY DEF NoStatus, TartBootstrapConfigStatus, Reasons
<1>2. Change => changes' \in 0..MaxChanges
  BY BootstrapConfigAssumption DEF Inv, TypeOK, Change
<1>3. uid < MaxUID => uid + 1 \in 1..MaxUID
  BY BootstrapConfigAssumption DEF Inv, TypeOK
<1>4. CASE Recreate
  BY <1>1, <1>2, <1>3, <1>4 DEF Inv, TypeOK, JobOK, Recreate
<1>5. CASE CollectGarbage
  BY <1>5 DEF Inv, TypeOK, JobOK, CollectGarbage
<1>6. CASE DeleteSecret
  BY <1>2, <1>6 DEF Inv, TypeOK, JobOK, DeleteSecret
<1>7. CASE DeliverConfig
  BY <1>7 DEF Inv, TypeOK, JobOK, DeliverConfig
<1>8. CASE DeliverSecrets
  BY <1>8 DEF Inv, TypeOK, JobOK, DeliverSecrets
<1>9. CASE Requeue
  BY <1>9 DEF Inv, TypeOK, JobOK, Requeue
<1>10. QED
  BY <1>4, <1>5, <1>6, <1>7, <1>8, <1>9

\* A reconcile decides on a write of its own object.
LEMMA ReconcileInv ==
    ASSUME Inv, Reconcile
    PROVE  Inv'
<1>0. /\ in \in Inputs /\ view.uid \in 1..MaxUID /\ view.uid \in 0..MaxUID
      /\ view.status \in TartBootstrapConfigStatus
      /\ UNCHANGED <<in, uid, status, view, secrets, secretView, events, timer, changes, faults>>
  BY BootstrapConfigAssumption DEF Inv, TypeOK, Reconcile
<1>1. ASSUME NEW to \in TartBootstrapConfigStatus
      PROVE  Patch(to) \in [step : {"idle", "create", "patch"}, uid : 0..MaxUID,
                            from : TartBootstrapConfigStatus, to : TartBootstrapConfigStatus]
  BY <1>0 DEF Patch
<1>2. ASSUME NEW to \in TartBootstrapConfigStatus, job' = Patch(to), queued' = FALSE
      PROVE  Inv'
  <2>1. job'.step = "patch" /\ job'.uid = view.uid
    BY <1>2 DEF Patch
  <2>2. QED
    BY <1>0, <1>1, <1>2, <2>1 DEF Inv, TypeOK, JobOK
<1>3. ASSUME NEW reason \in Reasons, job' = report(reason), queued' = FALSE
      PROVE  Inv'
  <2>1. [view.status EXCEPT !.reason = reason] \in TartBootstrapConfigStatus
    BY <1>0 DEF TartBootstrapConfigStatus
  <2>2. QED
    BY <1>2, <1>3, <2>1 DEF report
<1>4. ASSUME NEW content \in Content, job' = ensureBootstrapSecret(content), queued' = FALSE
      PROVE  Inv'
  <2>1. ready(content) \in TartBootstrapConfigStatus /\ ready(content).dataSecretName = content
    BY DEF ready, TartBootstrapConfigStatus, Reasons
  <2>2. CASE job' = report("BootstrapSecretInvalid")
    BY <1>3, <1>4, <2>2 DEF Reasons
  <2>3. CASE job' = Patch(ready(content))
    BY <1>2, <1>4, <2>1, <2>3
  <2>4. CASE job' = [Patch(ready(content)) EXCEPT !.step = "create"]
    <3>1. /\ job'.uid = view.uid /\ job'.to = ready(content)
          /\ job' \in [step : {"idle", "create", "patch"}, uid : 0..MaxUID,
                       from : TartBootstrapConfigStatus, to : TartBootstrapConfigStatus]
      BY <1>0, <2>1, <2>4 DEF Patch
    <3>2. QED
      BY <1>0, <1>4, <2>1, <3>1 DEF Inv, TypeOK, JobOK
  <2>5. QED
    BY <1>4, <2>2, <2>3, <2>4 DEF ensureBootstrapSecret
<1>5. PICK r : r = configuration(in)
  OBVIOUS
<1>6. /\ r.kind \in {"error", "report", "content"} /\ r.reason \in Reasons
      /\ r.kind = "content" => r.content \in Content
  BY <1>0, <1>5, ConfigurationType
<1>7. \/ UNCHANGED <<job, queued>>
      \/ job' = report(r.reason) /\ queued' = FALSE
      \/ /\ r.kind = "content" /\ queued' = FALSE
         /\ job' = ensureBootstrapSecret(r.content)
  BY <1>5, <1>6 DEF Reconcile
<1>8. CASE UNCHANGED <<job, queued>>
  BY <1>0, <1>8 DEF Inv, TypeOK, JobOK
<1>9. QED
  BY <1>3, <1>4, <1>6, <1>7, <1>8

\* A Secret is created only when none holds the configuration.
LEMMA CreateSecretInv ==
    ASSUME Inv, CreateSecret
    PROVE  Inv'
<1>1. /\ job.step = "create" /\ job.uid \in 1..MaxUID /\ job.to.dataSecretName \in Content
      /\ UNCHANGED <<in, uid, status, view, secretView, timer, changes, faults>>
  BY DEF Inv, JobOK, CreateSecret
<1>2. CASE job' = Idle /\ queued' = TRUE /\ UNCHANGED <<secrets, events>>
  <2>1. Idle \in [step : {"idle", "create", "patch"}, uid : 0..MaxUID,
                  from : TartBootstrapConfigStatus, to : TartBootstrapConfigStatus]
    BY BootstrapConfigAssumption DEF Idle, NoStatus, TartBootstrapConfigStatus, Reasons
  <2>2. Idle.step = "idle"
    BY DEF Idle
  <2>3. QED
    BY <1>1, <1>2, <2>1, <2>2 DEF Inv, TypeOK, JobOK
<1>3. CASE /\ ~\E s \in secrets : s.content = job.to.dataSecretName
           /\ secrets' = secrets \cup {[content |-> job.to.dataSecretName, owner |-> job.uid]}
           /\ events' = TRUE /\ job' = [job EXCEPT !.step = "patch"] /\ UNCHANGED queued
  <2>1. PICK x : x = [content |-> job.to.dataSecretName, owner |-> job.uid]
    OBVIOUS
  <2>2. x \in [content : Content, owner : 1..MaxUID] /\ x.content = job.to.dataSecretName
    BY <1>1, <2>1
  <2>3. secrets' = secrets \cup {x} /\ \A s \in secrets : s.content # x.content
    BY <1>3, <2>1, <2>2
  <2>4. /\ secrets' \subseteq [content : Content, owner : 1..MaxUID]
        /\ \A s, t \in secrets' : s.content = t.content => s = t
    BY <2>2, <2>3 DEF Inv, TypeOK
  <2>5. /\ job' \in [step : {"idle", "create", "patch"}, uid : 0..MaxUID,
                     from : TartBootstrapConfigStatus, to : TartBootstrapConfigStatus]
        /\ job'.step = "patch" /\ job'.uid = job.uid
    BY <1>3 DEF Inv, TypeOK
  <2>6. QED
    BY <1>1, <1>3, <2>4, <2>5 DEF Inv, TypeOK, JobOK
<1>4. QED
  BY <1>2, <1>3 DEF CreateSecret

\* A reconcile ends with the patch of the status, or fails.
LEMMA EndInv ==
    ASSUME Inv, PatchStatus \/ Fail
    PROVE  Inv'
<1>1. /\ Idle.step = "idle"
      /\ Idle \in [step : {"idle", "create", "patch"}, uid : 0..MaxUID,
                   from : TartBootstrapConfigStatus, to : TartBootstrapConfigStatus]
  BY BootstrapConfigAssumption DEF Idle, NoStatus, TartBootstrapConfigStatus, Reasons
<1>2. CASE PatchStatus
  <2>1. /\ status \in TartBootstrapConfigStatus /\ job.to \in TartBootstrapConfigStatus
        /\ job.from \in TartBootstrapConfigStatus
    BY DEF Inv, TypeOK
  <2>2. status' \in TartBootstrapConfigStatus
    BY <1>2, <2>1, MergeType DEF PatchStatus
  <2>3. QED
    BY <1>1, <1>2, <2>2 DEF PatchStatus, requeueAfter, Inv, TypeOK, JobOK
<1>3. CASE Fail
  <2>1. faults' \in 0..MaxFaults
    BY <1>3, BootstrapConfigAssumption DEF Fail, Inv, TypeOK
  <2>2. QED
    BY <1>1, <1>3, <2>1 DEF Fail, Inv, TypeOK, JobOK
<1>4. QED
  BY <1>2, <1>3

-----------------------------------------------------------------------------
(* Types, and one Secret for a configuration.                               *)

\* TypeOK, for any disks, bundles, configuration objects, changes and faults: whatever is
\* stale, deleted, collected or created again, no two Bootstrap Secrets hold one
\* configuration, as their name is its digest.
THEOREM TypeCorrect == Spec => []TypeOK
<1>1. Inv /\ [Next]_vars => Inv'
  <2> SUFFICES ASSUME Inv, [Next]_vars PROVE Inv'
    OBVIOUS
  <2>1. CASE UNCHANGED vars
    BY <2>1 DEF vars, Inv, TypeOK, JobOK
  <2>2. CASE Next
    BY <2>2, InputsInv, OthersInv, ReconcileInv, CreateSecretInv, EndInv DEF Next
  <2>3. QED
    BY <2>1, <2>2
<1>2. Inv => TypeOK
  BY DEF Inv
<1>3. QED
  BY <1>1, <1>2, InitInv, PTL DEF Spec

=============================================================================
