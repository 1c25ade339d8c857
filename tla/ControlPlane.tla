----------------------------- MODULE ControlPlane -----------------------------
(***************************************************************************)
(* The TartControlPlane controller: creating the control-plane Machines,   *)
(* bootstrapping etcd on the first of them, and scaling down through the   *)
(* pre-terminate hook and the removal of the etcd member; with the CAPI    *)
(* Machine controller, the nodes and etcd around it.                       *)
(*                                                                         *)
(* One reconcile runs at a time (work); every call to the API server or to *)
(* a Talos node is a step of its own.  Machines and the TartControlPlane   *)
(* are read from caches that lag.  A Machine object is its ordinal and a   *)
(* uid that changes when it is created again; the etcd member ID of its    *)
(* node is the uid.  Provider resources, CA rotation and the run of the    *)
(* Kubernetes upgrade itself are not here: only when an upgrade starts.    *)
(***************************************************************************)
EXTENDS EtcdQuorum, FiniteSets, Sequences

CONSTANTS
  MaxReplicas,   \* bound: ordinals are 0..MaxReplicas-1
  MaxUID,        \* bound: Machine objects ever created
  MaxLag,        \* bound: Machine watch events on their way
  MaxScales,     \* bound: changes of spec.replicas
  MaxDeletes,    \* bound: Machines deleted by somebody else
  MaxFaults      \* bound: Talos calls that fail and nodes that fall sick

ASSUME ReplicasAssumption ==
  /\ MaxReplicas \in Nat \ {0} /\ MaxUID \in Nat /\ MaxReplicas <= MaxUID
  /\ {MaxLag, MaxScales, MaxDeletes, MaxFaults} \subseteq Nat

VARIABLES
  machines, machineCache, machineEvents,   \* CAPI Machines: stored, cached, on the way
  cp, cpCache,                             \* the TartControlPlane: stored, cached
  members, learners,                       \* the etcd members, by uid; learners among them
  node,                                    \* the state of the node of each uid
  split,                                   \* a second cluster was started beside a working one
  work,                                    \* the reconcile in flight, or Idle
  nextUID, scales, deletes, faults         \* counters of bounded things

machineVars == <<machines, machineCache, machineEvents>>
etcdVars == <<members, learners, split>>
counters == <<nextUID, scales, deletes, faults>>
vars == <<machineVars, cp, cpCache, etcdVars, node, work, counters>>

Ordinals == 0..(MaxReplicas - 1)
UIDs == 1..MaxUID

MachineInformer == INSTANCE Informer WITH
  stored <- machines, cache <- machineCache, events <- machineEvents

-----------------------------------------------------------------------------
(* Types and initial states.                                               *)

\* by tells who asked for the deletion; it is history, the code has no such
\* field.  waiting is the Deleting condition with the reason that the CAPI
\* controller waits for the pre-terminate hook; memberID the annotation.
Machine ==
  [present: BOOLEAN, uid: UIDs \union {0}, deleting: BOOLEAN,
   by: {"nobody", "scaleDown", "user"}, hook: BOOLEAN, waiting: BOOLEAN,
   memberID: UIDs \union {0}]

NoMachine ==
  [present |-> FALSE, uid |-> 0, deleting |-> FALSE, by |-> "nobody",
   hook |-> FALSE, waiting |-> FALSE, memberID |-> 0]

NewMachine(uid) == [NoMachine EXCEPT !.present = TRUE, !.uid = uid]

Steps == {"ensure", "created", "hook", "delete", "annotated", "unhook", "observe",
          "annotate", "members", "remove", "bootstrap", "upgrade", "upgrading",
          "status"}

\* status.initialization.controlPlaneInitialized.
Initialization == {"unset", "false", "true"}

Work ==
  [step: Steps, desired: 1..MaxReplicas,
   base: Initialization,              \* the status as the reconcile read it
   initialized: BOOLEAN,              \* what the bootstrap step observed
   list: [Ordinals -> Machine],       \* the Machines as listed
   target: Ordinals,                  \* the Machine created or scaled down
   fresh: BOOLEAN,                    \* the target's version is still stored
   todo: SUBSET Ordinals,             \* not observed yet
   healthy: SUBSET UIDs,              \* observed healthy
   pending: BOOLEAN]                  \* scale-down is pending

Idle == [step |-> "idle"]

Busy(step) == work.step = step

TypeOK ==
  /\ machines \in [Ordinals -> Machine] /\ machineCache \in [Ordinals -> Machine]
  /\ machineEvents \in Seq([key: Ordinals, object: Machine])
  /\ cp \in [replicas: 0..MaxReplicas, initialized: Initialization]
  /\ cpCache \in [replicas: 0..MaxReplicas, initialized: Initialization]
  /\ members \subseteq UIDs /\ learners \subseteq members
  /\ node \in [UIDs -> {"off", "ok", "sick"}]
  /\ split \in BOOLEAN
  /\ work \in Work \union {Idle}
  /\ nextUID \in 1..(MaxUID + 1)
  /\ scales \in 0..MaxScales /\ deletes \in 0..MaxDeletes /\ faults \in 0..MaxFaults

CountersZero == scales = 0 /\ deletes = 0 /\ faults = 0

\* A new TartControlPlane.
Init ==
  /\ machines = [o \in Ordinals |-> NoMachine]
  /\ machineCache = machines /\ machineEvents = <<>>
  /\ cp \in [replicas: 1..MaxReplicas, initialized: {"unset"}] /\ cpCache = cp
  /\ members = {} /\ learners = {} /\ split = FALSE
  /\ node = [u \in UIDs |-> "off"]
  /\ work = Idle /\ nextUID = 1 /\ CountersZero

\* A control plane that has reached its MaxReplicas members and rests.
InitFormed ==
  /\ machines = [o \in Ordinals |-> NewMachine(o + 1)]
  /\ machineCache = machines /\ machineEvents = <<>>
  /\ cp = [replicas |-> MaxReplicas, initialized |-> "true"] /\ cpCache = cp
  /\ members = 1..MaxReplicas /\ learners = {} /\ split = FALSE
  /\ node = [u \in UIDs |-> IF u <= MaxReplicas THEN "ok" ELSE "off"]
  /\ work = Idle /\ nextUID = MaxReplicas + 1 /\ CountersZero

-----------------------------------------------------------------------------
(* Users, the CAPI Machine controller, nodes and etcd (external).          *)

OthersWriteMachine(o, machine) ==
  /\ MachineInformer!Write(o, machine)
  /\ work' = IF work # Idle /\ work.target = o
             THEN [work EXCEPT !.fresh = FALSE] ELSE work

DeliverMachine ==
  MachineInformer!Deliver /\ UNCHANGED <<cp, cpCache, etcdVars, node, work, counters>>

DeliverControlPlane ==
  /\ cpCache # cp /\ cpCache' = cp
  /\ UNCHANGED <<machineVars, cp, etcdVars, node, work, counters>>

ScaleControlPlane(n) ==
  /\ scales < MaxScales /\ n # cp.replicas
  /\ cp' = [cp EXCEPT !.replicas = n] /\ scales' = scales + 1
  /\ UNCHANGED <<machineVars, cpCache, etcdVars, node, work, nextUID, deletes, faults>>

UserDeletesMachine(o) ==
  /\ deletes < MaxDeletes /\ machines[o].present /\ ~machines[o].deleting
  /\ OthersWriteMachine(o, [machines[o] EXCEPT !.deleting = TRUE, !.by = "user"])
  /\ deletes' = deletes + 1
  /\ UNCHANGED <<cp, cpCache, etcdVars, node, nextUID, scales, faults>>

\* Drain and volume detach are done and the hook is there: CAPI waits for it.
CAPIWaitsForHook(o) ==
  /\ machines[o].deleting /\ machines[o].hook /\ ~machines[o].waiting
  /\ OthersWriteMachine(o, [machines[o] EXCEPT !.waiting = TRUE])
  /\ UNCHANGED <<cp, cpCache, etcdVars, node, counters>>

\* Without a hook CAPI deletes the infrastructure, and the host shuts down...
CAPIDeletesInfrastructure(o) ==
  /\ machines[o].deleting /\ ~machines[o].hook
  /\ node[machines[o].uid] # "off" \/ machines[o].waiting
  /\ node' = [node EXCEPT ![machines[o].uid] = "off"]
  /\ IF machines[o].waiting
     THEN OthersWriteMachine(o, [machines[o] EXCEPT !.waiting = FALSE])
     ELSE UNCHANGED <<machineVars, work>>
  /\ UNCHANGED <<cp, cpCache, etcdVars, counters>>

\* ...and, still without a hook, removes the Machine.
CAPIRemovesMachine(o) ==
  /\ machines[o].deleting /\ ~machines[o].hook /\ ~machines[o].waiting
  /\ node[machines[o].uid] = "off"
  /\ OthersWriteMachine(o, NoMachine)
  /\ UNCHANGED <<cp, cpCache, etcdVars, node, counters>>

\* The node is provisioned, configured and answers.
NodeBoots(o) ==
  /\ machines[o].present /\ ~machines[o].deleting /\ node[machines[o].uid] = "off"
  /\ node' = [node EXCEPT ![machines[o].uid] = "ok"]
  /\ UNCHANGED <<machineVars, cp, cpCache, etcdVars, work, counters>>

Healthy == {u \in members : node[u] = "ok"}

\* etcd has a leader and can commit.
HasQuorum == Cardinality(Healthy \ learners) >= QuorumSize(Cardinality(members \ learners))

Working == members # {} /\ HasQuorum

JoinEtcd(u) ==
  /\ node[u] = "ok" /\ u \notin members /\ learners = {} /\ Working
  /\ \E o \in Ordinals : machines[o].uid = u /\ ~machines[o].deleting
  /\ members' = members \union {u} /\ learners' = {u}
  /\ UNCHANGED <<machineVars, cp, cpCache, split, node, work, counters>>

PromoteLearner(u) ==
  /\ u \in learners /\ node[u] = "ok" /\ Working
  /\ learners' = learners \ {u}
  /\ UNCHANGED <<machineVars, cp, cpCache, members, split, node, work, counters>>

NodeSickens(u) ==
  /\ faults < MaxFaults /\ node[u] = "ok"
  /\ node' = [node EXCEPT ![u] = "sick"] /\ faults' = faults + 1
  /\ UNCHANGED <<machineVars, cp, cpCache, etcdVars, work, nextUID, scales, deletes>>

NodeRecovers(u) ==
  /\ node[u] = "sick" /\ node' = [node EXCEPT ![u] = "ok"]
  /\ UNCHANGED <<machineVars, cp, cpCache, etcdVars, work, counters>>

-----------------------------------------------------------------------------
(* ensureMachines.                                                         *)

Listed(list) == {o \in Ordinals : list[o].present}
Deleting(list) == {o \in Listed(list) : list[o].deleting}

\* Mutant: zero replicas are accepted.
AnyReplicas == TRUE

\* desiredControlPlaneReplicas: zero is reported and nothing else is done.
DesiredReplicasValid == cpCache.replicas >= 1

ReportInvalidReplicas == work = Idle /\ ~DesiredReplicasValid /\ UNCHANGED vars

BeginReconcile ==
  /\ work = Idle /\ DesiredReplicasValid
  /\ work' = [step |-> "ensure", desired |-> cpCache.replicas,
              base |-> cpCache.initialized, initialized |-> FALSE,
              list |-> machineCache,
              target |-> 0, fresh |-> FALSE, todo |-> {}, healthy |-> {},
              pending |-> FALSE]
  /\ UNCHANGED <<machineVars, cp, cpCache, etcdVars, node, counters>>

Missing == {o \in 0..(work.desired - 1) : ~work.list[o].present}

First(S) == CHOOSE o \in S : \A p \in S : o <= p
Last(S) == CHOOSE o \in S : \A p \in S : o >= p

\* The loop creates the first Machine missing from the list; AlreadyExists
\* counts as created.
CreateMachine ==
  /\ Busy("ensure") /\ Missing # {}
  /\ LET o == First(Missing)
     IN /\ work' = [work EXCEPT !.step = "created", !.target = o]
        /\ \/ /\ ~machines[o].present /\ nextUID <= MaxUID
              /\ MachineInformer!Write(o, NewMachine(nextUID))
              /\ nextUID' = nextUID + 1
           \/ machines[o].present /\ UNCHANGED <<machineVars, nextUID>>
  /\ UNCHANGED <<cp, cpCache, etcdVars, node, scales, deletes, faults>>

\* The Get that follows is served by the cache: NotFound ends the reconcile.
GetCreatedMachine ==
  /\ Busy("created")
  /\ work' = IF machineCache[work.target].present
             THEN [work EXCEPT !.step = "ensure",
                               !.list[work.target] = machineCache[work.target]]
             ELSE Idle
  /\ UNCHANGED <<machineVars, cp, cpCache, etcdVars, node, counters>>

-----------------------------------------------------------------------------
(* reconcileScaleDown.                                                     *)

\* The Machine with the highest ordinal among the ones being deleted, or,
\* when there is none, among all.
ScaleDownTarget(list) ==
  Last(IF Deleting(list) # {} THEN Deleting(list) ELSE Listed(list))

\* Mutant: the Delete comes before the hook.
ScaleDownStepDeleteFirst(machine) ==
  IF ~machine.deleting THEN "delete"
  ELSE IF ~machine.hook THEN "hook"
  ELSE IF ~machine.waiting THEN "bootstrap"
  ELSE IF machine.memberID # 0 THEN "annotated"
  ELSE "observe"

\* What reconcileScaleDown does first with the target.
ScaleDownStep(machine) ==
  IF ~machine.hook THEN "hook"
  ELSE IF ~machine.deleting THEN "delete"
  ELSE IF ~machine.waiting THEN "bootstrap"
  ELSE IF machine.memberID # 0 THEN "annotated"
  ELSE "observe"

\* All Machines wanted are there: list again, and scale down what is more.
RefreshList ==
  /\ Busy("ensure") /\ Missing = {}
  /\ LET list == machineCache
         t == ScaleDownTarget(list)
     IN work' =
          IF Cardinality(Listed(list)) <= work.desired
          THEN [work EXCEPT !.step = "bootstrap", !.list = list]
          ELSE [work EXCEPT !.step = ScaleDownStep(list[t]), !.list = list,
                            !.target = t, !.fresh = MachineInformer!Fresh(t),
                            !.todo = Listed(list),
                            !.pending = ScaleDownStep(list[t]) = "bootstrap"]
  /\ UNCHANGED <<machineVars, cp, cpCache, etcdVars, node, counters>>

Pending == work' = [work EXCEPT !.step = "bootstrap", !.pending = TRUE]

\* A Patch with an optimistic lock of the target as it was listed; a
\* conflict ends the reconcile.
LockedPatch(machine, next) ==
  \/ /\ work.fresh
     /\ MachineInformer!Write(work.target, machine)
     /\ work' = [next EXCEPT !.list[work.target] = machine]
  \/ /\ ~work.fresh
     /\ work' = Idle
     /\ UNCHANGED machineVars

Target == work.list[work.target]

EnsureEtcdDeleteHook ==
  /\ Busy("hook")
  /\ LockedPatch([Target EXCEPT !.hook = TRUE],
       IF Target.deleting
       THEN [work EXCEPT !.step = "bootstrap", !.pending = TRUE]
       ELSE [work EXCEPT !.step = "delete"])
  /\ UNCHANGED <<cp, cpCache, etcdVars, node, counters>>

\* Delete by name, whatever version is stored; NotFound is success.
DeleteMachine ==
  /\ Busy("delete")
  /\ LET o == work.target
     IN IF machines[o].present /\ ~machines[o].deleting
        THEN MachineInformer!Write(o, [machines[o] EXCEPT !.deleting = TRUE, !.by = "scaleDown"])
        ELSE UNCHANGED machineVars
  /\ Pending
  /\ UNCHANGED <<cp, cpCache, etcdVars, node, counters>>

\* A Talos call to the node of a listed Machine is answered.
Answers(o) == work.list[o].uid # 0 /\ node[work.list[o].uid] # "off"

Survivors == {o \in Listed(work.list) \ {work.target} : ~work.list[o].deleting}

\* reconcileAnnotatedEtcdMember: a member ID was recorded earlier.  Nothing
\* but its absence from the member list moves things on.
ReconcileAnnotatedEtcdMember ==
  /\ Busy("annotated")
  /\ \/ Survivors = {} /\ Pending
     \/ \E o \in Survivors :
          /\ Answers(o) /\ Working
          /\ work' = IF Target.memberID \in members
                     THEN [work EXCEPT !.step = "bootstrap"]
                     ELSE [work EXCEPT !.step = "unhook"]
  /\ UNCHANGED <<machineVars, cp, cpCache, etcdVars, node, counters>>

RemoveEtcdDeleteHook ==
  /\ Busy("unhook")
  /\ LockedPatch([Target EXCEPT !.hook = FALSE, !.memberID = 0],
                 [work EXCEPT !.step = "bootstrap"])
  /\ UNCHANGED <<cp, cpCache, etcdVars, node, counters>>

\* observeEtcdMachineObservations, one Machine after the other: all of them
\* must report a member.
ObserveEtcdMachine ==
  /\ Busy("observe")
  /\ LET o == First(work.todo)
         u == work.list[o].uid
     IN IF Answers(o) /\ u \in members
        THEN work' = [work EXCEPT
               !.todo = @ \ {o},
               !.healthy = IF node[u] = "ok" /\ Working THEN @ \union {u} ELSE @,
               !.step = IF work.todo = {o} THEN "annotate" ELSE "observe"]
        ELSE Pending
  /\ UNCHANGED <<machineVars, cp, cpCache, etcdVars, node, counters>>

AnnotateEtcdMemberID ==
  /\ Busy("annotate")
  /\ LockedPatch([Target EXCEPT !.memberID = Target.uid],
                 [work EXCEPT !.step = "members"])
  /\ UNCHANGED <<cp, cpCache, etcdVars, node, counters>>

ObservedUIDs == {work.list[o].uid : o \in Listed(work.list)}

CanRemoveObservedEtcdMember ==
  /\ members = ObservedUIDs /\ learners = {}
  /\ CanRemoveMember([members |-> Cardinality(members),
                      healthy |-> Cardinality(work.healthy),
                      targetHealthy |-> Target.uid \in work.healthy,
                      targetObserved |-> TRUE])

\* A survivor lists the members; the removal is allowed or waits.
ObserveEtcdMembers ==
  /\ Busy("members")
  /\ \E o \in Listed(work.list) \ {work.target} : Answers(o) /\ Working
  /\ IF CanRemoveObservedEtcdMember
     THEN work' = [work EXCEPT !.step = "remove"] ELSE Pending
  /\ UNCHANGED <<machineVars, cp, cpCache, etcdVars, node, counters>>

RemoveObservedEtcdMember ==
  /\ Busy("remove")
  /\ \E o \in Listed(work.list) \ {work.target} : Answers(o) /\ Working
  /\ members' = members \ {Target.uid} /\ learners' = learners \ {Target.uid}
  /\ Pending
  /\ UNCHANGED <<machineVars, cp, cpCache, split, node, counters>>

\* A Talos call of the scale-down fails, or only its answer is lost: the
\* reconcile goes on with scale-down pending.
ScaleDownCallFails ==
  /\ work.step \in {"annotated", "observe", "members", "remove"}
  /\ faults < MaxFaults /\ faults' = faults + 1
  /\ \/ UNCHANGED <<members, learners>>
     \/ /\ Busy("remove")
        /\ members' = members \ {Target.uid} /\ learners' = learners \ {Target.uid}
  /\ Pending
  /\ UNCHANGED <<machineVars, cp, cpCache, split, node, nextUID, scales, deletes>>

\* No survivor is able to answer.
ScaleDownCallUnanswered ==
  /\ work.step \in {"annotated", "members", "remove"}
  /\ ~Working \/ \A o \in Listed(work.list) \ {work.target} : ~Answers(o)
  /\ Pending
  /\ UNCHANGED <<machineVars, cp, cpCache, etcdVars, node, counters>>

-----------------------------------------------------------------------------
(* reconcileControlPlaneBootstrap, the start of a Kubernetes upgrade, and  *)
(* the status patch.                                                       *)

\* The outcome of the bootstrap step.
Bootstrapped(initialized) ==
  work' = [work EXCEPT !.step = IF initialized THEN "upgrade" ELSE "status",
                       !.initialized = initialized]

\* The first Machine's etcd is healthy: the control plane is initialized once
\* the workload API is ready as well.  Otherwise Bootstrap is requested,
\* unless the status read says that it was initialized before; Talos starts
\* a new cluster on a node without etcd data, and refuses on any other.
ReconcileFirstControlPlane ==
  LET u == work.list[0].uid
      healthy == u \in members /\ node[u] = "ok" /\ Working
      bootstraps == work.base # "true" /\ u \notin members
  IN /\ Busy("bootstrap")
     /\ \/ /\ ~Answers(0)
           /\ Bootstrapped(FALSE) /\ UNCHANGED <<etcdVars, faults>>
        \/ /\ Answers(0) /\ healthy
           /\ Bootstrapped(TRUE) /\ UNCHANGED <<etcdVars, faults>>
        \/ /\ Answers(0) /\ healthy    \* the workload API is not ready
           /\ faults < MaxFaults /\ faults' = faults + 1
           /\ Bootstrapped(FALSE) /\ UNCHANGED etcdVars
        \/ /\ Answers(0) /\ ~healthy
           /\ Bootstrapped(FALSE)
           /\ members' = IF bootstraps /\ ~Working THEN {u} ELSE members
           /\ split' = (split \/ (bootstraps /\ Working))
           /\ learners' = learners \intersect members'
           /\ UNCHANGED faults
     /\ UNCHANGED <<machineVars, cp, cpCache, node, nextUID, scales, deletes>>

\* evaluateKubernetesUpgrade, for a desired version that is not the observed
\* one: every listed Machine's etcd is healthy, as many Machines as desired
\* are ready (one that is being deleted never is), and scale-down is not
\* pending.  The run of the upgrade holds the reconcile.
StartKubernetesUpgrade ==
  /\ Busy("upgrade")
  /\ \A o \in Listed(work.list) :
       Answers(o) /\ work.list[o].uid \in Healthy /\ Working
  /\ Cardinality(Listed(work.list) \ Deleting(work.list)) = work.desired
  /\ ~work.pending
  /\ work' = [work EXCEPT !.step = "upgrading"]
  /\ UNCHANGED <<machineVars, cp, cpCache, etcdVars, node, counters>>

\* No upgrade is needed or may start, or the one that ran is over.
EndKubernetesUpgrade ==
  /\ work.step \in {"upgrade", "upgrading"}
  /\ work' = [work EXCEPT !.step = "status"]
  /\ UNCHANGED <<machineVars, cp, cpCache, etcdVars, node, counters>>

\* Mutant: the patch leaves the initialization out.
PatchStatusOnly ==
  /\ Busy("status")
  /\ work' = Idle
  /\ UNCHANGED <<machineVars, cp, cpCache, etcdVars, node, counters>>

\* Mutant: the patch stores what this reconcile observed.
PatchStatusObserved ==
  /\ Busy("status")
  /\ cp' = [cp EXCEPT !.initialized = IF work.initialized THEN "true" ELSE "false"]
  /\ work' = Idle
  /\ UNCHANGED <<machineVars, cpCache, etcdVars, node, counters>>

\* setControlPlaneStatus: what was observed, and false where nothing is set.
ReportedInitialization ==
  IF work.initialized THEN "true"
  ELSE IF work.base = "unset" THEN "false" ELSE work.base

\* The merge patch sends what differs from the copy the reconcile read.
PatchStatus ==
  /\ Busy("status")
  /\ cp' = IF ReportedInitialization = work.base THEN cp
           ELSE [cp EXCEPT !.initialized = ReportedInitialization]
  /\ work' = Idle
  /\ UNCHANGED <<machineVars, cpCache, etcdVars, node, counters>>

\* The process dies and everything read is forgotten.
Crash ==
  /\ faults < MaxFaults /\ faults' = faults + 1
  /\ work # Idle /\ work' = Idle
  /\ UNCHANGED <<machineVars, cp, cpCache, etcdVars, node, nextUID, scales, deletes>>

-----------------------------------------------------------------------------
ControllerStep ==
  \/ ReportInvalidReplicas
  \/ BeginReconcile \/ CreateMachine \/ GetCreatedMachine \/ RefreshList
  \/ EnsureEtcdDeleteHook \/ DeleteMachine
  \/ ReconcileAnnotatedEtcdMember \/ RemoveEtcdDeleteHook
  \/ ObserveEtcdMachine \/ AnnotateEtcdMemberID
  \/ ObserveEtcdMembers \/ RemoveObservedEtcdMember \/ ScaleDownCallUnanswered
  \/ ReconcileFirstControlPlane \/ EndKubernetesUpgrade \/ PatchStatus

CAPIStep(o) ==
  CAPIWaitsForHook(o) \/ CAPIDeletesInfrastructure(o) \/ CAPIRemovesMachine(o)

NodeStep ==
  \/ \E o \in Ordinals : NodeBoots(o)
  \/ \E u \in UIDs : JoinEtcd(u) \/ PromoteLearner(u) \/ NodeRecovers(u)

Next ==
  \/ ControllerStep \/ StartKubernetesUpgrade \/ ScaleDownCallFails \/ Crash
  \/ DeliverMachine \/ DeliverControlPlane \/ NodeStep
  \/ \E o \in Ordinals : CAPIStep(o) \/ UserDeletesMachine(o)
  \/ \E n \in 0..MaxReplicas : ScaleControlPlane(n)
  \/ \E u \in UIDs : NodeSickens(u)

\* The work queue, the watches, CAPI and the nodes all go on working.
Fairness ==
  /\ WF_vars(ControllerStep) /\ WF_vars(DeliverMachine) /\ WF_vars(DeliverControlPlane)
  /\ WF_vars(NodeStep) /\ \A o \in Ordinals : WF_vars(CAPIStep(o))

Spec == Init /\ [][Next]_vars

FormedSpec == InitFormed /\ [][Next]_vars

FairSpec == Spec /\ Fairness

FairFormedSpec == FormedSpec /\ Fairness

-----------------------------------------------------------------------------
(* Properties.                                                             *)

\* canRemoveObservedEtcdMember: a removal never costs etcd its quorum, unless
\* a node that was observed healthy fell sick, or the members changed, before
\* the removal arrived.
RemovalKeepsQuorum ==
  [][members' # members /\ Busy("remove")
       => (work.healthy \subseteq Healthy /\ members = ObservedUIDs => Working')]_vars

\* A Machine that scale-down deletes keeps its infrastructure as long as its
\* node is an etcd member: the hook set before the Delete holds CAPI back
\* (machines.go and etcd.go), across crashes and stale lists.
HookHoldsUntilRemoved ==
  [][\A o \in Ordinals :
       LET m == machines[o]
       IN m.by = "scaleDown" /\ node[m.uid] # "off" /\ node'[m.uid] = "off"
            => m.uid \notin members]_vars

\* reconcileScaleDown picks one Machine at a time, even when its list still
\* shows the last one as running.
OneScaleDownAtATime ==
  \A o, p \in Ordinals :
    machines[o].by = "scaleDown" /\ machines[p].by = "scaleDown" => o = p

\* A new control plane that nobody disturbs ends with every Machine wanted a
\* voting member and the status initialized, although every created Machine
\* first ends the reconcile that created it.
BecomesInitialized ==
  <>[](/\ cp.initialized = "true"
       /\ \A o \in 0..(cp.replicas - 1) :
            machines[o].present /\ machines[o].uid \in members \ learners)

\* bootstrap.go: after the first bootstrap it is not repeated, as it could
\* destroy the membership or the data of the existing cluster.  It holds of a
\* control plane whose status says that it is initialized, whatever becomes of
\* its first Machine and its node.
NoSecondCluster == ~split

\* The control plane stays initialized once its status says so.
InitializationIsKept ==
  [][cp.initialized = "true" => cp'.initialized = "true"]_vars

\* reconciler.go: an upgrade is not started together with a scale-down but
\* waits for it to end.
UpgradeWaitsForScaleDown ==
  Busy("upgrading") =>
    \A o \in Ordinals :
      work.list[o].by = "scaleDown" => work.list[o].uid \notin members

\* machines.go: the hook is held until the removal is observed; then the
\* Machine goes and the control plane has the size wanted.
ScaleDownCompletes ==
  <>[](cp.replicas >= 1 => Cardinality(Listed(machines)) = cp.replicas)
=============================================================================
