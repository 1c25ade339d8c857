----------------------------- MODULE CARotation -----------------------------
(***************************************************************************)
(* The CAs of a cluster and their rotation.  TartCluster owns a Secret per *)
(* generation of CAs (Pending, Active or Retired) and the active           *)
(* generation in its status.  The TartControlPlane controller takes every  *)
(* node from the active generation to the next: accept the new CA, issue   *)
(* with it, drop the old one; the stage is computed at every reconcile     *)
(* from what the nodes run.  When all have arrived the status, the new     *)
(* Secret's label and the old Secret's label are written, one after the    *)
(* other.  TartBootstrapConfig gives a node that joins the active CAs.     *)
(***************************************************************************)
EXTENDS Naturals, FiniteSets

CONSTANTS
  Founders,        \* nodes whose Machines exist before any rotation
  Joiners,         \* nodes whose Machines may be created at any time
  Workers,         \* the nodes among them that are no control planes
  MaxGeneration,   \* bound: generations of secrets
  Requests,        \* what the user may ask for; 0: no rotation
  Restores,        \* whether the management cluster may be restored from a backup
  MaxFaults        \* bound: failing calls, crashes, unasked reboots and restores

ASSUME RotationAssumption ==
  /\ Founders \intersect Joiners = {} /\ IsFiniteSet(Founders \union Joiners)
  /\ Workers \subseteq Founders \union Joiners
  /\ MaxGeneration \in Nat \ {0} /\ MaxFaults \in Nat
  /\ Requests \subseteq 0..MaxGeneration /\ Restores \in BOOLEAN

VARIABLES
  requested,  \* TartCluster.spec.caRotationRequestedGeneration; 0: none
  cluster,    \* the TartCluster: whether it has its ID, and the active generation
  bundles,    \* the state label of each generation's Secret
  seen,       \* what the TartControlPlane controller's cache shows of both
  node,       \* every node: its Machine, its Bootstrap Secret and what it runs
  creating,   \* the TartCluster reconcile in flight, or Idle
  work,       \* the TartControlPlane reconcile in flight, or Idle
  faults      \* how many faults have happened

vars == <<requested, cluster, bundles, seen, node, creating, work, faults>>

Nodes == Founders \union Joiners
Generations == 1..MaxGeneration
Idle == [step |-> "idle"]

-----------------------------------------------------------------------------
(* Types and initial states.                                               *)

\* The machine CAs in a configuration: the one certificates are issued with and
\* the ones accepted besides it.  Issuing CAs of the Kubernetes API and of its
\* aggregator are always the same generation's, and their accepted ones, api, are
\* the same in both.
Trust == [issuing: Generations, accepted: SUBSET Generations]
NoTrust == [issuing |-> 0, accepted |-> {}]

Stages == 0..4
Stable == 0
DualTrust == 1
Cutover == 2
Rotated == 3
Unknown == 4

TartCluster == [id: BOOLEAN, active: 0..MaxGeneration]
BundleStates == {"absent", "Pending", "Active", "Retired"}

TypeOK ==
  /\ requested \in 0..MaxGeneration /\ cluster \in TartCluster
  /\ bundles \in [Generations -> BundleStates]
  /\ seen \in [cluster: TartCluster, bundles: [Generations -> BundleStates]]
  /\ node \in [Nodes -> [machine: {"none", "exists", "deleting"},
                         data: 0..MaxGeneration, up: BOOLEAN,
                         running: Trust \union {NoTrust}, staged: Trust \union {NoTrust},
                         api: SUBSET Generations, apiStaged: SUBSET Generations]]
  /\ creating \in [step: {"bundle", "rotation", "status"}, snapshot: TartCluster,
                   request: 0..MaxGeneration, generation: Generations] \union {Idle}
  /\ work \in [step: {"observe", "advance", "reboot", "status", "label", "recover", "demote"},
               active: Generations, todo: SUBSET Nodes,
               stage: [Nodes -> Stages], target: Nodes \union {"none"}] \union {Idle}
  /\ faults \in 0..MaxFaults

\* A new TartCluster, and hosts in maintenance mode for its first Machines.
Init ==
  /\ requested = 0 /\ cluster = [id |-> FALSE, active |-> 0]
  /\ bundles = [g \in Generations |-> "absent"]
  /\ seen = [cluster |-> cluster, bundles |-> bundles]
  /\ node = [n \in Nodes |-> [machine |-> IF n \in Founders THEN "exists" ELSE "none",
                              data |-> 0, up |-> TRUE, running |-> NoTrust, staged |-> NoTrust,
                              api |-> {}, apiStaged |-> {}]]
  /\ creating = Idle /\ work = Idle
  /\ faults = 0

-----------------------------------------------------------------------------
(* The user, the caches and the nodes.                                     *)

\* A controller that has not seen a new request yet acts as if the user had made
\* it later: requests are read as they are.
RequestRotation(g) ==
  /\ g # requested /\ requested' = g
  /\ UNCHANGED <<cluster, bundles, seen, node, creating, work, faults>>

DeliverCluster ==
  /\ seen.cluster # cluster /\ seen' = [seen EXCEPT !.cluster = cluster]
  /\ UNCHANGED <<requested, cluster, bundles, node, creating, work, faults>>

DeliverBundle(g) ==
  /\ seen.bundles[g] # bundles[g] /\ seen' = [seen EXCEPT !.bundles[g] = bundles[g]]
  /\ UNCHANGED <<requested, cluster, bundles, node, creating, work, faults>>

ChangeNode(n, value) ==
  /\ node' = [node EXCEPT ![n] = value]
  /\ UNCHANGED <<requested, cluster, bundles, seen, creating, work, faults>>

CreateMachine(n) ==
  node[n].machine = "none" /\ ChangeNode(n, [node[n] EXCEPT !.machine = "exists"])

DeleteMachine(n) ==
  /\ node[n].machine = "exists" /\ n \in Joiners
  /\ ChangeNode(n, [node[n] EXCEPT !.machine = "deleting"])

\* The active bundle as TartBootstrapConfig asks for it; the Secret it renders
\* is immutable, another generation makes another Secret.
MachineConfigurationContext(c) ==
  IF c.id /\ c.active # 0 /\ bundles[c.active] = "Active" THEN {c.active} ELSE {}

Render(n) ==
  /\ node[n].machine = "exists"
  /\ \E g \in MachineConfigurationContext(cluster) :
       node[n].data # g /\ ChangeNode(n, [node[n] EXCEPT !.data = g])

\* The node is installed from its Bootstrap Secret, the latest or, when the
\* installation began earlier, one rendered before; it boots configured.  A worker
\* has no issuing CA of the Kubernetes API, only accepted ones.
Install(n) ==
  /\ node[n].machine = "exists" /\ node[n].running = NoTrust /\ node[n].data # 0
  /\ ChangeNode(n, [node[n] EXCEPT !.running = [issuing |-> node[n].data, accepted |-> {}],
                                   !.api = IF n \in Workers THEN {node[n].data} ELSE {}])

\* A boot puts a staged configuration into effect.
Booted(n) ==
  [node[n] EXCEPT !.up = TRUE, !.staged = NoTrust, !.apiStaged = {},
                  !.running = IF node[n].staged = NoTrust THEN @ ELSE node[n].staged,
                  !.api = IF node[n].staged = NoTrust THEN @ ELSE node[n].apiStaged]

Boots(n) == ~node[n].up /\ ChangeNode(n, Booted(n))

\* Power comes and goes; a node that fails to start is away for a while.
Outage(n) ==
  /\ faults < MaxFaults /\ faults' = faults + 1
  /\ node[n].up /\ node[n].running # NoTrust
  /\ node' = [node EXCEPT ![n].up = FALSE]
  /\ UNCHANGED <<requested, cluster, bundles, seen, creating, work>>

\* An operator removes by hand what is left of an old CA on a control plane.
DropAcceptedCA(n) ==
  /\ n \notin Workers /\ node[n].up /\ node[n].running # NoTrust
  /\ node[n].running.accepted = {} /\ node[n].api # {}
  /\ ChangeNode(n, [node[n] EXCEPT !.api = {}])

\* The management cluster comes back from a backup: spec and Secrets are there,
\* the status is not, and the managers start with fresh caches.
Restore ==
  /\ Restores /\ faults < MaxFaults /\ faults' = faults + 1
  /\ cluster' = [cluster EXCEPT !.active = 0]
  /\ seen' = [cluster |-> cluster', bundles |-> bundles]
  /\ creating' = Idle /\ work' = Idle
  /\ UNCHANGED <<requested, bundles, node>>

-----------------------------------------------------------------------------
(* The TartCluster controller.  Its cache may lag as well: between reading  *)
(* the object and writing to it anything may happen.                        *)

NextGeneration(g) == g + 1

EndCreating == creating' = Idle

AssignClusterID ==
  /\ creating = Idle /\ ~cluster.id
  /\ cluster' = [cluster EXCEPT !.id = TRUE]
  /\ UNCHANGED <<requested, bundles, seen, node, creating, work, faults>>

\* Mutant: without a Secret the generation stays what a lost status is.
ReconstructNothing ==
  LET actives == {g \in Generations : bundles[g] = "Active"} IN
  IF actives = {} THEN {0} ELSE IF Cardinality(actives) = 1 THEN actives ELSE {}

\* The generation a lost status stood for: the only one labelled Active, the
\* first when there is none; several are not guessed at.
reconstructActiveSecretGeneration ==
  LET actives == {g \in Generations : bundles[g] = "Active"} IN
  IF actives = {} THEN {1} ELSE IF Cardinality(actives) = 1 THEN actives ELSE {}

\* A reconcile of a cluster that has all its Secrets and its status changes nothing.
Complete ==
  /\ cluster.active # 0 /\ bundles[cluster.active] # "absent"
  /\ (requested = NextGeneration(cluster.active) /\ requested \in Generations) =>
       bundles[requested] # "absent"

ReconcileCluster ==
  /\ creating = Idle /\ cluster.id /\ ~Complete
  /\ \E g \in IF cluster.active = 0 THEN reconstructActiveSecretGeneration
                                     ELSE {cluster.active} :
       creating' = [step |-> "bundle", snapshot |-> cluster,
                     request |-> requested, generation |-> g]
  /\ UNCHANGED <<requested, cluster, bundles, seen, node, work, faults>>

\* A Secret that is missing is made; one that is there must be Active.
ensureBundle ==
  /\ creating.step = "bundle"
  /\ LET g == creating.generation IN
       CASE bundles[g] = "absent" ->
              /\ bundles' = [bundles EXCEPT ![g] = "Active"]
              /\ creating' = [creating EXCEPT !.step = "rotation"]
         [] bundles[g] = "Active" ->
              bundles' = bundles /\ creating' = [creating EXCEPT !.step = "rotation"]
         [] OTHER -> bundles' = bundles /\ EndCreating
  /\ UNCHANGED <<requested, cluster, seen, node, work, faults>>

\* The next generation's Secret, made Pending ahead of the rotation.
ensureCARotationBundle ==
  /\ creating.step = "rotation"
  /\ LET g == creating.generation
         request == creating.request
         target == NextGeneration(g)
         continue == creating' = [creating EXCEPT !.step = "status"] IN
       CASE request \in {0, g} -> bundles' = bundles /\ continue
         [] request = target /\ bundles[target] = "absent" ->
              IF bundles[g] = "Active"
                THEN bundles' = [bundles EXCEPT ![target] = "Pending"] /\ continue
                ELSE bundles' = bundles /\ EndCreating
         [] request = target /\ bundles[target] = "Pending" -> bundles' = bundles /\ continue
         [] OTHER -> bundles' = bundles /\ EndCreating
  /\ UNCHANGED <<requested, cluster, seen, node, work, faults>>

\* Mutant: an update writes the whole status as it was read.
UpdateClusterStatus ==
  /\ creating.step = "status"
  /\ cluster' = [cluster EXCEPT !.active = creating.generation]
  /\ EndCreating
  /\ UNCHANGED <<requested, bundles, seen, node, work, faults>>

\* The merge patch carries the generation only when the snapshot's differs.
PatchClusterStatus ==
  /\ creating.step = "status"
  /\ cluster' = IF creating.snapshot.active = creating.generation THEN cluster
                ELSE [cluster EXCEPT !.active = creating.generation]
  /\ EndCreating
  /\ UNCHANGED <<requested, bundles, seen, node, work, faults>>

-----------------------------------------------------------------------------
(* What a node's configuration says of the rotation.                        *)

Known(accepted, active, pending) == accepted \subseteq {active, pending}

caStage(issuing, accepted, active, pending) ==
  CASE ~Known(accepted, active, pending) -> Unknown
    [] issuing = active -> IF pending \in accepted THEN DualTrust ELSE Stable
    [] issuing = pending -> IF active \in accepted THEN Cutover ELSE Rotated
    [] OTHER -> Unknown

\* A worker's Kubernetes API CAs have no issuing key, only an accepted set.
workerCAStage(accepted, active, pending) ==
  CASE ~Known(accepted, active, pending) -> Unknown
    [] active \in accepted /\ pending \notin accepted -> Stable
    [] active \in accepted /\ pending \in accepted -> DualTrust
    [] active \notin accepted /\ pending \in accepted -> Rotated
    [] OTHER -> Unknown

\* Mutant: a worker's accepted set has to tell the stage alone.
ObserveWorkerAlike(trust, accepted, active, pending) ==
  LET machineStage == caStage(trust.issuing, trust.accepted, active, pending)
  IN IF machineStage = workerCAStage(accepted, active, pending) THEN machineStage ELSE Unknown

\* The accepted set of a worker does not tell cutover from dual trust: its machine
\* CAs do.
ObserveStageWithoutAggregator(trust, accepted, active, pending) ==
  LET machineStage == caStage(trust.issuing, trust.accepted, active, pending)
      workerStage == workerCAStage(accepted, active, pending)
      apiStage == IF machineStage = Cutover /\ workerStage = DualTrust
                  THEN Cutover ELSE workerStage
  IN IF machineStage = apiStage THEN machineStage ELSE Unknown

\* On a control plane the machine CAs, those of the Kubernetes API and those of
\* the aggregator have to be at one stage.
ObserveStage(n, active, pending) ==
  LET trust == node[n].running
      machineStage == caStage(trust.issuing, trust.accepted, active, pending)
      apiStage == caStage(trust.issuing, node[n].api, active, pending)
  IN IF n \in Workers THEN ObserveStageWithoutAggregator(trust, node[n].api, active, pending)
     ELSE IF machineStage = apiStage THEN machineStage ELSE Unknown

-----------------------------------------------------------------------------
(* The TartControlPlane controller.                                         *)

EndWork == work' = Idle
Step(step) == work' = [work EXCEPT !.step = step]

\* getTartCluster and validateActiveBundle come before everything else.
validateActiveBundle ==
  /\ seen.cluster.id /\ seen.cluster.active # 0
  /\ seen.bundles[seen.cluster.active] = "Active"

observeRotationBundle(active, target) ==
  /\ seen.bundles[active] = "Active"
  /\ target \in Generations /\ seen.bundles[target] \in {"Pending", "Active"}

\* Mutant: only the control planes, as ensureMachines returns them.
ControlPlaneMachinesOnly == {n \in Nodes \ Workers : node[n].machine # "none"}

clusterMachinesForCARotation == {n \in Nodes : node[n].machine # "none"}

reconcileCARotation ==
  LET active == seen.cluster.active
      target == NextGeneration(active) IN
  /\ work = Idle /\ validateActiveBundle
  /\ requested = target /\ observeRotationBundle(active, target)
  /\ clusterMachinesForCARotation # {}
  /\ work' = [step |-> "observe", active |-> active,
              todo |-> {n \in clusterMachinesForCARotation : node[n].machine # "deleting"},
              stage |-> [n \in Nodes |-> Unknown], target |-> "none"]
  /\ UNCHANGED <<requested, cluster, bundles, seen, node, creating, faults>>

\* The request is of the active generation: a promotion may be unfinished.
recoverCompletedCARotationRequest ==
  /\ work = Idle /\ validateActiveBundle
  /\ requested = seen.cluster.active /\ seen.cluster.active > 1
  /\ work' = [step |-> "recover", active |-> seen.cluster.active - 1, todo |-> {},
              stage |-> [n \in Nodes |-> Unknown], target |-> "none"]
  /\ UNCHANGED <<requested, cluster, bundles, seen, node, creating, faults>>

\* A client with a generation's CA reaches the node when it is up and its
\* server certificate is issued by that CA.
DialRotationBundle(n, generation) == node[n].up /\ node[n].running.issuing = generation

\* One node is dialled, with the new CA and then with the old one.
observeControlPlaneCARotation(n) ==
  /\ work.step = "observe" /\ n \in work.todo
  /\ LET pending == NextGeneration(work.active)
         stage == ObserveStage(n, work.active, pending) IN
       IF /\ \E g \in {work.active, pending} : DialRotationBundle(n, g)
          /\ stage # Unknown
         THEN work' = [work EXCEPT !.todo = @ \ {n}, !.stage[n] = stage]
         ELSE EndWork
  /\ UNCHANGED <<requested, cluster, bundles, seen, node, creating, faults>>

\* Mutant: the nodes that are ahead decide.
MaximumStage(stages) == CHOOSE s \in stages : \A t \in stages : s >= t

minimumCARotationStage(stages) == CHOOSE s \in stages : \A t \in stages : s <= t

DecideStage ==
  /\ work.step = "observe" /\ work.todo = {}
  /\ LET observed == {n \in Nodes : work.stage[n] # Unknown} IN
       IF observed = {} THEN EndWork
       ELSE LET minimum == minimumCARotationStage({work.stage[n] : n \in observed}) IN
              IF minimum = Rotated THEN Step("status")
              ELSE work' = [work EXCEPT !.step = "advance",
                                        !.todo = {n \in observed : work.stage[n] = minimum}]
  /\ UNCHANGED <<requested, cluster, bundles, seen, node, creating, faults>>

\* advanceCATrust without and with cutover, and finalizeCATrust.
NewTrust(stage, active, pending) ==
  CASE stage = Stable -> [issuing |-> active, accepted |-> {pending}]
    [] stage = DualTrust -> [issuing |-> pending, accepted |-> {active}]
    [] stage = Cutover -> [issuing |-> pending, accepted |-> {}]

\* The accepted CAs of the Kubernetes API go with it: a worker's are replaced one by
\* one, those of a control plane are merged into the ones it has, so that an empty
\* list takes none away.
NewAccepted(n, trust) ==
  trust.accepted \union (IF n \in Workers THEN {trust.issuing} ELSE node[n].api)

\* The CA the observation reached the node with.
ObservedWith(stage, active) == IF stage < Cutover THEN active ELSE NextGeneration(active)

advanceCATrust(n) ==
  /\ work.step = "advance" /\ n \in work.todo
  /\ IF DialRotationBundle(n, ObservedWith(work.stage[n], work.active))
       THEN /\ LET trust == NewTrust(work.stage[n], work.active, NextGeneration(work.active)) IN
                 node' = [node EXCEPT ![n].staged = trust, ![n].apiStaged = NewAccepted(n, trust)]
            /\ work' = [work EXCEPT !.step = "reboot", !.target = n, !.todo = @ \ {n}]
       ELSE node' = node /\ EndWork
  /\ UNCHANGED <<requested, cluster, bundles, seen, creating, faults>>

Reboot ==
  /\ work.step = "reboot"
  /\ IF node[work.target].up
       THEN /\ node' = [node EXCEPT ![work.target].up = FALSE]
            /\ work' = IF work.todo = {} THEN Idle
                       ELSE [work EXCEPT !.step = "advance", !.target = "none"]
       ELSE node' = node /\ EndWork
  /\ UNCHANGED <<requested, cluster, bundles, seen, creating, faults>>

\* promoteCARotation: the status first, then the label of the new Secret ...
PromoteStatus ==
  /\ work.step = "status"
  /\ IF seen.bundles[NextGeneration(work.active)] \in {"Pending", "Active"}
       THEN /\ cluster' = [cluster EXCEPT !.active = NextGeneration(work.active)]
            /\ Step(IF seen.bundles[NextGeneration(work.active)] = "Active"
                    THEN "demote" ELSE "label")
       ELSE cluster' = cluster /\ EndWork
  /\ UNCHANGED <<requested, bundles, seen, node, creating, faults>>

PromoteLabel ==
  /\ work.step = "label"
  /\ bundles' = [bundles EXCEPT ![NextGeneration(work.active)] = "Active"]
  /\ Step("demote")
  /\ UNCHANGED <<requested, cluster, seen, node, creating, faults>>

recoverCARotationPromotion ==
  /\ work.step = "recover"
  /\ CASE seen.bundles[NextGeneration(work.active)] = "Active" -> Step("demote")
       [] seen.bundles[NextGeneration(work.active)] = "Pending" -> Step("label")
       [] OTHER -> EndWork
  /\ UNCHANGED <<requested, cluster, bundles, seen, node, creating, faults>>

\* Mutant: the generation that was promoted is retired.
DemotePromotedSecret ==
  /\ work.step = "demote"
  /\ bundles' = [bundles EXCEPT ![NextGeneration(work.active)] = "Retired"]
  /\ EndWork
  /\ UNCHANGED <<requested, cluster, seen, node, creating, faults>>

\* ... and then the label of the old one.
demoteCARotationSecret ==
  /\ work.step = "demote"
  /\ bundles' = IF seen.bundles[work.active] = "Active"
                THEN [bundles EXCEPT ![work.active] = "Retired"] ELSE bundles
  /\ EndWork
  /\ UNCHANGED <<requested, cluster, seen, node, creating, faults>>

\* A call fails, or the process dies: the reconcile ends between two writes.
CallFails ==
  /\ faults < MaxFaults /\ faults' = faults + 1
  /\ \/ work # Idle /\ EndWork /\ creating' = creating
     \/ creating # Idle /\ EndCreating /\ work' = work
  /\ UNCHANGED <<requested, cluster, bundles, seen, node>>

-----------------------------------------------------------------------------
ClusterController ==
  \/ AssignClusterID \/ ReconcileCluster
  \/ ensureBundle \/ ensureCARotationBundle \/ PatchClusterStatus

promoteCARotation == PromoteStatus \/ PromoteLabel \/ demoteCARotationSecret

ControlPlaneController ==
  \/ reconcileCARotation \/ recoverCompletedCARotationRequest
  \/ \E n \in Nodes : observeControlPlaneCARotation(n) \/ advanceCATrust(n)
  \/ DecideStage \/ Reboot \/ promoteCARotation \/ recoverCARotationPromotion

Deliver == DeliverCluster \/ \E g \in Generations : DeliverBundle(g)

NodeProgress(n) == Render(n) \/ Install(n) \/ Boots(n)

Next ==
  \/ ClusterController \/ ControlPlaneController \/ Deliver
  \/ \E g \in Requests : RequestRotation(g)
  \/ \E n \in Nodes : CreateMachine(n) \/ DeleteMachine(n) \/ NodeProgress(n) \/ Outage(n)
                        \/ DropAcceptedCA(n)
  \/ Restore \/ CallFails

Fairness ==
  /\ WF_vars(ClusterController) /\ WF_vars(ControlPlaneController)
  /\ WF_vars(DeliverCluster) /\ \A g \in Generations : WF_vars(DeliverBundle(g))
  /\ \A n \in Nodes : WF_vars(Render(n)) /\ WF_vars(Install(n)) /\ WF_vars(Boots(n))

Spec == Init /\ [][Next]_vars /\ Fairness
-----------------------------------------------------------------------------
(* Properties.                                                             *)

Configured(n) == node[n].machine = "exists" /\ node[n].running # NoTrust
Accepts(n) == node[n].running.accepted \union {node[n].running.issuing}
AcceptsAPI(n) == node[n].api \union {node[n].running.issuing}

\* rotation.go: a CA issues certificates only when every node accepts it, and is
\* dropped only when no node issues with it.  At any moment, nodes rebooting in
\* any order and reconciles ending anywhere, the nodes of the cluster accept
\* each other's certificates, of Talos and of the Kubernetes API.
FoundersTrustEachOther ==
  \A a, b \in {n \in Founders : Configured(n)} :
    node[a].running.issuing \in Accepts(b) \intersect AcceptsAPI(b)

\* carotation.go dials nodes with the active and the next generation only, and a
\* Retired Secret is used by nobody: no order of the three writes of a
\* promotion, with a crash or a restore between them, leaves a node of the
\* cluster behind on a CA that no controller uses any more.
FoundersAreReachable ==
  \A n \in {m \in Founders : Configured(m)} :
    LET g == node[n].running.issuing IN
    /\ bundles[g] \in {"Pending", "Active"}
    /\ cluster.active # 0 => g \in {cluster.active, NextGeneration(cluster.active)}

\* tartcluster/reconciler.go: the active generation in the status never falls
\* back and never names a Secret that was retired, also when the status is
\* reconstructed from the Secrets after a restore.
ActiveGenerationIsKept ==
  [][cluster.active' # 0 =>
       cluster.active' >= cluster.active /\ bundles'[cluster.active'] # "Retired"]_vars

Done(g) ==
  /\ cluster.active = g /\ bundles[g] = "Active"
  /\ \A h \in Generations : h < g => bundles[h] # "Active"

\* The status is ahead of the label: neither controller accepts the bundle.
StatusAheadOfLabel == cluster.active # 0 /\ bundles[cluster.active] = "Pending"

\* Two Active Secrets and no status: the TartCluster controller does not guess.
TwoActive == cluster.active = 0 /\ Cardinality({g \in Generations : bundles[g] = "Active"}) > 1

\* A control plane whose old CA finalizeCATrust left among those of the API.
OldCAKept ==
  \E n \in Nodes \ Workers :
    Configured(n) /\ node[n].running.accepted = {} /\ node[n].api # {}

\* A rotation to the next generation that stays requested is completed, reboots,
\* joining and leaving nodes, failing calls and crashes notwithstanding, once an
\* operator has removed the old CA from the finished control planes; or it stops
\* in one of the two states in which no controller goes on.
RotationCompletes ==
  \A g \in Generations \ {1} :
    <>[](requested = g) =>
      <>[](Done(g) \/ OldCAKept \/ StatusAheadOfLabel \/ TwoActive
             \/ cluster.active \notin {0, g - 1, g})

\* The comments on finalizeCATrust and CATrustStageRotated: a node from which the old
\* CA was removed issues with and accepts the new one only, and is seen as Rotated.
FinalizedIsRotated ==
  \A n \in {m \in Founders : Configured(m)} :
    cluster.active # 0 /\ node[n].running = NewTrust(Cutover, cluster.active, cluster.active + 1)
      => ObserveStage(n, cluster.active, cluster.active + 1) = Rotated

\* The comment in promoteCARotation: the status goes first so that a label patch
\* that fails after it is made up for by the next reconcile.
PromotionIsRecovered ==
  \A g \in Generations :
    <>[](requested = g) => (StatusAheadOfLabel ~> ~StatusAheadOfLabel)

\* promoteCARotation: every Machine of the cluster was seen to trust only the new
\* generation; none is left with the CA that is retired.
NoMachineIsLeftBehind ==
  \A n \in {m \in Nodes : Configured(m)} : bundles[node[n].running.issuing] # "Retired"

=============================================================================
