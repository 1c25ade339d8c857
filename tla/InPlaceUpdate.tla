---------------------------- MODULE InPlaceUpdate ----------------------------
(***************************************************************************)
(* Updates of running nodes: a new Talos image, or another machine         *)
(* configuration (its settings, the control-plane endpoint in it).  The    *)
(* TartMachine controller has one worker and takes one Machine at a time;  *)
(* the UpdateMachine hook of the runtime extension uses the same engine.   *)
(* A restart has to pass the etcd quorum gate and the drain of the Node; a *)
(* change of the endpoint also a Lease and the order of the Machines.      *)
(* Nothing is kept between two reconciles but the conditions in the status *)
(* and the mark on a Node that was cordoned.                               *)
(***************************************************************************)
EXTENDS Naturals, FiniteSets, EtcdQuorum

CONSTANTS
  ControlPlanes,   \* the control planes, by the numbers their names sort by
  Workers,         \* the other nodes
  Hooked,          \* nodes whose Machines Cluster API updates through the hook
  MaxImage,        \* bound: Talos images, in the order they may be upgraded in
  MaxSettings,     \* bound: settings of the machine configuration
  MaxEndpoint,     \* bound: control-plane endpoints
  Wishes,          \* the specs the user may ask for: <<image, settings, endpoint>>
  Refused,         \* settings that change data or identity of a node
  ApplyStrategy,   \* "StagedReboot" or "ApplyOnly"
  AllowDowntime,   \* TartCluster.spec.updatePolicy
  Lingering,       \* nodes that go on serving for a while once a reboot is accepted
  MaxFaults        \* bound: failing calls, crashes, outages and rollbacks

Nodes == ControlPlanes \union Workers

ASSUME UpdateAssumption ==
  /\ ControlPlanes \subseteq Nat \ {0} /\ IsFiniteSet(ControlPlanes) /\ ControlPlanes # {}
  /\ Workers \subseteq Nat \ {0} /\ IsFiniteSet(Workers) /\ ControlPlanes \intersect Workers = {}
  /\ Hooked \subseteq Nodes
  /\ MaxImage \in Nat \ {0} /\ MaxSettings \in Nat \ {0} /\ MaxEndpoint \in Nat \ {0}
  /\ Wishes \subseteq (1..MaxImage) \X (1..MaxSettings) \X (1..MaxEndpoint)
  /\ Refused \subseteq 2..MaxSettings /\ MaxFaults \in Nat
  /\ ApplyStrategy \in {"StagedReboot", "ApplyOnly"}
  /\ AllowDowntime \in BOOLEAN /\ Lingering \subseteq Nodes

VARIABLES
  wanted,   \* the specs: image and configuration of every Machine
  machine,  \* the status of every TartMachine
  capi,     \* of every CAPI Machine, as the caches show it: its Ready condition and
            \* the annotation that Cluster API is updating it in place
  node,     \* every Talos node and its Kubernetes Node
  lease,    \* the endpoint Lease: its holder, and whether it has expired
  work,     \* the reconcile and the hook call in flight
  faults

vars == <<wanted, machine, capi, node, lease, work, faults>>

Actors == {"controller", "hook"}
Idle == [step |-> "idle"]

-----------------------------------------------------------------------------
(* Types and initial states.                                               *)

Config == [settings: 1..MaxSettings, endpoint: 1..MaxEndpoint]
Desired == [image: 1..MaxImage, config: Config]
NoConfig == [settings |-> 0, endpoint |-> 0]

\* TalosUpToDate with its reason, the generation it is of and the observed
\* version; ConfigurationUpToDate; the endpoint observed; Ready.
TartMachineStatus ==
  [upToDate: {"True", "Mismatch", "Unreachable", "RolledBack"},
   generation: 1..MaxImage, version: 1..MaxImage,
   configured: BOOLEAN, endpoint: 0..MaxEndpoint, ready: BOOLEAN]

\* "leaving": a reboot was accepted and the node still serves; "restarting" and
\* "away": it is down, because it was told to or not.
Phases == {"up", "leaving", "restarting", "away"}

TypeOK ==
  /\ wanted \in Desired
  /\ machine \in [Nodes -> TartMachineStatus]
  /\ capi \in [Nodes -> [ready: BOOLEAN, updating: BOOLEAN]]
  /\ node \in [Nodes -> [phase: Phases, image: 1..MaxImage, next: 1..MaxImage,
                         config: Config, staged: Config \union {NoConfig},
                         kubelet: BOOLEAN, cordon: {"none", "user", "provider"}]]
  /\ lease \in [holder: Nodes \union {0}, expired: BOOLEAN]
  /\ work \in [Actors ->
       [step: {"observe", "configuration", "endpoint", "gate", "drain", "restart",
               "applied"},
        node: Nodes, spec: Desired, kind: {"image", "configuration", "endpoint"},
        overlooked: SUBSET ControlPlanes] \union {Idle}]
  /\ faults \in 0..MaxFaults

\* Provisioned nodes that run what is wanted.
Init ==
  /\ wanted = [image |-> 1, config |-> [settings |-> 1, endpoint |-> 1]]
  /\ machine = [n \in Nodes |->
       [upToDate |-> "True", generation |-> 1, version |-> 1,
        configured |-> TRUE, endpoint |-> 0, ready |-> TRUE]]
  /\ capi = [n \in Nodes |-> [ready |-> TRUE, updating |-> FALSE]]
  /\ node = [n \in Nodes |->
       [phase |-> "up", image |-> 1, next |-> 1, config |-> wanted.config,
        staged |-> NoConfig, kubelet |-> TRUE, cordon |-> "none"]]
  /\ lease = [holder |-> 0, expired |-> FALSE]
  /\ work = [a \in Actors |-> Idle]
  /\ faults = 0

-----------------------------------------------------------------------------
(* The user, Cluster API, time and the nodes.                              *)

\* The specs only move forward: every value is a new generation.
Want(spec) ==
  /\ spec # wanted /\ spec.image >= wanted.image
  /\ spec.config.settings >= wanted.config.settings
  /\ spec.config.endpoint >= wanted.config.endpoint
  /\ wanted' = spec
  /\ UNCHANGED <<machine, capi, node, lease, work, faults>>

\* The Ready condition of a Machine follows that of its TartMachine.
MirrorReady(n) ==
  /\ capi[n].ready # machine[n].ready
  /\ capi' = [capi EXCEPT ![n].ready = machine[n].ready]
  /\ UNCHANGED <<wanted, machine, node, lease, work, faults>>

LeaseExpires ==
  /\ lease.holder # 0 /\ ~lease.expired /\ lease' = [lease EXCEPT !.expired = TRUE]
  /\ UNCHANGED <<wanted, machine, capi, node, work, faults>>

ChangeNode(n, value) ==
  /\ node' = [node EXCEPT ![n] = value]
  /\ UNCHANGED <<wanted, machine, capi, lease, work>>

UserCordons(n) ==
  /\ node[n].cordon = "none" /\ faults < MaxFaults /\ faults' = faults + 1
  /\ ChangeNode(n, [node[n] EXCEPT !.cordon = "user"])

Leaves(n) ==
  /\ node[n].phase = "leaving" /\ faults' = faults
  /\ ChangeNode(n, [node[n] EXCEPT !.phase = "restarting"])

\* A boot puts the image and the configuration that were staged into effect.
Boots(n) ==
  /\ node[n].phase \in {"restarting", "away"} /\ faults' = faults
  /\ ChangeNode(n, [node[n] EXCEPT !.phase = "up", !.kubelet = FALSE, !.image = node[n].next,
                      !.config = IF node[n].staged = NoConfig THEN @ ELSE node[n].staged,
                      !.staged = NoConfig])

KubeletReady(n) ==
  /\ node[n].phase = "up" /\ ~node[n].kubelet /\ faults' = faults
  /\ ChangeNode(n, [node[n] EXCEPT !.kubelet = TRUE])

Outage(n) ==
  /\ node[n].phase = "up" /\ faults < MaxFaults /\ faults' = faults + 1
  /\ ChangeNode(n, [node[n] EXCEPT !.phase = "away", !.kubelet = FALSE])

\* Talos falls back to the image before.
RollsBack(n) ==
  /\ node[n].phase = "up" /\ node[n].image > 1
  /\ faults < MaxFaults /\ faults' = faults + 1
  /\ ChangeNode(n, [node[n] EXCEPT !.phase = "away", !.kubelet = FALSE, !.next = node[n].image - 1])

-----------------------------------------------------------------------------
(* How a reconcile ends.  The conditions are written together; the endpoint  *)
(* and the digest are assigned before the copy that the patch is computed    *)
(* from is taken, so that the patch never carries them.                      *)

Reachable(n) == node[n].phase \in {"up", "leaving"}

End(a) == work' = [work EXCEPT ![a] = Idle]

reportTalosStatusWithVersion(n, spec, version, upToDate, configured, ready) ==
  machine' = [machine EXCEPT ![n] =
    [@ EXCEPT !.version = version, !.upToDate = upToDate, !.generation = spec.image,
              !.configured = configured, !.ready = ready]]

\* Mutant: without an observed version the version is cleared.
ReportClearsVersion(a, upToDate, configured, ready) ==
  LET n == work[a].node IN
  /\ End(a)
  /\ IF a = "controller"
       THEN reportTalosStatusWithVersion(n, work[a].spec,
              IF upToDate = "Unreachable" THEN 0 ELSE node[n].image,
              upToDate, configured, ready)
       ELSE machine' = machine

\* The hook reports nothing but its answer.
Report(a, upToDate, configured, ready) ==
  LET n == work[a].node IN
  /\ End(a)
  /\ IF a = "controller"
       THEN reportTalosStatusWithVersion(n, work[a].spec,
              IF upToDate = "Unreachable" THEN machine[n].version ELSE node[n].image,
              upToDate, configured, ready)
       ELSE machine' = machine

\* A retry or a failure: without an image to report the Machine is not up to date.
Stop(a) ==
  IF work[a].kind = "image"
    THEN Report(a, "Mismatch", machine[work[a].node].configured, FALSE)
    ELSE Report(a, "True", FALSE, FALSE)

GoOn(a, step) == work' = [work EXCEPT ![a].step = step]

\* A reconcile of a node that runs what is wanted and was reported to changes
\* nothing.
Converged(n) ==
  /\ node[n].phase = "up" /\ node[n].image = wanted.image /\ node[n].config = wanted.config
  /\ machine[n].upToDate = "True" /\ machine[n].generation = wanted.image
  /\ machine[n].configured /\ machine[n].ready

reconcileTalos(n) ==
  /\ work["controller"] = Idle /\ ~Converged(n)
  /\ work' = [work EXCEPT !["controller"] =
                [step |-> "observe", node |-> n, spec |-> wanted, kind |-> "image", overlooked |-> {}]]
  /\ UNCHANGED <<wanted, machine, capi, node, lease, faults>>

\* Cluster API marks the Machine and calls the hook until it has answered that the
\* node is updated.
updateMachineWithClient(n) ==
  /\ work["hook"] = Idle /\ n \in Hooked
  /\ ~(Converged(n) /\ node[n].kubelet /\ node[n].cordon # "provider")
  /\ work' = [work EXCEPT !["hook"] =
                [step |-> "observe", node |-> n, spec |-> wanted, kind |-> "image", overlooked |-> {}]]
  /\ capi' = [capi EXCEPT ![n].updating = TRUE]
  /\ UNCHANGED <<wanted, machine, node, lease, faults>>

ObserveUnreachable(a) ==
  /\ work[a].step = "observe" /\ ~Reachable(work[a].node)
  /\ Report(a, "Unreachable", machine[work[a].node].configured, FALSE)
  /\ UNCHANGED <<wanted, capi, node, lease, faults>>

-----------------------------------------------------------------------------
(* The Talos image.                                                         *)

OtherImage(a) ==
  /\ work[a].step = "observe" /\ Reachable(work[a].node)
  /\ node[work[a].node].image # work[a].spec.image

\* Mutant: whatever version the condition is about.
WasEverUpToDate(a) == machine[work[a].node].upToDate = "True"

machineWasPreviouslyUpToDate(a) ==
  LET status == machine[work[a].node] IN
  status.upToDate = "True" /\ status.version = work[a].spec.image

\* The controller remembers a rollback for the generation, the hook does not.
RolledBack(a) ==
  LET status == machine[work[a].node] IN
  \/ machineWasPreviouslyUpToDate(a)
  \/ a = "controller" /\ status.upToDate = "RolledBack" /\ status.generation = work[a].spec.image

StopRolledBack(a) ==
  /\ OtherImage(a) /\ RolledBack(a)
  /\ Report(a, "RolledBack", machine[work[a].node].configured, FALSE)
  /\ UNCHANGED <<wanted, capi, node, lease, faults>>

ValidateUpgrade(current, desired) == desired >= current

\* The image of a spec that was read before a newer one was installed is refused.
applyTalosUpgrade(a) ==
  /\ OtherImage(a) /\ ~RolledBack(a)
  /\ IF ValidateUpgrade(node[work[a].node].image, work[a].spec.image)
       THEN GoOn(a, "gate") /\ machine' = machine
       ELSE Stop(a)
  /\ UNCHANGED <<wanted, capi, node, lease, faults>>

DesiredImage(a) ==
  /\ work[a].step = "observe" /\ Reachable(work[a].node)
  /\ node[work[a].node].image = work[a].spec.image

\* The Node of the Machine is found in the workload cluster and is Ready.
nodeReadyForMachine(n) == node[n].kubelet

wasImageUpgradePending(n) == machine[n].upToDate = "Mismatch"

Uncordoned(n) == IF node[n].cordon = "provider" THEN [node[n] EXCEPT !.cordon = "none"] ELSE node[n]

\* An upgrade that was seen to be pending is over when its Node is Ready again.
finalizeObservedImageUpgrade(a) ==
  LET n == work[a].node
      pending == a = "controller" /\ wasImageUpgradePending(n) IN
  /\ DesiredImage(a)
  /\ IF pending /\ ~nodeReadyForMachine(n)
       THEN Report(a, "True", machine[n].configured, FALSE) /\ node' = node
       ELSE /\ work' = [work EXCEPT ![a].step = "configuration", ![a].kind = "configuration"]
            /\ node' = IF pending THEN [node EXCEPT ![n] = Uncordoned(n)] ELSE node
            /\ machine' = machine
  /\ UNCHANGED <<wanted, capi, lease, faults>>

-----------------------------------------------------------------------------
(* The machine configuration.                                               *)

ClassifyConfigurationChange(active, desired) ==
  CASE active = desired -> "None"
    [] active.settings # desired.settings /\ desired.settings \in Refused -> "Refused"
    [] active.endpoint # desired.endpoint -> "ControlPlaneEndpoint"
    [] OTHER -> "Updatable"

Class(a) == ClassifyConfigurationChange(node[work[a].node].config, work[a].spec.config)

AtConfiguration(a) == work[a].step = "configuration" /\ Reachable(work[a].node)

\* The active configuration is the desired one.  The controller looks at the
\* Node only when its last report was that it was not; the hook's answer that all is
\* done ends the update.
verifyConfigurationRecovered(a) ==
  LET n == work[a].node
      trusted == a = "controller" /\ machine[n].configured IN
  /\ AtConfiguration(a) /\ Class(a) = "None"
  /\ IF trusted \/ nodeReadyForMachine(n)
       THEN Report(a, "True", TRUE, TRUE)
       ELSE Report(a, "True", FALSE, FALSE)
  /\ node' = IF ~trusted /\ nodeReadyForMachine(n) THEN [node EXCEPT ![n] = Uncordoned(n)] ELSE node
  /\ capi' = IF a = "hook" /\ nodeReadyForMachine(n) THEN [capi EXCEPT ![n].updating = FALSE] ELSE capi
  /\ UNCHANGED <<wanted, lease, faults>>

\* The configuration cannot be read, or may not be applied to this node.
configurationUpdateFailure(a) ==
  /\ work[a].step = "configuration" /\ (Reachable(work[a].node) => Class(a) = "Refused")
  /\ Stop(a)
  /\ UNCHANGED <<wanted, capi, node, lease, faults>>

\* ApplyOnly has no gate but the endpoint's.
AfterEndpointGate == IF ApplyStrategy = "ApplyOnly" THEN "restart" ELSE "gate"

reconcileMachineConfiguration(a) ==
  /\ AtConfiguration(a)
  /\ Class(a) = "Updatable" \/ (a = "hook" /\ Class(a) = "ControlPlaneEndpoint")
  /\ GoOn(a, AfterEndpointGate)
  /\ UNCHANGED <<wanted, machine, capi, node, lease, faults>>

acquireEndpointLease ==
  LET a == "controller"
      n == work[a].node IN
  /\ AtConfiguration(a) /\ Class(a) = "ControlPlaneEndpoint"
  /\ IF lease.holder \in {0, n} \/ lease.expired
       THEN /\ lease' = [holder |-> n, expired |-> FALSE]
            /\ work' = [work EXCEPT ![a].step = "endpoint", ![a].kind = "endpoint"]
            /\ machine' = machine
       ELSE lease' = lease /\ Stop(a)
  /\ UNCHANGED <<wanted, capi, node, faults>>

releaseEndpointLease(n) ==
  lease' = IF lease.holder = n THEN [holder |-> 0, expired |-> FALSE] ELSE lease

machineEndpointConverged(c, endpoint) ==
  capi[c].ready /\ machine[c].endpoint = endpoint /\ machine[c].configured

\* Mutant: only the Machine itself is looked for in the inventory.
EndpointUpdateUnordered(n, endpoint) == ControlPlanes # {}

\* Control planes one after the other in the order of their names, then workers.
endpointUpdateGate(n, endpoint) ==
  \A c \in ControlPlanes : (n \in ControlPlanes => c < n) => machineEndpointConverged(c, endpoint)

PassEndpointGate ==
  LET a == "controller"
      n == work[a].node IN
  /\ work[a].step = "endpoint"
  /\ IF endpointUpdateGate(n, work[a].spec.config.endpoint)
       THEN GoOn(a, AfterEndpointGate) /\ UNCHANGED <<machine, lease>>
       ELSE Stop(a) /\ releaseEndpointLease(n)
  /\ UNCHANGED <<wanted, capi, node, faults>>

-----------------------------------------------------------------------------
(* Restarting a node.                                                       *)

\* Mutant: the members are not asked, their Machines' condition is trusted.
SafeByCondition(n) ==
  LET members == Cardinality(ControlPlanes) IN
  /\ \A c \in ControlPlanes \ {n} : capi[c].ready /\ ~capi[c].updating
  /\ CanTemporarilyDisruptMember([members |-> members, healthy |-> members,
                                  targetHealthy |-> Reachable(n), targetObserved |-> Reachable(n)])

\* Every other control plane is Ready, not being updated and a healthy member, and
\* this one is a healthy member.
controlPlaneUpgradeSafe(n) ==
  LET members == Cardinality(ControlPlanes) IN
  /\ \A c \in ControlPlanes \ {n} : capi[c].ready /\ ~capi[c].updating /\ Reachable(c)
  /\ CanTemporarilyDisruptMember([members |-> members, healthy |-> members,
                                  targetHealthy |-> Reachable(n), targetObserved |-> Reachable(n)])

\* History: the control planes that have accepted a reboot and still answer.
PassRebootGate(a) ==
  LET n == work[a].node
      leaving == {c \in ControlPlanes \ {n} : node[c].phase = "leaving"} IN
  /\ work[a].step = "gate"
  /\ IF n \in ControlPlanes => controlPlaneUpgradeSafe(n)
       THEN /\ work' = [work EXCEPT ![a].step = "drain", ![a].overlooked = leaving]
            /\ machine' = machine
       ELSE Stop(a)
  /\ UNCHANGED <<wanted, capi, node, lease, faults>>

\* A Node that is unschedulable already does not get the mark.
cordonNode(n) == IF node[n].cordon = "none" THEN [node[n] EXCEPT !.cordon = "provider"] ELSE node[n]

\* The Node is cordoned, its Pods are evicted; a budget may forbid that.
enforceDrainPolicy(a) ==
  /\ work[a].step = "drain"
  /\ node' = [node EXCEPT ![work[a].node] = cordonNode(work[a].node)]
  /\ \/ GoOn(a, "restart") /\ UNCHANGED <<machine, faults>>
     \/ /\ faults < MaxFaults /\ faults' = faults + 1
        /\ IF AllowDowntime THEN GoOn(a, "restart") /\ machine' = machine ELSE Stop(a)
  /\ UNCHANGED <<wanted, capi, lease>>

RestartPhase(n) ==
  IF n \notin Lingering /\ node[n].phase = "up" THEN "restarting" ELSE "leaving"

\* What the node boots into, or runs at once when nothing needs a boot.
Upgrade(n, image) == [node[n] EXCEPT !.next = image]
PerformImageUpgrade(a) == Upgrade(work[a].node, work[a].spec.image)
ApplyStaged(a) == [node[work[a].node] EXCEPT !.staged = work[a].spec.config]
ApplyConfigurationNoReboot(a) == [node[work[a].node] EXCEPT !.config = work[a].spec.config]

Prepared(a) == IF work[a].kind = "image" THEN PerformImageUpgrade(a) ELSE ApplyStaged(a)

ApplyOnly(a) == work[a].kind # "image" /\ ApplyStrategy = "ApplyOnly"

ApplyConfigurationUpdate(a) ==
  LET n == work[a].node IN
  /\ work[a].step = "restart" /\ Reachable(n)
  /\ node' = [node EXCEPT ![n] =
       IF ApplyOnly(a) THEN ApplyConfigurationNoReboot(a)
       ELSE [Prepared(a) EXCEPT !.phase = RestartPhase(n)]]
  /\ GoOn(a, "applied")
  /\ UNCHANGED <<wanted, machine, capi, lease, faults>>

\* The node refuses, or is gone; what was staged before the reboot stays.
ApplyFails(a) ==
  LET n == work[a].node IN
  /\ work[a].step = "restart"
  /\ \/ ~Reachable(n) /\ node' = node /\ faults' = faults
     \/ /\ Reachable(n) /\ faults < MaxFaults /\ faults' = faults + 1
        /\ node' = [node EXCEPT ![n] = IF ApplyOnly(a) THEN @ ELSE Prepared(a)]
  /\ IF work[a].kind = "endpoint" THEN releaseEndpointLease(n) ELSE lease' = lease
  /\ Stop(a)
  /\ UNCHANGED <<wanted, capi>>

\* The wait for the reboot ends at any time; another reconcile looks again.
observeReboot(a) ==
  /\ work[a].step = "applied" /\ Stop(a)
  /\ UNCHANGED <<wanted, capi, node, lease, faults>>

\* A call to the API server fails, or the process dies: nothing is reported.
CallFails(a) ==
  /\ work[a] # Idle /\ faults < MaxFaults /\ faults' = faults + 1
  /\ End(a)
  /\ UNCHANGED <<wanted, machine, capi, node, lease>>

-----------------------------------------------------------------------------
ControllerStep == acquireEndpointLease \/ PassEndpointGate

EngineStep(a) ==
  \/ ObserveUnreachable(a) \/ StopRolledBack(a) \/ applyTalosUpgrade(a)
  \/ finalizeObservedImageUpgrade(a) \/ verifyConfigurationRecovered(a)
  \/ configurationUpdateFailure(a) \/ reconcileMachineConfiguration(a)
  \/ PassRebootGate(a) \/ enforceDrainPolicy(a)
  \/ ApplyConfigurationUpdate(a) \/ ApplyFails(a) \/ observeReboot(a)

NodeStep(n) == Leaves(n) \/ Boots(n) \/ KubeletReady(n)

Next ==
  \/ \E w \in Wishes :
       Want([image |-> w[1], config |-> [settings |-> w[2], endpoint |-> w[3]]])
  \/ \E n \in Nodes : \/ reconcileTalos(n) \/ updateMachineWithClient(n) \/ MirrorReady(n)
                      \/ NodeStep(n) \/ UserCordons(n) \/ Outage(n) \/ RollsBack(n)
  \/ LeaseExpires \/ ControllerStep
  \/ \E a \in Actors : EngineStep(a) \/ CallFails(a)

\* The work queue is served in turn, and every object comes back to it.
Fairness ==
  /\ \A n \in Nodes : SF_vars(reconcileTalos(n)) /\ WF_vars(MirrorReady(n)) /\ WF_vars(NodeStep(n))
  /\ WF_vars(LeaseExpires) /\ WF_vars(ControllerStep)
  /\ \A a \in Actors : WF_vars(EngineStep(a))

Spec == Init /\ [][Next]_vars /\ Fairness

-----------------------------------------------------------------------------
(* Properties.                                                             *)

Restarting(n) == node[n].phase \in {"leaving", "restarting"}

\* update.go: a control plane is restarted only while every other one is a
\* healthy member.  However reconciles, crashes and nodes coming back
\* interleave, two control planes are never down because they were told to.
AtMostOneRestart == Cardinality({c \in ControlPlanes : Restarting(c)}) <= 1

\* update.go: nothing waits for a node to be gone once it has accepted its reboot, and
\* time passes between the gate and the restart.  Still, a control plane is told to
\* restart while another one is restarting only if that one had accepted its reboot
\* before the gate was passed and still answered there as a healthy member.
OverlapsOnlyIfOverlooked ==
  [][\A c \in ControlPlanes : ~Restarting(c) /\ Restarting(c)' =>
       \A d \in ControlPlanes \ {c} : Restarting(d) => d \in work["controller"].overlooked]_vars

\* configuration_update.go: a new endpoint reaches the control planes in the
\* order of their names and the workers after all of them, whoever holds the
\* Lease and whatever expires.  The hook has no such gate.
EndpointOrder ==
  \A n \in Nodes \ Hooked, c \in ControlPlanes :
    (n \in ControlPlanes => c < n) => node[n].config.endpoint <= node[c].config.endpoint

FirstControlPlane == CHOOSE c \in ControlPlanes : \A d \in ControlPlanes : c <= d

\* The endpoint never gets past the first control plane.
EndpointBlocked(n) ==
  n # FirstControlPlane /\ node[n].config.endpoint # wanted.config.endpoint

\* Several control planes are to be restarted and none is Ready.
StandOff(n) ==
  /\ n \in ControlPlanes
  /\ \E c \in ControlPlanes \ {n} : ~machine[c].ready \/ machine[c].upToDate = "RolledBack"

Updated(n) ==
  /\ node[n].image = wanted.image
  /\ wanted.config.settings \in Refused \/ node[n].config = wanted.config

\* A rollback is one of the faults.
Stopped(n) == (machine[n].upToDate = "RolledBack" /\ faults > 0) \/ EndpointBlocked(n)

\* talos_reconcile.go: what is wanted is installed in the end on every node that
\* comes back, reboots, failing calls and crashes notwithstanding; a rollback
\* stops a node, and so do control planes that wait for each other.
UpdateProceeds == \A n \in Nodes : <>[](Updated(n) \/ Stopped(n) \/ StandOff(n))

\* applyTalosUpgrade resolves a mismatch in place: with nothing failing, every
\* control plane runs the image that is wanted in the end.
UpdateCompletes == \A n \in Nodes : <>[]Updated(n)

\* machineEndpointConverged: once a control plane has recovered on the new
\* endpoint the next one follows, and the workers after them.
EndpointReachesEveryNode == \A n \in Nodes : <>[](node[n].config = wanted.config)

\* FinalizeImageUpgrade: the Node was seen Ready, and the provider's cordon was
\* taken away, before a Machine is reported Ready after an update.
ReadyNodeIsSchedulable ==
  [][\A n \in Nodes : ~machine[n].ready /\ machine'[n].ready =>
       node'[n].kubelet /\ node'[n].cordon # "provider"]_vars

\* The RolledBack condition: after a rollback another upgrade needs a new
\* generation of the Machine.
RollbackStaysStopped ==
  \A n \in Nodes, g \in 1..MaxImage :
    [](machine[n].upToDate = "RolledBack" /\ machine[n].generation = g => [](node[n].next # g))
=============================================================================
