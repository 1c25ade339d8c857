------------------------- MODULE InPlaceUpdateProofs -------------------------
(***************************************************************************)
(* Type correctness of InPlaceUpdate; that a new endpoint keeps to the     *)
(* order of the nodes; and, where no control plane is updated through the  *)
(* hook, that one is told to restart beside another only if the gate took  *)
(* the leaving node for a healthy member: for any nodes, images, settings, *)
(* endpoints, wishes, faults, and nodes that linger.                       *)
(***************************************************************************)
EXTENDS InPlaceUpdate, FiniteSetTheorems, TLAPS

\* The values of a node, of a CAPI Machine, of the Lease and of a reconcile or hook call.
NodeStates ==
  [phase: Phases, image: 1..MaxImage, next: 1..MaxImage, config: Config,
   staged: Config \union {NoConfig}, kubelet: BOOLEAN, cordon: {"none", "user", "provider"}]
CapiStates == [ready: BOOLEAN, updating: BOOLEAN]
Leases == [holder: Nodes \union {0}, expired: BOOLEAN]
Steps == {"observe", "configuration", "endpoint", "gate", "drain", "restart", "applied"}
Kinds == {"image", "configuration", "endpoint"}
Works == [step: Steps, node: Nodes, spec: Desired, kind: Kinds, overlooked: SUBSET ControlPlanes]

\* A node before which a control plane gets a new endpoint, and that the hook does
\* not update.
Follows(n) == n \in Nodes \ Hooked /\ \E c \in ControlPlanes : n \in ControlPlanes => c < n

\* The observed endpoint never gets into the status of a Machine.
Unstored == \A n \in Nodes : machine[n].endpoint = 0

\* So a node that has another before it keeps its endpoint.
Behind ==
  \A n \in Nodes : Follows(n) =>
    node[n].config.endpoint = 1 /\ node[n].staged.endpoint \in {0, 1}

\* What work w of actor a is at is what its step says; the hook has its own
\* Machines; a configuration that has passed the endpoint gate, or does not need
\* it, does not move the endpoint of a node that has another before it.
OnCourse(a, w) ==
  /\ w.step = "observe" => w.kind = "image"
  /\ w.step = "configuration" => w.kind = "configuration"
  /\ w.step = "endpoint" => w.kind = "endpoint"
  /\ a = "hook" => w.node \in Hooked
  /\ (w.step \in {"gate", "drain", "restart"} /\ w.kind # "image" /\ Follows(w.node)) =>
       w.spec.config.endpoint = 1

Course == \A a \in Actors : work[a] # Idle => OnCourse(a, work[a])

Inv == TypeOK /\ Unstored /\ Behind /\ Course

\* While the controller has a control plane past the gate, no other is restarting
\* that the gate did not see leaving.
Clear ==
  LET w == work["controller"] IN
  (w # Idle /\ w.step \in {"drain", "restart"} /\ w.node \in ControlPlanes /\ ~ApplyOnly("controller"))
    => \A c \in ControlPlanes \ {w.node} : Restarting(c) => c \in w.overlooked

\* What OverlapsOnlyIfOverlooked says of a step.
Overlooks ==
  \A c \in ControlPlanes : ~Restarting(c) /\ Restarting(c)' =>
    \A d \in ControlPlanes \ {c} : Restarting(d) => d \in work["controller"].overlooked

-----------------------------------------------------------------------------
(* Types.                                                                  *)

\* TypeOK as its parts.
LEMMA TypeParts ==
  TypeOK <=>
    /\ wanted \in Desired
    /\ machine \in [Nodes -> TartMachineStatus] /\ capi \in [Nodes -> CapiStates]
    /\ node \in [Nodes -> NodeStates]
    /\ lease \in Leases
    /\ work \in [Actors -> Works \union {Idle}]
    /\ faults \in 0..MaxFaults
BY DEF TypeOK, CapiStates, NodeStates, Leases, Works, Steps, Kinds

\* Work that is at a step is in flight.
LEMMA InFlight ==
  ASSUME TypeOK, NEW a \in Actors
  PROVE  /\ work[a].step \in Steps => work[a] # Idle
         /\ work[a] # Idle =>
              /\ work[a] \in Works /\ work[a].node \in Nodes /\ work[a].spec \in Desired
              /\ work[a].kind \in Kinds /\ work[a].step \in Steps
              /\ work[a].spec.image \in 1..MaxImage /\ work[a].spec.config \in Config
              /\ work[a].spec.config.endpoint \in 1..MaxEndpoint
BY TypeParts DEF Works, Steps, Idle, Desired, Config

\* What TypeOK says of one node.
LEMMA NodeFacts ==
  ASSUME TypeOK, NEW n \in Nodes
  PROVE  /\ node[n] \in NodeStates /\ machine[n] \in TartMachineStatus
         /\ node[n].image \in 1..MaxImage /\ node[n].next \in 1..MaxImage
         /\ node[n].config \in Config /\ node[n].config.endpoint \in 1..MaxEndpoint
         /\ node[n].staged \in Config \union {NoConfig} /\ node[n].staged.endpoint \in Nat
         /\ node[n].phase \in Phases
         /\ machine[n].configured \in BOOLEAN /\ machine[n].version \in 1..MaxImage
BY TypeParts DEF NodeStates, TartMachineStatus, Config, NoConfig

\* A reconcile that ends: what it reports, and that the endpoint is not in it.
Ended(a) ==
  /\ work' = [work EXCEPT ![a] = Idle]
  /\ machine' \in [Nodes -> TartMachineStatus]
  /\ \A n \in Nodes : machine'[n].endpoint = machine[n].endpoint

\* A report ends the reconcile.
LEMMA Reports ==
  ASSUME TypeOK, NEW a \in Actors, work[a] # Idle, NEW u \in {"True", "Mismatch", "Unreachable", "RolledBack"},
         NEW c \in BOOLEAN, NEW r \in BOOLEAN, Report(a, u, c, r)
  PROVE  Ended(a)
<1> DEFINE n == work[a].node
           v == IF u = "Unreachable" THEN machine[n].version ELSE node[n].image
           new == [machine[n] EXCEPT !.version = v, !.upToDate = u, !.generation = work[a].spec.image,
                                     !.configured = c, !.ready = r]
<1>1. n \in Nodes /\ work[a].spec.image \in 1..MaxImage
  BY InFlight
<1>2. v \in 1..MaxImage /\ machine[n] \in TartMachineStatus /\ machine \in [Nodes -> TartMachineStatus]
  BY <1>1, NodeFacts, TypeParts
<1>3. work' = [work EXCEPT ![a] = Idle]
  BY DEF Report, End
<1>4. new \in TartMachineStatus /\ new.endpoint = machine[n].endpoint
  <2> HIDE DEF v, n
  <2>1. QED
    BY <1>1, <1>2 DEF TartMachineStatus
<1>5. machine' = machine \/ machine' = [machine EXCEPT ![n] = new]
  BY DEF Report, reportTalosStatusWithVersion
<1> HIDE DEF new, n
<1>6. QED
  BY <1>1, <1>2, <1>3, <1>4, <1>5 DEF Ended

\* So does a stop.
LEMMA Stops ==
  ASSUME TypeOK, NEW a \in Actors, work[a] # Idle, Stop(a)
  PROVE  Ended(a)
<1>1. machine[work[a].node].configured \in BOOLEAN
  BY InFlight, NodeFacts
<1>2. CASE work[a].kind = "image"
  BY <1>1, <1>2, Reports DEF Stop
<1>3. CASE work[a].kind # "image"
  BY <1>3, Reports DEF Stop
<1>4. QED
  BY <1>2, <1>3

\* The nodes the gate overlooks, once it is passed.
Leaving(n) == {c \in ControlPlanes \ {n} : node[c].phase = "leaving"}
Overlooked(a) == IF work[a].step = "gate" THEN Leaving(work[a].node) ELSE work[a].overlooked

\* A reconcile that goes on about the same Machine and spec, and reports nothing.
GoesOn(a, step, kind) ==
  /\ work' = [work EXCEPT ![a] = [@ EXCEPT !.step = step, !.kind = kind, !.overlooked = Overlooked(a)]]
  /\ machine' = machine

\* A step forward.
LEMMA Advances ==
  ASSUME TypeOK, NEW a \in Actors, work[a] # Idle, NEW s \in Steps, NEW k \in Kinds, GoesOn(a, s, k)
  PROVE  /\ work' \in [Actors -> Works \union {Idle}]
         /\ work'[a] \in Works /\ work'[a] # Idle
         /\ work'[a].step = s /\ work'[a].kind = k
         /\ work'[a].node = work[a].node /\ work'[a].spec = work[a].spec
         /\ work'[a].overlooked = Overlooked(a)
         /\ \A b \in Actors : b # a => work'[b] = work[b]
<1>1. work \in [Actors -> Works \union {Idle}] /\ work[a] \in Works
  BY InFlight, TypeParts
<1>o. Overlooked(a) \in SUBSET ControlPlanes
  BY <1>1 DEF Overlooked, Leaving, Works
<1> DEFINE v == [work[a] EXCEPT !.step = s, !.kind = k, !.overlooked = Overlooked(a)]
<1>2. /\ v \in Works /\ v.step = s /\ v.kind = k /\ v.node = work[a].node /\ v.spec = work[a].spec
      /\ v.overlooked = Overlooked(a)
  BY <1>1, <1>o DEF Works
<1>3. v # Idle
  BY <1>2 DEF Idle, Steps
<1>4. work' = [work EXCEPT ![a] = v]
  BY DEF GoesOn
<1> HIDE DEF v
<1>5. QED
  BY <1>1, <1>2, <1>3, <1>4

\* So is work that gets another step and kind anywhere but at the gate.
LEMMA GoesOnOutsideTheGate ==
  ASSUME TypeOK, NEW a \in Actors, work[a] # Idle, work[a].step # "gate", NEW s \in Steps, NEW k \in Kinds,
         work' = [work EXCEPT ![a].step = s, ![a].kind = k], machine' = machine
  PROVE  GoesOn(a, s, k)
<1>1. work[a] \in Works /\ Overlooked(a) = work[a].overlooked /\ work \in [Actors -> Works \union {Idle}]
  BY InFlight, TypeParts DEF Overlooked
<1>2. [[work[a] EXCEPT !.step = s] EXCEPT !.kind = k] =
        [work[a] EXCEPT !.step = s, !.kind = k, !.overlooked = work[a].overlooked]
  BY <1>1 DEF Works
<1>3. work' = [work EXCEPT ![a] = [[work[a] EXCEPT !.step = s] EXCEPT !.kind = k]]
  BY <1>1
<1>4. QED
  BY <1>1, <1>2, <1>3 DEF GoesOn

\* GoOn is a step forward that keeps the kind of work.
LEMMA GoOnKeepsKind ==
  ASSUME TypeOK, NEW a \in Actors, work[a] # Idle, work[a].step # "gate", NEW s \in Steps,
         GoOn(a, s), machine' = machine
  PROVE  GoesOn(a, s, work[a].kind)
<1>1. work[a] \in Works /\ Overlooked(a) = work[a].overlooked
  BY InFlight DEF Overlooked
<1>2. [work[a] EXCEPT !.step = s] =
        [work[a] EXCEPT !.step = s, !.kind = work[a].kind, !.overlooked = work[a].overlooked]
  BY <1>1 DEF Works
<1>3. work' = [work EXCEPT ![a] = [work[a] EXCEPT !.step = s]]
  BY DEF GoOn
<1>4. QED
  BY <1>1, <1>2, <1>3 DEF GoesOn

\* Passing the gate keeps the nodes seen leaving.
LEMMA GateOverlooks ==
  ASSUME TypeOK, NEW a \in Actors, work[a] # Idle, work[a].step = "gate", machine' = machine,
         work' = [work EXCEPT ![a].step = "drain", ![a].overlooked = Leaving(work[a].node)]
  PROVE  GoesOn(a, "drain", work[a].kind)
<1>1. /\ work[a] \in Works /\ Overlooked(a) = Leaving(work[a].node)
      /\ work \in [Actors -> Works \union {Idle}]
  BY InFlight, TypeParts DEF Overlooked
<1> DEFINE L == Leaving(work[a].node)
<1> HIDE DEF L
<1>2. [[work[a] EXCEPT !.step = "drain"] EXCEPT !.overlooked = L] =
        [work[a] EXCEPT !.step = "drain", !.kind = work[a].kind, !.overlooked = L]
  BY <1>1 DEF Works
<1>3. work' = [work EXCEPT ![a] = [[work[a] EXCEPT !.step = "drain"] EXCEPT !.overlooked = L]]
  BY <1>1 DEF L
<1>4. QED
  BY <1>1, <1>2, <1>3 DEF GoesOn, L

-----------------------------------------------------------------------------
(* What a step of the engine does.                                         *)

\* The steps forward, each with the guard it passes.
Forward(a, s, k) ==
  LET w == work[a] IN
  \/ w.step = "observe" /\ s = "gate" /\ k = w.kind
  \/ w.step = "observe" /\ s = "configuration" /\ k = "configuration"
  \/ /\ w.step = "configuration" /\ s = AfterEndpointGate /\ k = w.kind
     /\ Class(a) = "Updatable" \/ a = "hook"
  \/ w.step = "configuration" /\ s = "endpoint" /\ k = "endpoint" /\ a = "controller"
  \/ /\ w.step = "endpoint" /\ s = AfterEndpointGate /\ k = w.kind
     /\ endpointUpdateGate(w.node, w.spec.config.endpoint)
  \/ /\ w.step = "gate" /\ s = "drain" /\ k = w.kind
     /\ w.node \in ControlPlanes => controlPlaneUpgradeSafe(w.node)
  \/ w.step = "drain" /\ s = "restart" /\ k = w.kind
  \/ w.step = "restart" /\ s = "applied" /\ k = w.kind

\* Work ends or goes on.
WorkMoves(a) ==
  Ended(a) \/ \E s \in Steps, k \in Kinds : GoesOn(a, s, k) /\ Forward(a, s, k)

\* Only the node worked on changes: it is restarted, its configuration replaced or
\* staged, at the last step only.
NodeMoves(a) ==
  LET w == work[a]
      n == w.node IN
  /\ node' \in [Nodes -> NodeStates] /\ \A m \in Nodes : m # n => node'[m] = node[m]
  /\ \/ node'[n].phase = node[n].phase
     \/ w.step = "restart" /\ ~ApplyOnly(a) /\ Reachable(n) /\ node'[n].phase = RestartPhase(n)
  /\ \/ node'[n].config = node[n].config
     \/ w.step = "restart" /\ w.kind # "image" /\ node'[n].config = w.spec.config
  /\ \/ node'[n].staged = node[n].staged
     \/ w.step = "restart" /\ w.kind # "image" /\ node'[n].staged = w.spec.config

Moves(a) ==
  /\ work[a] # Idle /\ WorkMoves(a) /\ NodeMoves(a)
  /\ wanted' = wanted /\ capi' \in [Nodes -> CapiStates] /\ lease' \in Leases /\ faults' \in 0..MaxFaults

\* A change of the node worked on is a change of that node only.
LEMMA NodeChange ==
  ASSUME TypeOK, NEW a \in Actors, work[a] # Idle, NEW v \in NodeStates,
         node' = [node EXCEPT ![work[a].node] = v],
         LET w == work[a]
             n == w.node IN
           /\ \/ v.phase = node[n].phase
              \/ w.step = "restart" /\ ~ApplyOnly(a) /\ Reachable(n) /\ v.phase = RestartPhase(n)
           /\ \/ v.config = node[n].config
              \/ w.step = "restart" /\ w.kind # "image" /\ v.config = w.spec.config
           /\ \/ v.staged = node[n].staged
              \/ w.step = "restart" /\ w.kind # "image" /\ v.staged = w.spec.config
  PROVE  NodeMoves(a)
<1>1. work[a].node \in Nodes /\ node \in [Nodes -> NodeStates]
  BY InFlight, TypeParts
<1>2. node' \in [Nodes -> NodeStates] /\ node'[work[a].node] = v /\ \A m \in Nodes : m # work[a].node => node'[m] = node[m]
  BY <1>1
<1>3. QED
  BY <1>2 DEF NodeMoves

\* No change at all.
LEMMA NodeRests ==
  ASSUME TypeOK, NEW a \in Actors, work[a] # Idle, node' = node
  PROVE  NodeMoves(a)
<1>1. node \in [Nodes -> NodeStates]
  BY TypeParts
<1>2. QED
  BY <1>1 DEF NodeMoves

\* A cordon that is put on or taken away.
LEMMA CordonMoves ==
  ASSUME TypeOK, NEW a \in Actors, work[a] # Idle,
         node' = [node EXCEPT ![work[a].node] = Uncordoned(work[a].node)]
         \/ node' = [node EXCEPT ![work[a].node] = cordonNode(work[a].node)]
  PROVE  NodeMoves(a)
<1> DEFINE n == work[a].node
<1>1. n \in Nodes /\ node[n] \in NodeStates
  BY InFlight, NodeFacts
<1>2. ASSUME NEW v \in {Uncordoned(n), cordonNode(n)}
      PROVE  v \in NodeStates /\ v.phase = node[n].phase /\ v.config = node[n].config /\ v.staged = node[n].staged
  <2>1. v = node[n] \/ \E x \in {"none", "user", "provider"} : v = [node[n] EXCEPT !.cordon = x]
    BY <1>2 DEF Uncordoned, cordonNode
  <2> HIDE DEF n
  <2>2. ASSUME NEW x \in {"none", "user", "provider"}, v = [node[n] EXCEPT !.cordon = x]
        PROVE  v \in NodeStates /\ v.phase = node[n].phase /\ v.config = node[n].config /\ v.staged = node[n].staged
    BY <1>1, <2>2 DEF NodeStates
  <2>3. QED
    BY <1>1, <2>1, <2>2
<1>3. QED
  BY <1>2, NodeChange

\* Every step of the engine, and of the controller's endpoint gate, is of this form.
LEMMA EngineMoves ==
  ASSUME TypeOK, NEW a \in Actors, EngineStep(a) \/ (a = "controller" /\ ControllerStep)
  PROVE  Moves(a)
<1> USE UpdateAssumption
<1> DEFINE w == work[a]
           n == work[a].node
<1>t. /\ lease \in Leases /\ faults \in 0..MaxFaults /\ Actors = {"controller", "hook"}
      /\ capi \in [Nodes -> CapiStates]
  BY TypeParts DEF Actors
<1>w. work[a] # Idle
  <2>1. work[a].step \in Steps
    BY DEF EngineStep, ControllerStep, ObserveUnreachable, StopRolledBack, applyTalosUpgrade, OtherImage,
      finalizeObservedImageUpgrade, DesiredImage, verifyConfigurationRecovered, AtConfiguration,
      configurationUpdateFailure, reconcileMachineConfiguration, PassRebootGate, enforceDrainPolicy,
      ApplyConfigurationUpdate, ApplyFails, observeReboot, acquireEndpointLease, PassEndpointGate, Steps
  <2>2. QED
    BY <2>1, InFlight
<1>f. /\ n \in Nodes /\ work[a] \in Works /\ work[a].kind \in Kinds /\ work[a].spec.image \in 1..MaxImage
      /\ work[a].spec.config \in Config /\ node[n] \in NodeStates /\ machine[n].configured \in BOOLEAN
  BY <1>w, InFlight, NodeFacts
<1>e. /\ Stop(a) => Ended(a)
      /\ \A u \in {"True", "Mismatch", "Unreachable", "RolledBack"}, c \in BOOLEAN, r \in BOOLEAN :
           Report(a, u, c, r) => Ended(a)
  BY <1>w, Stops, Reports
<1>g. \A s \in Steps : work[a].step # "gate" /\ GoOn(a, s) /\ machine' = machine => GoesOn(a, s, work[a].kind)
  BY <1>w, GoOnKeepsKind
<1>s. AfterEndpointGate \in Steps
  BY DEF AfterEndpointGate, Steps
<1>r. node' = node => NodeMoves(a)
  BY <1>w, NodeRests
<1>1. CASE ObserveUnreachable(a) \/ StopRolledBack(a)
  <2>1. Ended(a)
    BY <1>1, <1>e, <1>f DEF ObserveUnreachable, StopRolledBack
  <2>2. UNCHANGED <<wanted, capi, node, lease, faults>>
    BY <1>1 DEF ObserveUnreachable, StopRolledBack
  <2>3. QED
    BY <2>1, <2>2, <1>t, <1>w, <1>r DEF Moves, WorkMoves
<1>2. CASE applyTalosUpgrade(a)
  <2>1. WorkMoves(a)
    <3>1. CASE Stop(a)
      BY <3>1, <1>e DEF WorkMoves
    <3>2. CASE GoOn(a, "gate") /\ machine' = machine
      <4>1. GoesOn(a, "gate", work[a].kind) /\ "gate" \in Steps
        BY <1>2, <3>2, <1>g DEF Steps, applyTalosUpgrade, OtherImage
      <4>2. Forward(a, "gate", work[a].kind)
        BY <1>2 DEF Forward, applyTalosUpgrade, OtherImage
      <4>3. QED
        BY <4>1, <4>2, <1>f DEF WorkMoves
    <3>3. QED
      BY <1>2, <3>1, <3>2 DEF applyTalosUpgrade
  <2>2. UNCHANGED <<wanted, capi, node, lease, faults>>
    BY <1>2 DEF applyTalosUpgrade
  <2>3. QED
    BY <2>1, <2>2, <1>t, <1>w, <1>r DEF Moves
<1>3. CASE finalizeObservedImageUpgrade(a)
  <2>1. CASE Report(a, "True", machine[n].configured, FALSE) /\ node' = node
    <3>1. UNCHANGED <<wanted, capi, lease, faults>>
      BY <1>3 DEF finalizeObservedImageUpgrade
    <3>2. QED
      BY <2>1, <3>1, <1>e, <1>f, <1>t, <1>w, <1>r DEF Moves, WorkMoves
  <2>2. CASE /\ work' = [work EXCEPT ![a].step = "configuration", ![a].kind = "configuration"]
             /\ machine' = machine
             /\ node' = node \/ node' = [node EXCEPT ![n] = Uncordoned(n)]
    <3>1. GoesOn(a, "configuration", "configuration")
      <4>1. work[a].step # "gate" /\ "configuration" \in Steps /\ "configuration" \in Kinds
        BY <1>3 DEF finalizeObservedImageUpgrade, DesiredImage, Steps, Kinds
      <4>2. QED
        BY <2>2, <4>1, <1>w, GoesOnOutsideTheGate
    <3>2. Forward(a, "configuration", "configuration")
      BY <1>3 DEF Forward, finalizeObservedImageUpgrade, DesiredImage
    <3>3. WorkMoves(a)
      BY <3>1, <3>2 DEF WorkMoves, Steps, Kinds
    <3>4. NodeMoves(a)
      BY <2>2, <1>w, <1>r, CordonMoves
    <3>5. UNCHANGED <<wanted, capi, lease, faults>>
      BY <1>3 DEF finalizeObservedImageUpgrade
    <3>6. QED
      BY <3>3, <3>4, <3>5, <1>t, <1>w DEF Moves
  <2>3. QED
    BY <1>3, <2>1, <2>2 DEF finalizeObservedImageUpgrade
<1>4. CASE verifyConfigurationRecovered(a)
  <2>1. Ended(a)
    BY <1>4, <1>e DEF verifyConfigurationRecovered
  <2>2. NodeMoves(a)
    BY <1>4, <1>w, <1>r, CordonMoves DEF verifyConfigurationRecovered
  <2>3. UNCHANGED <<wanted, lease, faults>>
    BY <1>4 DEF verifyConfigurationRecovered
  <2>4. capi' \in [Nodes -> CapiStates]
    <3>1. [capi[n] EXCEPT !.updating = FALSE] \in CapiStates
      BY <1>f, <1>t DEF CapiStates
    <3>2. capi' = capi \/ capi' = [capi EXCEPT ![n] = [capi[n] EXCEPT !.updating = FALSE]]
      BY <1>4 DEF verifyConfigurationRecovered
    <3>3. QED
      BY <3>1, <3>2, <1>f, <1>t
  <2>5. QED
    BY <2>1, <2>2, <2>3, <2>4, <1>t, <1>w DEF Moves, WorkMoves
<1>5. CASE configurationUpdateFailure(a) \/ observeReboot(a)
  <2>1. Ended(a)
    BY <1>5, <1>e DEF configurationUpdateFailure, observeReboot
  <2>2. UNCHANGED <<wanted, capi, node, lease, faults>>
    BY <1>5 DEF configurationUpdateFailure, observeReboot
  <2>3. QED
    BY <2>1, <2>2, <1>t, <1>w, <1>r DEF Moves, WorkMoves
<1>6. CASE reconcileMachineConfiguration(a)
  <2>1. GoesOn(a, AfterEndpointGate, work[a].kind)
    BY <1>6, <1>g, <1>s DEF reconcileMachineConfiguration, AtConfiguration
  <2>2. Forward(a, AfterEndpointGate, work[a].kind)
    BY <1>6 DEF Forward, reconcileMachineConfiguration, AtConfiguration
  <2>3. UNCHANGED <<wanted, capi, node, lease, faults>>
    BY <1>6 DEF reconcileMachineConfiguration
  <2>4. QED
    BY <2>1, <2>2, <2>3, <1>f, <1>s, <1>t, <1>w, <1>r DEF Moves, WorkMoves
<1>7. CASE PassRebootGate(a)
  <2>1. WorkMoves(a)
    <3>1. CASE Stop(a)
      BY <3>1, <1>e DEF WorkMoves
    <3>2. CASE /\ work' = [work EXCEPT ![a].step = "drain", ![a].overlooked = Leaving(n)]
               /\ machine' = machine /\ (n \in ControlPlanes => controlPlaneUpgradeSafe(n))
      <4>1. GoesOn(a, "drain", work[a].kind) /\ "drain" \in Steps
        BY <1>7, <3>2, <1>w, GateOverlooks DEF Steps, PassRebootGate
      <4>2. Forward(a, "drain", work[a].kind)
        BY <1>7, <3>2 DEF Forward, PassRebootGate
      <4>3. QED
        BY <4>1, <4>2, <1>f DEF WorkMoves
    <3>3. QED
      BY <1>7, <3>1, <3>2 DEF PassRebootGate, Leaving
  <2>2. UNCHANGED <<wanted, capi, node, lease, faults>>
    BY <1>7 DEF PassRebootGate
  <2>3. QED
    BY <2>1, <2>2, <1>t, <1>w, <1>r DEF Moves
<1>8. CASE enforceDrainPolicy(a)
  <2>1. WorkMoves(a)
    <3>1. CASE Stop(a)
      BY <3>1, <1>e DEF WorkMoves
    <3>2. CASE GoOn(a, "restart") /\ machine' = machine
      <4>1. GoesOn(a, "restart", work[a].kind) /\ "restart" \in Steps
        BY <1>8, <3>2, <1>g DEF Steps, enforceDrainPolicy
      <4>2. Forward(a, "restart", work[a].kind)
        BY <1>8 DEF Forward, enforceDrainPolicy
      <4>3. QED
        BY <4>1, <4>2, <1>f DEF WorkMoves
    <3>3. QED
      BY <1>8, <3>1, <3>2 DEF enforceDrainPolicy
  <2>2. NodeMoves(a)
    BY <1>8, <1>w, CordonMoves DEF enforceDrainPolicy
  <2>3. UNCHANGED <<wanted, capi, lease>> /\ faults' \in 0..MaxFaults
    BY <1>8, <1>t DEF enforceDrainPolicy
  <2>4. QED
    BY <2>1, <2>2, <2>3, <1>t, <1>w DEF Moves
<1>9. CASE acquireEndpointLease /\ a = "controller"
  <2>1. CASE lease' = lease /\ Stop(a)
    <3>1. UNCHANGED <<wanted, capi, node, faults>>
      BY <1>9 DEF acquireEndpointLease
    <3>2. QED
      BY <2>1, <3>1, <1>e, <1>t, <1>w, <1>r DEF Moves, WorkMoves
  <2>2. CASE /\ lease' = [holder |-> n, expired |-> FALSE] /\ machine' = machine
             /\ work' = [work EXCEPT ![a].step = "endpoint", ![a].kind = "endpoint"]
    <3>1. GoesOn(a, "endpoint", "endpoint")
      <4>1. work[a].step # "gate" /\ "endpoint" \in Steps /\ "endpoint" \in Kinds
        BY <1>9 DEF acquireEndpointLease, AtConfiguration, Steps, Kinds
      <4>2. QED
        BY <2>2, <4>1, <1>w, GoesOnOutsideTheGate
    <3>2. Forward(a, "endpoint", "endpoint")
      BY <1>9 DEF Forward, acquireEndpointLease, AtConfiguration
    <3>3. WorkMoves(a)
      BY <3>1, <3>2 DEF WorkMoves, Steps, Kinds
    <3>4. lease' \in Leases
      BY <2>2, <1>f DEF Leases
    <3>5. UNCHANGED <<wanted, capi, node, faults>>
      BY <1>9 DEF acquireEndpointLease
    <3>6. QED
      BY <3>3, <3>4, <3>5, <1>t, <1>w, <1>r DEF Moves
  <2>3. QED
    BY <1>9, <2>1, <2>2 DEF acquireEndpointLease
<1>l. (lease' = lease \/ releaseEndpointLease(n)) => lease' \in Leases
  <2>1. [holder |-> 0, expired |-> FALSE] \in Leases
    BY DEF Leases
  <2>2. QED
    BY <2>1, <1>t DEF releaseEndpointLease
<1>10. CASE PassEndpointGate /\ a = "controller"
  <2>1. WorkMoves(a)
    <3>1. CASE Stop(a)
      BY <3>1, <1>e DEF WorkMoves
    <3>2. CASE GoOn(a, AfterEndpointGate) /\ machine' = machine /\ endpointUpdateGate(n, work[a].spec.config.endpoint)
      <4>1. GoesOn(a, AfterEndpointGate, work[a].kind)
        BY <1>10, <3>2, <1>g, <1>s DEF PassEndpointGate
      <4>2. Forward(a, AfterEndpointGate, work[a].kind)
        BY <1>10, <3>2 DEF Forward, PassEndpointGate
      <4>3. QED
        BY <4>1, <4>2, <1>f, <1>s DEF WorkMoves
    <3>3. QED
      BY <1>10, <3>1, <3>2 DEF PassEndpointGate
  <2>2. UNCHANGED <<wanted, capi, node, faults>> /\ lease' \in Leases
    BY <1>10, <1>l DEF PassEndpointGate
  <2>3. QED
    BY <2>1, <2>2, <1>t, <1>w, <1>r DEF Moves
<1>p. /\ Prepared(a) \in NodeStates /\ Prepared(a).phase = node[n].phase
      /\ Prepared(a).config = node[n].config
      /\ Prepared(a).staged = node[n].staged \/ (work[a].kind # "image" /\ Prepared(a).staged = work[a].spec.config)
  <2>1. CASE work[a].kind = "image"
    BY <2>1, <1>f DEF Prepared, PerformImageUpgrade, Upgrade, NodeStates
  <2>2. CASE work[a].kind # "image"
    BY <2>2, <1>f DEF Prepared, ApplyStaged, NodeStates
  <2>3. QED
    BY <2>1, <2>2
<1>11. CASE ApplyConfigurationUpdate(a)
  <2>1. GoesOn(a, "applied", work[a].kind) /\ Forward(a, "applied", work[a].kind) /\ "applied" \in Steps
    <3>1. GoOn(a, "applied") /\ machine' = machine /\ work[a].step = "restart" /\ "applied" \in Steps
      BY <1>11 DEF ApplyConfigurationUpdate, Steps
    <3>2. QED
      BY <3>1, <1>g DEF Forward
  <2>2. NodeMoves(a)
    <3>1. work[a].step = "restart" /\ Reachable(n)
      BY <1>11 DEF ApplyConfigurationUpdate
    <3>2. CASE ApplyOnly(a)
      <4> DEFINE v == [node[n] EXCEPT !.config = work[a].spec.config]
      <4>1. node' = [node EXCEPT ![n] = v]
        BY <1>11, <3>2 DEF ApplyConfigurationUpdate, ApplyConfigurationNoReboot
      <4>2. /\ v \in NodeStates /\ v.phase = node[n].phase /\ v.config = work[a].spec.config
            /\ v.staged = node[n].staged /\ work[a].kind # "image"
        BY <1>f, <3>2 DEF NodeStates, ApplyOnly
      <4> HIDE DEF v
      <4>3. QED
        BY <4>1, <4>2, <3>1, <1>w, NodeChange
    <3>3. CASE ~ApplyOnly(a)
      <4> DEFINE v == [Prepared(a) EXCEPT !.phase = RestartPhase(n)]
      <4>1. node' = [node EXCEPT ![n] = v]
        BY <1>11, <3>3 DEF ApplyConfigurationUpdate
      <4>2. RestartPhase(n) \in Phases
        BY DEF RestartPhase, Phases
      <4>3. /\ v \in NodeStates /\ v.phase = RestartPhase(n)
            /\ v.config = Prepared(a).config /\ v.staged = Prepared(a).staged
        BY <4>2, <1>p DEF NodeStates
      <4> HIDE DEF v
      <4>4. QED
        BY <4>1, <4>3, <3>1, <3>3, <1>p, <1>w, NodeChange
    <3>4. QED
      BY <3>2, <3>3
  <2>3. UNCHANGED <<wanted, capi, lease, faults>>
    BY <1>11 DEF ApplyConfigurationUpdate
  <2>4. QED
    BY <2>1, <2>2, <2>3, <1>f, <1>t, <1>w DEF Moves, WorkMoves
<1>12. CASE ApplyFails(a)
  <2>1. Ended(a) /\ work[a].step = "restart"
    BY <1>12, <1>e DEF ApplyFails
  <2>2. node' = node \/ node' = [node EXCEPT ![n] = node[n]] \/ node' = [node EXCEPT ![n] = Prepared(a)]
    BY <1>12 DEF ApplyFails
  <2>3. NodeMoves(a)
    BY <2>1, <2>2, <1>f, <1>p, <1>w, <1>r, NodeChange
  <2>4. UNCHANGED <<wanted, capi>> /\ faults' \in 0..MaxFaults /\ lease' \in Leases
    BY <1>12, <1>t, <1>l DEF ApplyFails
  <2>5. QED
    BY <2>1, <2>3, <2>4, <1>t, <1>w DEF Moves, WorkMoves
<1>13. QED
  BY <1>1, <1>2, <1>3, <1>4, <1>5, <1>6, <1>7, <1>8, <1>9, <1>10, <1>11, <1>12 DEF EngineStep, ControllerStep

-----------------------------------------------------------------------------
(* Types and the order of the endpoint.                                    *)

\* Without a stored endpoint the gate lets only a node pass that has none before it.
LEMMA GateIsShut ==
  ASSUME Inv, NEW n \in Nodes, Follows(n), NEW e \in 1..MaxEndpoint
  PROVE  ~endpointUpdateGate(n, e)
<1>1. PICK c \in ControlPlanes : n \in ControlPlanes => c < n
  BY DEF Follows
<1>2. machine[c].endpoint = 0
  BY <1>1 DEF Inv, Unstored, Nodes
<1>3. QED
  BY <1>1, <1>2 DEF endpointUpdateGate, machineEndpointConverged

\* A change that needs no endpoint gate leaves the endpoint alone.
LEMMA UpdatableKeepsEndpoint ==
  ASSUME TypeOK, NEW a \in Actors, work[a] # Idle, Class(a) = "Updatable"
  PROVE  work[a].spec.config.endpoint = node[work[a].node].config.endpoint
BY DEF Class, ClassifyConfigurationChange

\* The engine's steps keep work on course.
LEMMA CourseKept ==
  ASSUME Inv, NEW a \in Actors, work[a] # Idle, NEW s \in Steps, NEW k \in Kinds,
         GoesOn(a, s, k), Forward(a, s, k)
  PROVE  OnCourse(a, work'[a])
<1> DEFINE w == work[a]
           v == work'[a]
<1>1. TypeOK /\ OnCourse(a, w)
  BY DEF Inv, Course
<1>2. v.step = s /\ v.kind = k /\ v.node = w.node /\ v.spec = w.spec
  BY <1>1, Advances
<1>3. w.node \in Nodes /\ w.spec.config.endpoint \in 1..MaxEndpoint
  BY <1>1, InFlight
<1>4. AfterEndpointGate \in {"restart", "gate"}
  BY DEF AfterEndpointGate
<1>5. w.step = "configuration" /\ (Class(a) = "Updatable" \/ a = "hook") /\ Follows(w.node) =>
        w.spec.config.endpoint = 1
  <2>1. a = "hook" => ~Follows(w.node)
    BY <1>1 DEF OnCourse, Follows
  <2>2. Class(a) = "Updatable" /\ Follows(w.node) => w.spec.config.endpoint = 1
    BY <1>1, <1>3, UpdatableKeepsEndpoint DEF Inv, Behind
  <2>3. QED
    BY <2>1, <2>2
<1>6. endpointUpdateGate(w.node, w.spec.config.endpoint) => ~Follows(w.node)
  BY <1>3, GateIsShut
<1> HIDE DEF w, v
<1>7. OnCourse(a, v)
  <2>1. CASE s \in {"gate", "restart"} /\ w.step # "endpoint" /\ w.step # "configuration"
    BY <2>1, <1>1, <1>2, <1>4 DEF OnCourse, Forward, w
  <2>2. CASE w.step \in {"endpoint", "configuration"} /\ s \in {"gate", "restart"}
    <3>1. Follows(w.node) => w.spec.config.endpoint = 1
      BY <2>2, <1>4, <1>5, <1>6 DEF Forward, w
    <3>2. QED
      BY <3>1, <2>2, <1>1, <1>2 DEF OnCourse
  <2>3. CASE s \notin {"gate", "restart"}
    BY <2>3, <1>1, <1>2, <1>4 DEF OnCourse, Forward, w
  <2>4. QED
    BY <2>1, <2>2, <2>3
<1>8. QED
  BY <1>7 DEF v

\* The engine's steps.
LEMMA EngineInv ==
  ASSUME Inv, NEW a \in Actors, Moves(a)
  PROVE  Inv'
<1> USE UpdateAssumption
<1>1. TypeOK /\ work[a] # Idle /\ WorkMoves(a) /\ NodeMoves(a)
  BY DEF Inv, Moves
<1>2. work[a].node \in Nodes
  BY <1>1, InFlight
<1>3. /\ work' \in [Actors -> Works \union {Idle}] /\ \A b \in Actors : b # a => work'[b] = work[b]
      /\ machine' \in [Nodes -> TartMachineStatus]
      /\ \A n \in Nodes : machine'[n].endpoint = machine[n].endpoint
  <2>1. CASE Ended(a)
    BY <1>1, <2>1, TypeParts DEF Ended
  <2>2. ASSUME NEW s \in Steps, NEW k \in Kinds, GoesOn(a, s, k)
        PROVE  /\ work' \in [Actors -> Works \union {Idle}] /\ \A b \in Actors : b # a => work'[b] = work[b]
               /\ machine' = machine
    BY <1>1, <2>2, Advances DEF GoesOn
  <2>3. QED
    BY <1>1, <2>1, <2>2, TypeParts DEF WorkMoves
<1>4. TypeOK'
  <2>1. /\ wanted' \in Desired /\ capi' \in [Nodes -> CapiStates] /\ node' \in [Nodes -> NodeStates]
        /\ lease' \in Leases /\ faults' \in 0..MaxFaults
    BY <1>1, TypeParts DEF Moves, NodeMoves
  <2>2. QED
    BY <2>1, <1>3 DEF TypeOK, CapiStates, NodeStates, Leases, Works, Steps, Kinds
<1>5. Unstored'
  BY <1>3 DEF Inv, Unstored
<1>6. Behind'
  <2> SUFFICES ASSUME NEW n \in Nodes, Follows(n)
               PROVE  node'[n].config.endpoint = 1 /\ node'[n].staged.endpoint \in {0, 1}
    BY DEF Behind, Follows
  <2>1. node[n].config.endpoint = 1 /\ node[n].staged.endpoint \in {0, 1}
    BY DEF Inv, Behind
  <2>2. CASE n # work[a].node
    BY <1>1, <2>1, <2>2 DEF NodeMoves
  <2>3. CASE n = work[a].node
    <3>1. work[a].step = "restart" /\ work[a].kind # "image" => work[a].spec.config.endpoint = 1
      BY <1>1, <2>3 DEF Inv, Course, OnCourse
    <3>2. QED
      BY <1>1, <2>1, <2>3, <3>1 DEF NodeMoves
  <2>4. QED
    BY <2>2, <2>3
<1>7. Course'
  <2> SUFFICES ASSUME NEW b \in Actors, work'[b] # Idle PROVE OnCourse(b, work'[b])
    BY DEF Course, OnCourse, Follows
  <2>1. CASE b # a
    BY <1>3, <2>1 DEF Inv, Course
  <2>2. CASE b = a
    <3>1. ~Ended(a)
      BY <2>2, <1>1, TypeParts DEF Ended
    <3>2. PICK s \in Steps, k \in Kinds : GoesOn(a, s, k) /\ Forward(a, s, k)
      BY <1>1, <3>1 DEF WorkMoves
    <3>3. QED
      BY <1>1, <2>2, <3>2, CourseKept
  <2>3. QED
    BY <2>1, <2>2
<1>8. QED
  BY <1>4, <1>5, <1>6, <1>7 DEF Inv

\* A node's own step: what it boots into was staged on it.
NodeTurns(n) ==
  /\ node' \in [Nodes -> NodeStates] /\ \A m \in Nodes : m # n => node'[m] = node[m]
  /\ node'[n].config \in {node[n].config} \union ({node[n].staged} \ {NoConfig})
  /\ node'[n].staged \in {node[n].staged, NoConfig}
  /\ \/ node'[n].phase \in {node[n].phase, "up", "away"}
     \/ node[n].phase = "leaving"

\* The steps of the nodes.
LEMMA NodesTurn ==
  ASSUME TypeOK, NEW n \in Nodes, NodeStep(n) \/ UserCordons(n) \/ Outage(n) \/ RollsBack(n)
  PROVE  NodeTurns(n) /\ UNCHANGED <<wanted, machine, capi, lease, work>> /\ faults' \in 0..MaxFaults
<1> USE UpdateAssumption
<1>1. node[n] \in NodeStates /\ node \in [Nodes -> NodeStates] /\ faults \in 0..MaxFaults
  BY NodeFacts, TypeParts
<1>2. PICK v : ChangeNode(n, v) /\ v \in NodeStates /\ v.staged \in {node[n].staged, NoConfig}
               /\ v.config \in {node[n].config} \union ({node[n].staged} \ {NoConfig})
               /\ (v.phase \in {node[n].phase, "up", "away"} \/ node[n].phase = "leaving")
  <2>1. CASE Leaves(n)
    <3> DEFINE v == [node[n] EXCEPT !.phase = "restarting"]
    <3>1. ChangeNode(n, v) /\ node[n].phase = "leaving"
      BY <2>1 DEF Leaves
    <3>2. v \in NodeStates /\ v.staged = node[n].staged /\ v.config = node[n].config
      BY <1>1 DEF NodeStates, Phases
    <3> HIDE DEF v
    <3>3. QED
      BY <3>1, <3>2
  <2>2. CASE Boots(n)
    <3> DEFINE v == [node[n] EXCEPT !.phase = "up", !.kubelet = FALSE, !.image = node[n].next,
                      !.config = IF node[n].staged = NoConfig THEN @ ELSE node[n].staged,
                      !.staged = NoConfig]
    <3>1. ChangeNode(n, v)
      BY <2>2 DEF Boots
    <3>2. v.phase = "up" /\ v.staged = NoConfig
          /\ v.config = IF node[n].staged = NoConfig THEN node[n].config ELSE node[n].staged
      BY <1>1 DEF NodeStates
    <3>3. v \in NodeStates
      BY <1>1 DEF NodeStates, Phases
    <3> HIDE DEF v
    <3>4. QED
      BY <3>1, <3>2, <3>3
  <2>3. CASE KubeletReady(n)
    <3> DEFINE v == [node[n] EXCEPT !.kubelet = TRUE]
    <3>1. ChangeNode(n, v)
      BY <2>3 DEF KubeletReady
    <3>2. v \in NodeStates /\ v.phase = node[n].phase /\ v.staged = node[n].staged /\ v.config = node[n].config
      BY <1>1 DEF NodeStates
    <3> HIDE DEF v
    <3>3. QED
      BY <3>1, <3>2
  <2>4. CASE UserCordons(n)
    <3> DEFINE v == [node[n] EXCEPT !.cordon = "user"]
    <3>1. ChangeNode(n, v)
      BY <2>4 DEF UserCordons
    <3>2. v \in NodeStates /\ v.phase = node[n].phase /\ v.staged = node[n].staged /\ v.config = node[n].config
      BY <1>1 DEF NodeStates
    <3> HIDE DEF v
    <3>3. QED
      BY <3>1, <3>2
  <2>5. CASE Outage(n)
    <3> DEFINE v == [node[n] EXCEPT !.phase = "away", !.kubelet = FALSE]
    <3>1. ChangeNode(n, v)
      BY <2>5 DEF Outage
    <3>2. v \in NodeStates /\ v.phase = "away" /\ v.staged = node[n].staged /\ v.config = node[n].config
      BY <1>1 DEF NodeStates, Phases
    <3> HIDE DEF v
    <3>3. QED
      BY <3>1, <3>2
  <2>6. CASE RollsBack(n)
    <3> DEFINE v == [node[n] EXCEPT !.phase = "away", !.kubelet = FALSE, !.next = node[n].image - 1]
    <3>1. ChangeNode(n, v)
      BY <2>6 DEF RollsBack
    <3>2. node[n].image - 1 \in 1..MaxImage
      BY <2>6, NodeFacts DEF RollsBack
    <3>3. v \in NodeStates /\ v.phase = "away" /\ v.staged = node[n].staged /\ v.config = node[n].config
      BY <1>1, <3>2 DEF NodeStates, Phases
    <3> HIDE DEF v
    <3>4. QED
      BY <3>1, <3>3
  <2>7. QED
    BY <2>1, <2>2, <2>3, <2>4, <2>5, <2>6 DEF NodeStep
<1>3. node' = [node EXCEPT ![n] = v] /\ UNCHANGED <<wanted, machine, capi, lease, work>>
  BY <1>2 DEF ChangeNode
<1>4. faults' \in 0..MaxFaults
  BY <1>1 DEF NodeStep, Leaves, Boots, KubeletReady, UserCordons, Outage, RollsBack
<1>5. node' \in [Nodes -> NodeStates] /\ node'[n] = v /\ \A m \in Nodes : m # n => node'[m] = node[m]
  BY <1>1, <1>2, <1>3
<1>6. QED
  BY <1>2, <1>3, <1>4, <1>5 DEF NodeTurns

\* Work that begins.
Begins(a, n) ==
  /\ work[a] = Idle /\ (a = "hook" => n \in Hooked)
  /\ work' = [work EXCEPT ![a] = [step |-> "observe", node |-> n, spec |-> wanted, kind |-> "image",
                            overlooked |-> {}]]
  /\ UNCHANGED <<wanted, machine, node, lease, faults>> /\ capi' \in [Nodes -> CapiStates]

\* Inv holds initially.
LEMMA InitialInv == Init => Inv
<1> SUFFICES ASSUME Init PROVE Inv
  OBVIOUS
<1> USE UpdateAssumption
<1>1. wanted \in Desired /\ wanted.config \in Config /\ wanted.config.endpoint = 1
  BY DEF Init, Desired, Config
<1>2. machine \in [Nodes -> TartMachineStatus] /\ Unstored
  BY DEF Init, TartMachineStatus, Unstored
<1>3. node \in [Nodes -> NodeStates]
  BY <1>1 DEF Init, NodeStates, Phases
<1>4. capi \in [Nodes -> CapiStates] /\ lease \in Leases /\ faults \in 0..MaxFaults
  BY DEF Init, Leases, CapiStates
<1>5. work \in [Actors -> Works \union {Idle}] /\ Course
  BY DEF Init, Course
<1>6. Behind
  <2>1. \A n \in Nodes : node[n].config = wanted.config /\ node[n].staged = NoConfig
    BY DEF Init
  <2>2. QED
    BY <1>1, <2>1 DEF Behind, NoConfig
<1>7. QED
  BY <1>1, <1>2, <1>3, <1>4, <1>5, <1>6, TypeParts DEF Inv

\* The steps of Next by what they do.
LEMMA StepForms ==
  ASSUME TypeOK, [Next]_vars
  PROVE  \/ \E a \in Actors : Moves(a)
         \/ \E n \in Nodes : NodeTurns(n) /\ UNCHANGED <<wanted, machine, capi, lease, work>> /\ faults' \in 0..MaxFaults
         \/ \E a \in Actors, n \in Nodes : Begins(a, n)
         \/ \E a \in Actors : CallFails(a)
         \/ /\ UNCHANGED <<machine, node, work, faults>>
            /\ wanted' \in Desired /\ capi' \in [Nodes -> CapiStates] /\ lease' \in Leases
<1> USE UpdateAssumption
<1>t. /\ wanted \in Desired /\ machine \in [Nodes -> TartMachineStatus]
      /\ capi \in [Nodes -> CapiStates] /\ lease \in Leases
  BY TypeParts
<1>1. CASE UNCHANGED vars
  BY <1>1, <1>t DEF vars
<1>2. ASSUME NEW w \in Wishes, Want([image |-> w[1], config |-> [settings |-> w[2], endpoint |-> w[3]]])
      PROVE  UNCHANGED <<machine, node, work, faults, capi, lease>> /\ wanted' \in Desired
  <2>1. w[1] \in 1..MaxImage /\ w[2] \in 1..MaxSettings /\ w[3] \in 1..MaxEndpoint
    BY <1>2
  <2>2. QED
    BY <2>1, <1>2 DEF Want, Desired, Config
<1>3. ASSUME NEW n \in Nodes, MirrorReady(n)
      PROVE  UNCHANGED <<machine, node, work, faults, wanted, lease>> /\ capi' \in [Nodes -> CapiStates]
  <2>1. machine[n].ready \in BOOLEAN
    BY <1>t DEF TartMachineStatus
  <2>2. [capi[n] EXCEPT !.ready = machine[n].ready] \in CapiStates
    BY <2>1, <1>t DEF CapiStates
  <2>3. capi' = [capi EXCEPT ![n] = [capi[n] EXCEPT !.ready = machine[n].ready]]
    BY <1>3 DEF MirrorReady
  <2>4. QED
    BY <2>2, <2>3, <1>3, <1>t DEF MirrorReady
<1>4. CASE LeaseExpires
  BY <1>4, <1>t DEF LeaseExpires, Leases
<1>5. ASSUME NEW n \in Nodes, reconcileTalos(n) \/ updateMachineWithClient(n)
      PROVE  \E a \in Actors : Begins(a, n)
  <2>1. CASE reconcileTalos(n)
    <3>1. Begins("controller", n)
      BY <2>1, <1>t DEF reconcileTalos, Begins
    <3>2. QED
      BY <3>1 DEF Actors
  <2>2. CASE updateMachineWithClient(n)
    <3>0. capi' \in [Nodes -> CapiStates]
      <4>1. [capi[n] EXCEPT !.updating = TRUE] \in CapiStates
        BY <1>t DEF CapiStates
      <4>2. capi' = [capi EXCEPT ![n] = [capi[n] EXCEPT !.updating = TRUE]]
        BY <2>2 DEF updateMachineWithClient
      <4>3. QED
        BY <4>1, <4>2, <1>t
    <3>1. Begins("hook", n)
      BY <2>2, <3>0 DEF updateMachineWithClient, Begins
    <3>2. QED
      BY <3>1 DEF Actors
  <2>3. QED
    BY <1>5, <2>1, <2>2
<1>6. CASE ControllerStep
  <2>1. "controller" \in Actors
    BY DEF Actors
  <2>2. Moves("controller")
    BY <1>6, <2>1, EngineMoves
  <2>3. QED
    BY <2>1, <2>2
<1>7. ASSUME NEW a \in Actors, EngineStep(a)
      PROVE  Moves(a)
  BY <1>7, EngineMoves
<1>8. QED
  BY <1>1, <1>2, <1>3, <1>4, <1>5, <1>6, <1>7, <1>t, NodesTurn DEF Next

\* Inv is inductive.
LEMMA InvStep == Inv /\ [Next]_vars => Inv'
<1> SUFFICES ASSUME Inv, [Next]_vars PROVE Inv'
  OBVIOUS
<1> USE UpdateAssumption
<1>t. TypeOK /\ Unstored /\ Behind /\ Course
  BY DEF Inv
<1>p. /\ wanted \in Desired /\ machine \in [Nodes -> TartMachineStatus]
      /\ capi \in [Nodes -> CapiStates] /\ node \in [Nodes -> NodeStates] /\ lease \in Leases
      /\ work \in [Actors -> Works \union {Idle}] /\ faults \in 0..MaxFaults
  BY <1>t, TypeParts
<1>1. ASSUME NEW a \in Actors, Moves(a)
      PROVE  Inv'
  BY <1>1, EngineInv
<1>2. ASSUME NEW n \in Nodes, NodeTurns(n), UNCHANGED <<wanted, machine, capi, lease, work>>, faults' \in 0..MaxFaults
      PROVE  Inv'
  <2>1. TypeOK'
    BY <1>2, <1>t DEF NodeTurns, TypeOK, NodeStates
  <2>2. Unstored' /\ Course'
    BY <1>2, <1>t DEF Unstored, Course, OnCourse, Follows
  <2>3. Behind'
    <3> SUFFICES ASSUME NEW m \in Nodes, Follows(m)
                 PROVE  node'[m].config.endpoint = 1 /\ node'[m].staged.endpoint \in {0, 1}
      BY DEF Behind, Follows
    <3>1. node[m].config.endpoint = 1 /\ node[m].staged.endpoint \in {0, 1}
      BY <1>t DEF Behind
    <3>2. CASE m # n
      BY <1>2, <3>1, <3>2 DEF NodeTurns
    <3>3. CASE m = n
      <4>1. node[m].staged # NoConfig => node[m].staged.endpoint = 1
        <5>1. node[m].staged \in Config \union {NoConfig}
          BY <1>t, NodeFacts
        <5>2. QED
          BY <3>1, <5>1 DEF Config
      <4>2. QED
        BY <1>2, <3>1, <3>3, <4>1 DEF NodeTurns, NoConfig
    <3>4. QED
      BY <3>2, <3>3
  <2>4. QED
    BY <2>1, <2>2, <2>3 DEF Inv
<1>3. ASSUME NEW a \in Actors, NEW n \in Nodes, Begins(a, n)
      PROVE  Inv'
  <2> DEFINE w == [step |-> "observe", node |-> n, spec |-> wanted, kind |-> "image", overlooked |-> {}]
  <2>1. w \in Works /\ w.step = "observe" /\ w.kind = "image" /\ w.node = n
    BY <1>p DEF Works, Steps, Kinds
  <2>2. OnCourse(a, w)
    <3> HIDE DEF w
    <3>1. QED
      BY <1>3, <2>1 DEF OnCourse, Begins
  <2>3. work' = [work EXCEPT ![a] = w]
    BY <1>3 DEF Begins
  <2> HIDE DEF w
  <2>4. work' \in [Actors -> Works \union {Idle}] /\ work'[a] = w /\ \A b \in Actors : b # a => work'[b] = work[b]
    BY <2>1, <2>3, <1>p
  <2>5. Course'
    <3>1. \A b \in Actors : work'[b] # Idle => OnCourse(b, work'[b])
      BY <2>2, <2>4, <1>t DEF Course
    <3>2. QED
      BY <3>1 DEF Course, OnCourse, Follows
  <2>6. UNCHANGED <<wanted, machine, node, lease, faults>> /\ capi' \in [Nodes -> CapiStates]
    BY <1>3 DEF Begins
  <2>7. TypeOK' /\ Unstored' /\ Behind'
    BY <2>4, <2>6, <1>t DEF TypeOK, CapiStates, Unstored, Behind, Follows, Works, Steps, Kinds
  <2>8. QED
    BY <2>5, <2>7 DEF Inv
<1>4. ASSUME NEW a \in Actors, CallFails(a)
      PROVE  Inv'
  <2>1. UNCHANGED <<wanted, machine, capi, node, lease>> /\ faults' \in 0..MaxFaults
    BY <1>4, <1>p DEF CallFails
  <2>2. work' \in [Actors -> Works \union {Idle}] /\ work'[a] = Idle /\ \A b \in Actors : b # a => work'[b] = work[b]
    BY <1>4, <1>p DEF CallFails, End
  <2>3. Course'
    BY <2>2, <1>t DEF Course, OnCourse, Follows
  <2>4. TypeOK' /\ Unstored' /\ Behind'
    BY <2>1, <2>2, <1>t DEF TypeOK, Unstored, Behind, Follows, Works, Steps, Kinds
  <2>5. QED
    BY <2>3, <2>4 DEF Inv
<1>5. CASE /\ UNCHANGED <<machine, node, work, faults>>
           /\ wanted' \in Desired /\ capi' \in [Nodes -> CapiStates] /\ lease' \in Leases
  BY <1>5, <1>t DEF Inv, TypeOK, CapiStates, Unstored, Behind, Course, OnCourse, Follows, Leases
<1>6. QED
  BY <1>1, <1>2, <1>3, <1>4, <1>5, <1>t, StepForms

\* Types and the order of the endpoint hold throughout.
LEMMA Invariant == Spec => []Inv
BY InitialInv, InvStep, PTL DEF Spec

\* TypeOK holds of every behaviour, with the controller and the hook working on the
\* same nodes at once.
THEOREM TypeCorrect == Spec => []TypeOK
<1>1. Inv => TypeOK
  BY DEF Inv
<1>2. QED
  BY <1>1, Invariant, PTL

\* EndpointOrder holds of every behaviour: for any number of nodes, wishes, Lease
\* expiries, reboots and crashes, a node the hook does not update never has a later
\* endpoint than a control plane that comes before it.
THEOREM EndpointInOrder == Spec => []EndpointOrder
<1>1. Inv => EndpointOrder
  <2> SUFFICES ASSUME Inv, NEW n \in Nodes \ Hooked, NEW c \in ControlPlanes, n \in ControlPlanes => c < n
               PROVE  node[n].config.endpoint <= node[c].config.endpoint
    BY DEF EndpointOrder
  <2>1. node[n].config.endpoint = 1
    BY DEF Inv, Behind, Follows
  <2>2. node[c].config.endpoint \in 1..MaxEndpoint
    BY NodeFacts DEF Inv, Nodes
  <2>3. QED
    BY <2>1, <2>2
<1>2. QED
  BY <1>1, Invariant, PTL

-----------------------------------------------------------------------------
(* Restarts that overlap.                                                  *)

\* The controller restarts a node past the gate only without AfterEndpointGate's
\* shortcut, which is for updates that need no reboot.
LEMMA PastEndpointGate ==
  ASSUME AfterEndpointGate = "restart"
  PROVE  ApplyStrategy = "ApplyOnly"
BY DEF AfterEndpointGate

\* A member the gate found healthy is restarting only if it is leaving.
LEMMA HealthyIsUpOrLeaving ==
  ASSUME NEW c, Reachable(c), Restarting(c)
  PROVE  node[c].phase = "leaving"
BY DEF Reachable, Restarting

\* The engine's steps: only the controller, past the gate, tells a control plane to
\* restart.
LEMMA EngineOverlooks ==
  ASSUME Inv, Clear, Hooked \intersect ControlPlanes = {}, NEW a \in Actors, Moves(a)
  PROVE  Clear' /\ Overlooks
<1> DEFINE n == work[a].node
<1>1. TypeOK /\ work[a] # Idle /\ WorkMoves(a) /\ NodeMoves(a) /\ OnCourse(a, work[a])
  BY DEF Inv, Moves, Course
<1>2. n \in Nodes /\ "controller" \in Actors /\ a \in {"controller", "hook"} /\ work[a].step \in Steps
  BY <1>1, InFlight DEF Actors
<1>3. node'[n].phase = node[n].phase \/ (work[a].step = "restart" /\ ~ApplyOnly(a))
  BY <1>1 DEF NodeMoves
<1>4. \A m \in Nodes : m # n => node'[m] = node[m]
  BY <1>1 DEF NodeMoves
<1>5. a = "hook" => n \notin ControlPlanes
  BY <1>1 DEF OnCourse
<1>6. \A c \in ControlPlanes : c # n \/ node'[n].phase = node[n].phase => (Restarting(c)' <=> Restarting(c))
  BY <1>2, <1>4 DEF Restarting, Nodes
<1>7. Overlooks
  <2> SUFFICES ASSUME NEW c \in ControlPlanes, ~Restarting(c), Restarting(c)'
               PROVE  \A d \in ControlPlanes \ {c} : Restarting(d) => d \in work["controller"].overlooked
    BY DEF Overlooks
  <2>1. c = n /\ node'[n].phase # node[n].phase
    BY <1>6
  <2>2. a = "controller" /\ work[a].step = "restart" /\ ~ApplyOnly(a)
    BY <1>2, <1>3, <1>5, <2>1
  <2>3. QED
    BY <1>1, <2>1, <2>2 DEF Clear
<1>8. Clear'
  <2>1. CASE a = "hook"
    <3>1. work'["controller"] = work["controller"]
      <4>1. CASE Ended(a)
        BY <1>1, <1>2, <2>1, <4>1, TypeParts DEF Ended
      <4>2. ASSUME NEW s \in Steps, NEW k \in Kinds, GoesOn(a, s, k)
            PROVE  work'["controller"] = work["controller"]
        BY <1>1, <1>2, <2>1, <4>2, Advances
      <4>3. QED
        BY <1>1, <4>1, <4>2 DEF WorkMoves
    <3>2. \A c \in ControlPlanes : Restarting(c)' <=> Restarting(c)
      BY <1>5, <1>6, <2>1
    <3>3. QED
      BY <3>1, <3>2 DEF Clear, ApplyOnly
  <2>2. CASE a = "controller" /\ Ended(a)
    <3>1. work'["controller"] = Idle
      BY <1>1, <2>2, TypeParts DEF Ended
    <3>2. QED
      BY <3>1 DEF Clear
  <2>3. ASSUME a = "controller", NEW s \in Steps, NEW k \in Kinds, GoesOn(a, s, k), Forward(a, s, k)
        PROVE  Clear'
    <3>1. /\ work'[a].step = s /\ work'[a].kind = k /\ work'[a].node = n
          /\ work'[a].overlooked = Overlooked(a)
      BY <1>1, <2>3, Advances
    <3> SUFFICES ASSUME s \in {"drain", "restart"}, n \in ControlPlanes, ~ApplyOnly(a)',
                        NEW c \in ControlPlanes \ {n}, Restarting(c)
                 PROVE  c \in Overlooked(a)
      <4>1. \A c \in ControlPlanes \ {n} : Restarting(c)' <=> Restarting(c)
        BY <1>6
      <4>2. QED
        BY <2>3, <3>1, <4>1 DEF Clear
    <3>2. ApplyOnly(a)' <=> k # "image" /\ ApplyStrategy = "ApplyOnly"
      BY <3>1 DEF ApplyOnly
    <3>3. work[a].step \in {"gate", "drain"} /\ k = work[a].kind
      <4>1. ~(work[a].step \in {"configuration", "endpoint"} /\ k = work[a].kind /\ s = AfterEndpointGate)
        <5>1. s = "restart" => s # AfterEndpointGate \/ ApplyStrategy = "ApplyOnly"
          BY PastEndpointGate
        <5>2. s = "drain" => s # AfterEndpointGate
          BY DEF AfterEndpointGate
        <5>3. QED
          BY <3>2, <5>1, <5>2, <1>1 DEF OnCourse
      <4>2. QED
        BY <2>3, <4>1 DEF Forward
    <3>4. CASE work[a].step = "drain"
      <4>1. ~ApplyOnly(a)
        BY <3>2, <3>3 DEF ApplyOnly
      <4>2. c \in work[a].overlooked
        BY <1>1, <2>3, <3>4, <4>1 DEF Clear
      <4>3. QED
        BY <3>4, <4>2 DEF Overlooked
    <3>5. CASE work[a].step = "gate"
      <4>1. controlPlaneUpgradeSafe(n)
        BY <2>3, <3>5 DEF Forward, AfterEndpointGate
      <4>2. Reachable(c)
        BY <4>1 DEF controlPlaneUpgradeSafe
      <4>3. node[c].phase = "leaving"
        BY <4>2, HealthyIsUpOrLeaving
      <4>4. QED
        BY <3>5, <4>3 DEF Overlooked, Leaving
    <3>6. QED
      BY <3>3, <3>4, <3>5
  <2>4. QED
    BY <1>1, <1>2, <2>1, <2>2, <2>3 DEF WorkMoves
<1>9. QED
  BY <1>7, <1>8

\* Every step keeps Clear and is one that OverlapsOnlyIfOverlooked allows.
LEMMA OverlookedStep ==
  ASSUME Hooked \intersect ControlPlanes = {}
  PROVE  Inv /\ Clear /\ [Next]_vars => Clear' /\ Overlooks
<1> SUFFICES ASSUME Inv, Clear, [Next]_vars PROVE Clear' /\ Overlooks
  OBVIOUS
<1>t. TypeOK /\ work \in [Actors -> Works \union {Idle}] /\ "controller" \in Actors
  BY TypeParts DEF Inv, Actors
<1>1. ASSUME NEW a \in Actors, Moves(a)
      PROVE  Clear' /\ Overlooks
  BY <1>1, EngineOverlooks
<1>2. ASSUME NEW n \in Nodes, NodeTurns(n), UNCHANGED work
      PROVE  Clear' /\ Overlooks
  <2>1. \A m \in Nodes : node'[m].phase \in {node[m].phase, "up", "away"} \/ node[m].phase = "leaving"
    BY <1>2 DEF NodeTurns
  <2>2. \A c \in ControlPlanes : Restarting(c)' => Restarting(c)
    BY <2>1 DEF Restarting, Nodes
  <2>3. QED
    BY <2>2, <1>2 DEF Clear, Overlooks, ApplyOnly
<1>3. ASSUME UNCHANGED node, work'["controller"] = work["controller"] \/ work'["controller"].step \notin {"drain", "restart"}
      PROVE  Clear' /\ Overlooks
  <2>1. \A c \in ControlPlanes : Restarting(c)' <=> Restarting(c)
    BY <1>3 DEF Restarting
  <2>2. QED
    BY <1>3, <2>1 DEF Clear, Overlooks, ApplyOnly
<1>4. ASSUME NEW a \in Actors, NEW n \in Nodes, Begins(a, n)
      PROVE  Clear' /\ Overlooks
  BY <1>3, <1>4, <1>t DEF Begins
<1>5. ASSUME NEW a \in Actors, CallFails(a)
      PROVE  Clear' /\ Overlooks
  BY <1>3, <1>5, <1>t DEF CallFails, End, Idle
<1>6. QED
  BY <1>1, <1>2, <1>3, <1>4, <1>5, <1>t, StepForms

\* OverlapsOnlyIfOverlooked holds of every behaviour of a cluster whose control planes
\* are updated by the controller alone, for any number of them and whichever of them go
\* on serving once told to reboot: the time from the gate to the restart adds nothing to
\* what the gate itself overlooked.
THEOREM OverlapOnlyIfOverlooked ==
  ASSUME Hooked \intersect ControlPlanes = {}
  PROVE  Spec => OverlapsOnlyIfOverlooked
<1>1. Init => Clear
  BY DEF Init, Clear, Actors
<1>2. Inv /\ Clear /\ [Next]_vars => Clear' /\ Overlooks
  BY OverlookedStep
<1>3. Inv /\ Clear /\ [Next]_vars => [\A c \in ControlPlanes : ~Restarting(c) /\ Restarting(c)' =>
        \A d \in ControlPlanes \ {c} : Restarting(d) => d \in work["controller"].overlooked]_vars
  BY <1>2 DEF Overlooks
<1>4. QED
  BY <1>1, <1>2, <1>3, Invariant, PTL DEF Spec, OverlapsOnlyIfOverlooked

=============================================================================
