-------------------------- MODULE CARotationProofs --------------------------
(***************************************************************************)
(* Type correctness of CARotation; that the active generation never falls  *)
(* back or names a retired Secret; and that the nodes a cluster was        *)
(* founded with trust each other and stay reachable through any number of  *)
(* rotations: for any nodes, generations, requests, restores and faults.   *)
(***************************************************************************)
EXTENDS CARotation, FiniteSetTheorems, TLAPS

\* The values of a node, of a TartCluster reconcile and of a TartControlPlane one.
NodeStates ==
  [machine: {"none", "exists", "deleting"}, data: 0..MaxGeneration, up: BOOLEAN,
   running: Trust \union {NoTrust}, staged: Trust \union {NoTrust},
   api: SUBSET Generations, apiStaged: SUBSET Generations]
Creations ==
  [step: {"bundle", "rotation", "status"}, snapshot: TartCluster,
   request: 0..MaxGeneration, generation: Generations]
WorkSteps == {"observe", "advance", "reboot", "status", "label", "recover", "demote"}
Works ==
  [step: WorkSteps, active: Generations, todo: SUBSET Nodes,
   stage: [Nodes -> Stages], target: Nodes \union {"none"}]

\* A rotation has a generation to go to; the nodes it advances are all at one stage
\* before the last.
Aimed ==
  work # Idle =>
    /\ work.active + 1 \in Generations
    /\ work.step \in {"advance", "reboot"} =>
         /\ \A n \in work.todo : work.stage[n] \in 0..2
         /\ \A m, n \in work.todo : work.stage[m] = work.stage[n]
    /\ work.step = "reboot" => work.target \in Nodes

TypeInv == TypeOK /\ Aimed

\* What a node runs at each stage of the rotation from generation t to t + 1.
Form(k, t) ==
  CASE k = 0 -> [issuing |-> t, accepted |-> {}]
    [] k = 1 -> [issuing |-> t, accepted |-> {t + 1}]
    [] k = 2 -> [issuing |-> t + 1, accepted |-> {t}]
    [] k = 3 -> [issuing |-> t + 1, accepted |-> {}]

\* t is the latest generation labelled Active, or 0 before the first; the next one
\* at most waits.
Top(t) ==
  /\ t # 0 => bundles[t] = "Active"
  /\ \A h \in Generations : h < t => bundles[h] \in {"Active", "Retired"}
  /\ \A h \in Generations :
       h > t => bundles[h] = "absent" \/ (t # 0 /\ h = t + 1 /\ bundles[h] = "Pending")

\* The next generation is there.
Open(t) == t # 0 /\ t + 1 \in Generations /\ bundles[t + 1] = "Pending"

\* A founder's node v that is not installed yet; one on t, or not installed yet;
\* one on t + 1; one at stage m or m + 1 that no boot takes back.
Empty(v, t) == v.running = NoTrust /\ v.staged = NoTrust /\ v.data \in {0, t}
Settled(v, t) ==
  Empty(v, t) \/ (t # 0 /\ v.running = Form(0, t) /\ v.staged \in {NoTrust, Form(0, t)})
Arrived(v, t) == v.running = Form(3, t) /\ v.staged \in {NoTrust, Form(3, t)}
Between(v, t, m) ==
  /\ v.running \in {Form(m, t), Form(m + 1, t)}
  /\ v.staged \in {NoTrust, Form(m, t), Form(m + 1, t)}
  /\ v.running = Form(m + 1, t) => v.staged # Form(m, t)

\* All founders are on t, all on t + 1, or all within two stages of each other.
Home(t) == \A n \in Founders : Settled(node[n], t)
AllArrived(t) == \A n \in Founders : Arrived(node[n], t)
Together(t, m) == \A n \in Founders : Between(node[n], t, m)

Founded(t) == Home(t) \/ (Open(t) /\ \E m \in 0..2 : Together(t, m))

\* The status is of t; or it is ahead of the label, and all founders have arrived.
Status(t) ==
  /\ \A n \in Founders : node[n].machine = "exists"
  /\ cluster.active \in {0, t} \/ (cluster.active = t + 1 /\ Open(t) /\ AllArrived(t))
  /\ cluster.active = 0 => work = Idle /\ seen.cluster.active = 0

\* A Secret's label only moves this way.
Rank(state) ==
  CASE state = "absent" -> 0 [] state = "Pending" -> 1
    [] state = "Active" -> 2 [] state = "Retired" -> 3

\* The caches lag behind; a status read one generation late is read when no
\* founder has been moved beyond it.
Lag(t) ==
  /\ \A g \in Generations : Rank(seen.bundles[g]) <= Rank(bundles[g])
  /\ seen.cluster.active # 0 =>
       \/ seen.cluster.active = cluster.active
       \/ seen.cluster.active + 1 = cluster.active /\ (cluster.active = t => Home(t))

\* A TartCluster reconcile of a cluster without status is alone, and is about t.
Creating(t) ==
  creating # Idle =>
    /\ creating.snapshot.active = 0 =>
         /\ cluster.active = 0
         /\ creating.generation = IF t = 0 THEN 1 ELSE t
         /\ creating.step # "bundle" => t # 0
    /\ creating.snapshot.active # 0 =>
         /\ creating.generation = creating.snapshot.active
         /\ bundles[creating.generation] # "absent"
         /\ creating.step # "bundle" => creating.generation <= t

\* What was seen of founder n: it is at that stage or beyond, and no founder is more
\* than one beyond.
NotAhead(v, t, s) ==
  \A f \in {v.running, v.staged} : f = NoTrust \/ \E k \in 0..3 : k <= s + 1 /\ f = Form(k, t)
NotBehind(v, t, s) == \E k \in 0..3 : k >= s /\ v.running = Form(k, t)
SeenAt(n, t) ==
  /\ work.stage[n] \in 0..3 /\ NotBehind(node[n], t, work.stage[n])
  /\ \A b \in Founders : NotAhead(node[b], t, work.stage[n])

\* A TartControlPlane reconcile is about the rotation from t; or about the one before,
\* late, and then leaves the founders alone.
Working(t) ==
  work # Idle =>
    /\ work.step \in {"observe", "advance", "reboot", "status", "label"} =>
         /\ seen.cluster.active >= work.active
         /\ \/ work.active = t /\ Open(t)
            \/ work.active + 1 = t /\ cluster.active = t /\ Home(t)
    /\ work.step = "observe" =>
         \A n \in Founders \ work.todo :
           IF work.active = t THEN SeenAt(n, t) ELSE work.stage[n] = 3
    /\ work.step \in {"advance", "reboot"} =>
         \A n \in Founders \intersect work.todo :
           work.active = t /\ Together(t, work.stage[n])
    /\ (work.step \in {"status", "label"} /\ work.active = t) => AllArrived(t)
    /\ work.step = "label" => cluster.active = work.active + 1
    /\ work.step \in {"recover", "demote"} => work.active < t
    /\ work.step = "recover" => seen.bundles[work.active + 1] \in {"Active", "Retired"}

Inv(t) == Top(t) /\ Founded(t) /\ Status(t) /\ Lag(t) /\ Creating(t) /\ Working(t)

Rotation == \E t \in 0..MaxGeneration : Inv(t)

-----------------------------------------------------------------------------
(* Type correctness.                                                       *)

\* TypeOK as its parts.
LEMMA TypeParts ==
  TypeOK <=>
    /\ requested \in 0..MaxGeneration /\ cluster \in TartCluster
    /\ bundles \in [Generations -> BundleStates]
    /\ seen \in [cluster: TartCluster, bundles: [Generations -> BundleStates]]
    /\ node \in [Nodes -> NodeStates]
    /\ creating \in Creations \union {Idle}
    /\ work \in Works \union {Idle}
    /\ faults \in 0..MaxFaults
BY DEF TypeOK, NodeStates, Creations, Works, WorkSteps

\* A reconcile with a step of its own is one in flight.
LEMMA InFlight ==
  ASSUME TypeOK
  PROVE  /\ \A s \in WorkSteps : work.step = s => work # Idle /\ work \in Works
         /\ work # Idle => work \in Works
         /\ creating.step \in {"bundle", "rotation", "status"} => creating # Idle /\ creating \in Creations
         /\ creating # Idle => creating \in Creations
         /\ work \in Works => work # Idle
BY TypeParts DEF Works, WorkSteps, Creations, Idle

\* The edits of the two reconciles keep their types.
LEMMA WorkEdits ==
  ASSUME NEW w \in Works
  PROVE  /\ \A s \in WorkSteps : [w EXCEPT !.step = s] \in Works
         /\ \A n \in Nodes, s \in Stages : [w EXCEPT !.todo = @ \ {n}, !.stage[n] = s] \in Works
         /\ \A T \in SUBSET Nodes : [w EXCEPT !.step = "advance", !.todo = T] \in Works
         /\ \A n \in Nodes : [w EXCEPT !.step = "reboot", !.target = n, !.todo = @ \ {n}] \in Works
         /\ [w EXCEPT !.step = "advance", !.target = "none"] \in Works
BY DEF Works, WorkSteps

\* A change of the step alone.
LEMMA StepEdit ==
  ASSUME NEW w \in Works, NEW s \in WorkSteps
  PROVE  /\ [w EXCEPT !.step = s] \in Works
         /\ [w EXCEPT !.step = s].step = s
         /\ [w EXCEPT !.step = s].active = w.active
         /\ [w EXCEPT !.step = s].todo = w.todo
         /\ [w EXCEPT !.step = s].stage = w.stage
BY DEF Works

\* A TartCluster reconcile keeps its type at every step.
LEMMA CreationEdits ==
  ASSUME NEW c \in Creations
  PROVE  \A s \in {"bundle", "rotation", "status"} : [c EXCEPT !.step = s] \in Creations
BY DEF Creations

\* Where a rotation stands is one of the five stages.
LEMMA StageType ==
  ASSUME NEW n, NEW a, NEW p
  PROVE  ObserveStage(n, a, p) \in Stages
<1>1. \A i, acc : caStage(i, acc, a, p) \in Stages
  BY DEF caStage, Stages, Stable, DualTrust, Cutover, Rotated, Unknown
<1>2. \A acc : workerCAStage(acc, a, p) \in Stages
  BY DEF workerCAStage, Stages, Stable, DualTrust, Cutover, Rotated, Unknown
<1>3. \A trust, api : ObserveStageWithoutAggregator(trust, api, a, p) \in Stages
  <2> TAKE trust, api
  <2>1. Unknown \in Stages
    BY DEF Unknown, Stages
  <2>2. QED
    BY <1>1, <2>1 DEF ObserveStageWithoutAggregator
<1>4. Unknown \in Stages
  BY DEF Unknown, Stages
<1>5. QED
  BY <1>1, <1>3, <1>4 DEF ObserveStage

\* The minimum of a set of stages is in it, and below all of it.
LEMMA MinimumStage ==
  ASSUME NEW S \in SUBSET Stages, S # {}
  PROVE  /\ minimumCARotationStage(S) \in S
         /\ \A s \in S : minimumCARotationStage(S) <= s
<1>1. \E s \in S : \A u \in S : s <= u
  <2>1. CASE 0 \in S
    BY <2>1 DEF Stages
  <2>2. CASE 0 \notin S /\ 1 \in S
    BY <2>2 DEF Stages
  <2>3. CASE 0 \notin S /\ 1 \notin S /\ 2 \in S
    BY <2>3 DEF Stages
  <2>4. CASE 0 \notin S /\ 1 \notin S /\ 2 \notin S /\ 3 \in S
    BY <2>4 DEF Stages
  <2>5. CASE 0 \notin S /\ 1 \notin S /\ 2 \notin S /\ 3 \notin S
    <3>1. \A u \in S : u = 4
      BY <2>5 DEF Stages
    <3>2. QED
      BY <3>1
  <2>6. QED
    BY <2>1, <2>2, <2>3, <2>4, <2>5
<1>2. QED
  BY <1>1 DEF minimumCARotationStage

\* TypeInv holds initially.
LEMMA InitialType == Init => TypeInv
<1> SUFFICES ASSUME Init PROVE TypeInv
  OBVIOUS
<1> USE RotationAssumption
<1>1. cluster \in TartCluster /\ bundles \in [Generations -> BundleStates]
  BY DEF Init, TartCluster, BundleStates
<1>2. node \in [Nodes -> NodeStates]
  BY DEF Init, NodeStates
<1>3. QED
  BY <1>1, <1>2, TypeParts DEF Init, TypeInv, Aimed

\* The user, the caches and the nodes.
LEMMA OutsideType ==
  ASSUME TypeInv,
         \/ Deliver \/ Restore \/ \E g \in Requests : RequestRotation(g)
         \/ \E n \in Nodes : CreateMachine(n) \/ DeleteMachine(n) \/ NodeProgress(n) \/ Outage(n)
                                  \/ DropAcceptedCA(n)
  PROVE  TypeInv'
<1> USE RotationAssumption
<1>t. TypeOK /\ Aimed
  BY DEF TypeInv
<1>p. /\ cluster \in TartCluster /\ bundles \in [Generations -> BundleStates]
      /\ seen \in [cluster: TartCluster, bundles: [Generations -> BundleStates]]
      /\ node \in [Nodes -> NodeStates] /\ faults \in 0..MaxFaults
  BY <1>t, TypeParts
<1>1. CASE \E g \in Requests : RequestRotation(g)
  BY <1>1, <1>t DEF RequestRotation, TypeInv, TypeOK, Aimed
<1>2. CASE Deliver
  <2>1. seen' \in [cluster: TartCluster, bundles: [Generations -> BundleStates]]
    <3>1. CASE DeliverCluster
      BY <3>1, <1>p DEF DeliverCluster
    <3>2. ASSUME NEW g \in Generations, DeliverBundle(g)
          PROVE  seen' \in [cluster: TartCluster, bundles: [Generations -> BundleStates]]
      <4>1. [seen.bundles EXCEPT ![g] = bundles[g]] \in [Generations -> BundleStates]
        BY <1>p
      <4>2. seen' = [seen EXCEPT !.bundles = [seen.bundles EXCEPT ![g] = bundles[g]]]
        BY <3>2, <1>p DEF DeliverBundle
      <4>3. QED
        BY <4>1, <4>2, <1>p
    <3>3. QED
      BY <3>1, <3>2, <1>2 DEF Deliver
  <2>2. UNCHANGED <<requested, cluster, bundles, node, creating, work, faults>>
    BY <1>2 DEF Deliver, DeliverCluster, DeliverBundle
  <2>3. QED
    BY <2>1, <2>2, <1>t DEF TypeInv, TypeOK, Aimed
<1>3. CASE Restore
  <2>1. cluster' \in TartCluster
    BY <1>3, <1>p DEF Restore, TartCluster
  <2>2. faults' \in 0..MaxFaults
    BY <1>3, <1>p DEF Restore
  <2>3. QED
    BY <2>1, <2>2, <1>3, <1>t DEF Restore, TypeInv, TypeOK, Aimed
<1>4. ASSUME NEW n \in Nodes, CreateMachine(n) \/ DeleteMachine(n) \/ NodeProgress(n) \/ DropAcceptedCA(n)
      PROVE  TypeInv'
  <2>1. PICK v \in NodeStates : ChangeNode(n, v)
    <3>1. node[n] \in NodeStates
      BY <1>p
    <3>2. CASE CreateMachine(n)
      BY <3>1, <3>2 DEF CreateMachine, NodeStates
    <3>3. CASE DeleteMachine(n)
      BY <3>1, <3>3 DEF DeleteMachine, NodeStates
    <3>4. CASE Render(n)
      <4>1. PICK g \in MachineConfigurationContext(cluster) : ChangeNode(n, [node[n] EXCEPT !.data = g])
        BY <3>4 DEF Render
      <4>2. g \in 0..MaxGeneration
        BY <4>1, <1>p DEF MachineConfigurationContext, TartCluster
      <4>3. [node[n] EXCEPT !.data = g] \in NodeStates
        BY <4>2, <3>1 DEF NodeStates
      <4>4. QED
        BY <4>1, <4>3
    <3>5. CASE Install(n)
      <4>1. node[n].data \in Generations
        BY <3>1, <3>5 DEF Install, NodeStates, Generations
      <4>2. [issuing |-> node[n].data, accepted |-> {}] \in Trust
        BY <4>1 DEF Trust
      <4>3. {node[n].data} \in SUBSET Generations
        BY <4>1
      <4>4. QED
        BY <4>2, <4>3, <3>1, <3>5 DEF Install, NodeStates
    <3>6. CASE Boots(n)
      BY <3>1, <3>6 DEF Boots, Booted, NodeStates
    <3>7. CASE DropAcceptedCA(n)
      BY <3>1, <3>7 DEF DropAcceptedCA, NodeStates
    <3>8. QED
      BY <1>4, <3>2, <3>3, <3>4, <3>5, <3>6, <3>7 DEF NodeProgress
  <2>2. node' \in [Nodes -> NodeStates]
    BY <2>1, <1>p DEF ChangeNode
  <2>3. QED
    BY <2>1, <2>2, <1>t DEF ChangeNode, TypeInv, TypeOK, Aimed, NodeStates
<1>5. ASSUME NEW n \in Nodes, Outage(n)
      PROVE  TypeInv'
  <2>1. node' \in [Nodes -> NodeStates]
    <3>1. [node[n] EXCEPT !.up = FALSE] \in NodeStates
      <4>1. node[n] \in NodeStates
        BY <1>p
      <4>2. QED
        BY <4>1 DEF NodeStates
    <3>2. node' = [node EXCEPT ![n] = [node[n] EXCEPT !.up = FALSE]]
      BY <1>5 DEF Outage
    <3>3. QED
      BY <3>1, <3>2, <1>p
  <2>2. faults' \in 0..MaxFaults
    BY <1>5, <1>p DEF Outage
  <2>3. QED
    BY <2>1, <2>2, <1>5, <1>t DEF Outage, TypeInv, TypeOK, Aimed, NodeStates
<1>6. QED
  BY <1>1, <1>2, <1>3, <1>4, <1>5

\* The TartCluster controller.
LEMMA ClusterType ==
  ASSUME TypeInv, ClusterController
  PROVE  TypeInv'
<1> USE RotationAssumption
<1>t. TypeOK /\ Aimed
  BY DEF TypeInv
<1>p. /\ cluster \in TartCluster /\ bundles \in [Generations -> BundleStates]
      /\ creating \in Creations \union {Idle} /\ requested \in 0..MaxGeneration
  BY <1>t, TypeParts
<1>1. CASE AssignClusterID
  <2>1. cluster' \in TartCluster
    BY <1>1, <1>p DEF AssignClusterID, TartCluster
  <2>2. QED
    BY <2>1, <1>1, <1>t DEF AssignClusterID, TypeInv, TypeOK, Aimed
<1>2. CASE ReconcileCluster
  <2>1. PICK g \in IF cluster.active = 0 THEN reconstructActiveSecretGeneration ELSE {cluster.active} :
          creating' = [step |-> "bundle", snapshot |-> cluster, request |-> requested, generation |-> g]
    BY <1>2 DEF ReconcileCluster
  <2>2. g \in Generations
    BY <2>1, <1>p DEF reconstructActiveSecretGeneration, TartCluster, Generations
  <2>3. creating' \in Creations
    BY <2>1, <2>2, <1>p DEF Creations
  <2>4. UNCHANGED <<requested, cluster, bundles, seen, node, work, faults>>
    BY <1>2 DEF ReconcileCluster
  <2>5. QED
    BY <2>3, <2>4, <1>t DEF TypeInv, TypeOK, Aimed, Creations
<1>3. CASE ensureBundle \/ ensureCARotationBundle
  <2>1. creating \in Creations
    BY <1>3, <1>t, InFlight DEF ensureBundle, ensureCARotationBundle
  <2>2. creating' \in Creations \union {Idle}
    <3>1. [creating EXCEPT !.step = "rotation"] \in Creations /\ [creating EXCEPT !.step = "status"] \in Creations
      BY <2>1, CreationEdits
    <3>2. CASE ensureBundle
      BY <3>1, <3>2 DEF ensureBundle, EndCreating
    <3>3. CASE ensureCARotationBundle
      BY <3>1, <3>3 DEF ensureCARotationBundle, EndCreating
    <3>4. QED
      BY <3>2, <3>3, <1>3
  <2>3. bundles' \in [Generations -> BundleStates]
    <3>1. CASE ensureBundle
      BY <3>1, <1>p DEF ensureBundle, BundleStates
    <3>2. CASE ensureCARotationBundle
      BY <3>2, <1>p DEF ensureCARotationBundle, BundleStates
    <3>3. QED
      BY <3>1, <3>2, <1>3
  <2>4. UNCHANGED <<requested, cluster, seen, node, work, faults>>
    BY <1>3 DEF ensureBundle, ensureCARotationBundle
  <2>5. QED
    BY <2>2, <2>3, <2>4, <1>t DEF TypeInv, TypeOK, Aimed, Creations
<1>4. CASE PatchClusterStatus
  <2>1. creating \in Creations
    BY <1>4, <1>t, InFlight DEF PatchClusterStatus
  <2>2. cluster' \in TartCluster
    BY <2>1, <1>4, <1>p DEF PatchClusterStatus, TartCluster, Creations, Generations
  <2>3. QED
    BY <2>2, <1>4, <1>t DEF PatchClusterStatus, EndCreating, TypeInv, TypeOK, Aimed
<1>5. QED
  BY <1>1, <1>2, <1>3, <1>4 DEF ClusterController

\* The TartControlPlane controller.
LEMMA ControlPlaneType ==
  ASSUME TypeInv, ControlPlaneController
  PROVE  TypeInv'
<1> USE RotationAssumption
<1>t. TypeOK /\ Aimed
  BY DEF TypeInv
<1>p. /\ cluster \in TartCluster /\ bundles \in [Generations -> BundleStates]
      /\ seen \in [cluster: TartCluster, bundles: [Generations -> BundleStates]]
      /\ node \in [Nodes -> NodeStates] /\ work \in Works \union {Idle}
  BY <1>t, TypeParts
<1>w. ASSUME NEW s \in WorkSteps, work.step = s
      PROVE  work \in Works /\ work # Idle /\ work.active + 1 \in Generations
  <2>1. work # Idle /\ work \in Works
    BY <1>w, <1>t, InFlight
  <2>2. QED
    BY <2>1, <1>t DEF Aimed
<1>u. \A s \in Stages : [n \in Nodes |-> s] \in [Nodes -> Stages]
  OBVIOUS
<1>1. CASE reconcileCARotation
  <2>1. work' \in Works /\ work'.step = "observe" /\ work'.active + 1 \in Generations
    BY <1>1, <1>p, <1>u DEF reconcileCARotation, observeRotationBundle, validateActiveBundle,
      NextGeneration, clusterMachinesForCARotation, Works, WorkSteps, TartCluster, Generations, Unknown, Stages
  <2>2. UNCHANGED <<requested, cluster, bundles, seen, node, creating, faults>>
    BY <1>1 DEF reconcileCARotation
  <2>3. QED
    BY <2>1, <2>2, <1>t DEF TypeInv, TypeOK, Aimed, Works, WorkSteps
<1>2. CASE recoverCompletedCARotationRequest
  <2>1. seen.cluster.active - 1 \in Generations /\ seen.cluster.active - 1 + 1 \in Generations
    BY <1>2, <1>p DEF recoverCompletedCARotationRequest, TartCluster, Generations
  <2>2. work' \in Works /\ work'.step = "recover" /\ work'.active + 1 \in Generations
    BY <2>1, <1>2, <1>u DEF recoverCompletedCARotationRequest, Works, WorkSteps, Unknown, Stages
  <2>3. UNCHANGED <<requested, cluster, bundles, seen, node, creating, faults>>
    BY <1>2 DEF recoverCompletedCARotationRequest
  <2>4. QED
    BY <2>2, <2>3, <1>t DEF TypeInv, TypeOK, Aimed, Works, WorkSteps
<1>3. ASSUME NEW n \in Nodes, observeControlPlaneCARotation(n)
      PROVE  TypeInv'
  <2> DEFINE s == ObserveStage(n, work.active, NextGeneration(work.active))
             w == [work EXCEPT !.todo = @ \ {n}, !.stage[n] = s]
  <2>1. work \in Works /\ work.active + 1 \in Generations /\ work.step = "observe"
    BY <1>3, <1>w DEF observeControlPlaneCARotation, WorkSteps
  <2>2. w \in Works /\ w.step = "observe" /\ w.active = work.active
    <3>1. s \in Stages
      BY StageType
    <3> HIDE DEF s
    <3>2. QED
      BY <3>1, <2>1, WorkEdits DEF Works
  <2>3. work' \in {w, Idle}
    BY <1>3 DEF observeControlPlaneCARotation, EndWork
  <2>4. UNCHANGED <<requested, cluster, bundles, seen, node, creating, faults>>
    BY <1>3 DEF observeControlPlaneCARotation
  <2> HIDE DEF w
  <2>5. Aimed'
    BY <2>1, <2>2, <2>3 DEF Aimed
  <2>6. QED
    BY <2>2, <2>3, <2>4, <2>5, <1>t DEF TypeInv, TypeOK, Works, WorkSteps
<1>4. CASE DecideStage
  <2> DEFINE observed == {n \in Nodes : work.stage[n] # Unknown}
             S == {work.stage[n] : n \in observed}
             min == minimumCARotationStage(S)
             T == {n \in observed : work.stage[n] = min}
  <2>1. work \in Works /\ work.active + 1 \in Generations
    BY <1>4, <1>w DEF DecideStage, WorkSteps
  <2>2. S \in SUBSET (0..3)
    BY <2>1 DEF Works, Stages, Unknown
  <2>3. UNCHANGED <<requested, cluster, bundles, seen, node, creating, faults>>
    BY <1>4 DEF DecideStage
  <2>4. CASE work' = Idle
    BY <2>3, <2>4, <1>t DEF TypeInv, TypeOK, Aimed
  <2>5. CASE work' = [work EXCEPT !.step = "status"]
    <3>1. work' \in Works /\ work'.step = "status" /\ work'.active = work.active
      BY <2>1, <2>5, StepEdit DEF WorkSteps
    <3>2. Aimed'
      BY <3>1, <2>1 DEF Aimed
    <3>3. QED
      BY <3>1, <3>2, <2>3, <1>t DEF TypeInv, TypeOK, Works, WorkSteps
  <2>6. CASE observed # {} /\ min # Rotated /\ work' = [work EXCEPT !.step = "advance", !.todo = T]
    <3>1. min \in 0..2
      <4>0. PICK n \in observed : TRUE
        BY <2>6
      <4>1. S # {} /\ S \in SUBSET Stages
        <5>1. work.stage[n] \in S
          BY <4>0
        <5> HIDE DEF S
        <5>2. QED
          BY <5>1, <2>2 DEF Stages
      <4>2. min \in S
        BY <4>1, MinimumStage
      <4> HIDE DEF min, S
      <4>3. QED
        BY <4>2, <2>2, <2>6 DEF Rotated
    <3>2. T \in SUBSET Nodes /\ \A n \in T : work.stage[n] = min
      OBVIOUS
    <3> HIDE DEF min, T
    <3>3. /\ work' \in Works /\ work'.step = "advance" /\ work'.active = work.active
          /\ work'.todo = T /\ work'.stage = work.stage
      BY <2>1, <2>6, <3>2, WorkEdits DEF Works
    <3>4. Aimed'
      BY <3>1, <3>2, <3>3, <2>1 DEF Aimed
    <3>5. QED
      BY <3>3, <3>4, <2>3, <1>t DEF TypeInv, TypeOK, Works, WorkSteps
  <2>7. QED
    BY <1>4, <2>4, <2>5, <2>6 DEF DecideStage, EndWork, Step
<1>5. ASSUME NEW n \in Nodes, advanceCATrust(n)
      PROVE  TypeInv'
  <2> DEFINE new == NewTrust(work.stage[n], work.active, NextGeneration(work.active))
  <2>1. /\ work \in Works /\ work.active + 1 \in Generations /\ work # Idle
        /\ work.step = "advance" /\ n \in work.todo
    BY <1>5, <1>w DEF advanceCATrust, WorkSteps
  <2>2. work.stage[n] \in 0..2 /\ work.active \in Generations
    BY <2>1, <1>t DEF Aimed, Works
  <2>3. new \in Trust
    BY <2>1, <2>2 DEF NewTrust, NextGeneration, Trust, Stable, DualTrust, Cutover
  <2>a. NewAccepted(n, new) \in SUBSET Generations
    <3>1. node[n] \in NodeStates
      BY <1>p
    <3> HIDE DEF new
    <3>2. QED
      BY <3>1, <2>3 DEF NewAccepted, Trust, NodeStates
  <2>4. UNCHANGED <<requested, cluster, bundles, seen, creating, faults>>
    BY <1>5 DEF advanceCATrust
  <2>5. CASE node' = node /\ work' = Idle
    BY <2>4, <2>5, <1>t DEF TypeInv, TypeOK, Aimed
  <2>6. CASE /\ node' = [node EXCEPT ![n].staged = new, ![n].apiStaged = NewAccepted(n, new)]
             /\ work' = [work EXCEPT !.step = "reboot", !.target = n, !.todo = @ \ {n}]
    <3>1. [node[n] EXCEPT !.staged = new, !.apiStaged = NewAccepted(n, new)] \in NodeStates
      <4> HIDE DEF new
      <4>1. node[n] \in NodeStates
        BY <1>p
      <4>2. QED
        BY <2>3, <2>a, <4>1 DEF NodeStates
    <3>2. node' \in [Nodes -> NodeStates]
      <4>1. node' = [node EXCEPT ![n] = [node[n] EXCEPT !.staged = new,
                                                        !.apiStaged = NewAccepted(n, new)]]
        BY <2>6
      <4> HIDE DEF new
      <4>2. QED
        BY <3>1, <4>1, <1>p
    <3>3. /\ work' \in Works /\ work'.step = "reboot" /\ work'.active = work.active
          /\ work'.todo \subseteq work.todo /\ work'.stage = work.stage /\ work'.target = n
      BY <2>1, <2>6, WorkEdits DEF Works
    <3>4. Aimed'
      BY <3>3, <2>1, <1>t DEF Aimed
    <3>5. QED
      BY <3>2, <3>3, <3>4, <2>4, <1>t DEF TypeInv, TypeOK, Works, WorkSteps, NodeStates
  <2>7. QED
    BY <1>5, <2>5, <2>6 DEF advanceCATrust, EndWork
<1>6. CASE Reboot
  <2>1. work \in Works /\ work.active + 1 \in Generations /\ work # Idle /\ work.step = "reboot"
    BY <1>6, <1>w DEF Reboot, WorkSteps
  <2>2. work.target \in Nodes
    BY <2>1, <1>t DEF Aimed
  <2>3. node' \in [Nodes -> NodeStates]
    <3>1. [node[work.target] EXCEPT !.up = FALSE] \in NodeStates
      <4>1. node[work.target] \in NodeStates
        BY <2>2, <1>p
      <4>2. QED
        BY <4>1 DEF NodeStates
    <3>2. node' = node \/ node' = [node EXCEPT ![work.target] = [node[work.target] EXCEPT !.up = FALSE]]
      BY <1>6 DEF Reboot
    <3>3. QED
      BY <3>1, <3>2, <2>2, <1>p
  <2>4. UNCHANGED <<requested, cluster, bundles, seen, creating, faults>>
    BY <1>6 DEF Reboot
  <2>5. CASE work' = Idle
    BY <2>3, <2>4, <2>5, <1>t DEF TypeInv, TypeOK, Aimed, NodeStates
  <2>6. CASE work' = [work EXCEPT !.step = "advance", !.target = "none"]
    <3>1. /\ work' \in Works /\ work'.step = "advance" /\ work'.active = work.active
          /\ work'.todo = work.todo /\ work'.stage = work.stage
      BY <2>1, <2>6, WorkEdits DEF Works
    <3>2. Aimed'
      BY <3>1, <2>1, <1>t DEF Aimed
    <3>3. QED
      BY <3>1, <3>2, <2>3, <2>4, <1>t DEF TypeInv, TypeOK, Works, WorkSteps, NodeStates
  <2>7. QED
    BY <1>6, <2>5, <2>6 DEF Reboot, EndWork
<1>7. CASE promoteCARotation \/ recoverCARotationPromotion
  <2>1. work \in Works /\ work.active + 1 \in Generations
    BY <1>7, <1>w DEF promoteCARotation, PromoteStatus, PromoteLabel, demoteCARotationSecret,
      recoverCARotationPromotion, WorkSteps
  <2>2. work' = Idle \/ \E s \in {"label", "demote"} : work' = [work EXCEPT !.step = s]
    BY <1>7 DEF promoteCARotation, PromoteStatus, PromoteLabel, demoteCARotationSecret,
      recoverCARotationPromotion, Step, EndWork
  <2>3. work' \in Works \union {Idle} /\ Aimed'
    <3>1. ASSUME NEW s \in {"label", "demote"}, work' = [work EXCEPT !.step = s]
          PROVE  work' \in Works /\ work'.step = s /\ work'.active = work.active
      <4>1. s \in WorkSteps
        BY DEF WorkSteps
      <4>2. QED
        BY <3>1, <4>1, <2>1, StepEdit
    <3>2. QED
      BY <2>1, <2>2, <3>1 DEF Aimed
  <2>4. cluster' \in TartCluster
    BY <1>7, <2>1, <1>p DEF promoteCARotation, PromoteStatus, PromoteLabel, demoteCARotationSecret,
      recoverCARotationPromotion, TartCluster, NextGeneration, Generations
  <2>5. bundles' \in [Generations -> BundleStates]
    BY <1>7, <1>p DEF promoteCARotation, PromoteStatus, PromoteLabel, demoteCARotationSecret,
      recoverCARotationPromotion, BundleStates
  <2>6. UNCHANGED <<requested, seen, node, creating, faults>>
    BY <1>7 DEF promoteCARotation, PromoteStatus, PromoteLabel, demoteCARotationSecret,
      recoverCARotationPromotion
  <2>7. QED
    BY <2>3, <2>4, <2>5, <2>6, <1>t DEF TypeInv, TypeOK, Works, WorkSteps
<1>8. QED
  BY <1>1, <1>2, <1>3, <1>4, <1>5, <1>6, <1>7 DEF ControlPlaneController

\* TypeInv is inductive.
LEMMA TypeStep == TypeInv /\ [Next]_vars => TypeInv'
<1> SUFFICES ASSUME TypeInv, [Next]_vars PROVE TypeInv'
  OBVIOUS
<1>1. CASE UNCHANGED vars
  BY <1>1 DEF TypeInv, TypeOK, Aimed, vars
<1>2. CASE CallFails
  <2>1. TypeOK /\ Aimed /\ faults \in 0..MaxFaults
    BY DEF TypeInv, TypeOK
  <2>2. faults' \in 0..MaxFaults
    BY <2>1, <1>2, RotationAssumption DEF CallFails
  <2>3. work' \in {work, Idle} /\ creating' \in {creating, Idle}
    BY <1>2 DEF CallFails, EndWork, EndCreating
  <2>4. UNCHANGED <<requested, cluster, bundles, seen, node>>
    BY <1>2 DEF CallFails
  <2>5. TypeOK'
    BY <2>1, <2>2, <2>3, <2>4 DEF TypeOK
  <2>6. QED
    BY <2>1, <2>3, <2>5 DEF TypeInv, Aimed
<1>3. CASE Next /\ ~CallFails
  BY <1>3, OutsideType, ClusterType, ControlPlaneType DEF Next
<1>4. QED
  BY <1>1, <1>2, <1>3

\* TypeOK holds of every behaviour: no order of rotations, restores and crashes takes
\* a generation, a label, a stage or a configuration out of its range.
THEOREM TypeCorrect == Spec => []TypeOK
<1>1. Spec => []TypeInv
  BY InitialType, TypeStep, PTL DEF Spec
<1>2. TypeInv => TypeOK
  BY DEF TypeInv
<1>3. QED
  BY <1>1, <1>2, PTL

-----------------------------------------------------------------------------
(* What nodes run.                                                         *)

\* The four forms spelled out.
LEMMA Forms ==
  ASSUME NEW t \in Nat
  PROVE  /\ Form(0, t) = [issuing |-> t, accepted |-> {}]
         /\ Form(1, t) = [issuing |-> t, accepted |-> {t + 1}]
         /\ Form(2, t) = [issuing |-> t + 1, accepted |-> {t}]
         /\ Form(3, t) = [issuing |-> t + 1, accepted |-> {}]
         /\ Form(3, t) = Form(0, t + 1)
BY DEF Form

\* They differ from each other and from no configuration at all.
LEMMA FormsDiffer ==
  ASSUME NEW t \in Nat, t # 0, NEW k \in 0..3
  PROVE  /\ Form(k, t) # NoTrust
         /\ \A j \in 0..3 : Form(k, t) = Form(j, t) => k = j
<1>1. ASSUME NEW j \in 0..3
      PROVE  /\ j \in {0, 1} => Form(j, t).issuing = t
             /\ j \in {2, 3} => Form(j, t).issuing = t + 1
             /\ j \in {0, 3} => Form(j, t).accepted = {}
             /\ j \in {1, 2} => Form(j, t).accepted # {}
  <2>1. CASE j = 0
    BY <2>1, Forms
  <2>2. CASE j = 1
    <3>1. Form(j, t).issuing = t /\ Form(j, t).accepted = {t + 1}
      BY <2>2, Forms
    <3>2. QED
      BY <2>2, <3>1
  <2>3. CASE j = 2
    <3>1. Form(j, t).issuing = t + 1 /\ Form(j, t).accepted = {t}
      BY <2>3, Forms
    <3>2. QED
      BY <2>3, <3>1
  <2>4. CASE j = 3
    BY <2>4, Forms
  <2>5. QED
    BY <2>1, <2>2, <2>3, <2>4
<1>2. Form(k, t) # NoTrust
  <2>1. Form(k, t).issuing \in {t, t + 1}
    BY <1>1
  <2>2. QED
    BY <2>1 DEF NoTrust
<1>3. ASSUME NEW j \in 0..3, Form(k, t) = Form(j, t)
      PROVE  k = j
  <2>1. Form(k, t).issuing = Form(j, t).issuing /\ Form(k, t).accepted = Form(j, t).accepted
    BY <1>3
  <2>2. (k \in {0, 1} <=> j \in {0, 1}) /\ (k \in {0, 3} <=> j \in {0, 3})
    BY <1>1, <2>1
  <2>3. QED
    BY <2>2
<1>4. QED
  BY <1>2, <1>3

\* A boot keeps what is known of a founder.
LEMMA BootKeeps ==
  ASSUME NEW t \in Nat, NEW v, NEW w, w.data = v.data, w.staged = NoTrust,
         w.running = IF v.staged = NoTrust THEN v.running ELSE v.staged
  PROVE  /\ Settled(v, t) => Settled(w, t)
         /\ Arrived(v, t) => Arrived(w, t)
         /\ \A m \in 0..2 : t # 0 /\ Between(v, t, m) => Between(w, t, m)
         /\ \A s \in 0..3 : NotAhead(v, t, s) => NotAhead(w, t, s)
         /\ \A s \in 0..3 : (t # 0 /\ NotBehind(v, t, s) /\ (Settled(v, t) \/ \E m \in 0..2 : Between(v, t, m)))
                               => NotBehind(w, t, s)
<1>1. Settled(v, t) => Settled(w, t)
  BY DEF Settled, Empty
<1>2. Arrived(v, t) => Arrived(w, t)
  BY DEF Arrived
<1>3. ASSUME NEW m \in 0..2, t # 0, Between(v, t, m)
      PROVE  Between(w, t, m)
  <2>1. Form(m, t) # NoTrust /\ Form(m + 1, t) # NoTrust
    BY <1>3, FormsDiffer
  <2>2. CASE v.staged = NoTrust
    BY <1>3, <2>1, <2>2 DEF Between
  <2>3. CASE v.staged # NoTrust
    <3>1. w.running \in {Form(m, t), Form(m + 1, t)}
      BY <1>3, <2>3 DEF Between
    <3>2. w.running = Form(m + 1, t) => w.staged # Form(m, t)
      BY <2>1
    <3>3. QED
      BY <3>1, <3>2 DEF Between
  <2>4. QED
    BY <2>2, <2>3
<1>4. \A s \in 0..3 : NotAhead(v, t, s) => NotAhead(w, t, s)
  BY DEF NotAhead
<1>5. ASSUME NEW s \in 0..3, t # 0, NotBehind(v, t, s), Settled(v, t) \/ \E m \in 0..2 : Between(v, t, m)
      PROVE  NotBehind(w, t, s)
  <2>1. PICK k \in 0..3 : k >= s /\ v.running = Form(k, t)
    BY <1>5 DEF NotBehind
  <2>2. CASE v.staged = NoTrust
    BY <2>1, <2>2 DEF NotBehind
  <2>3. CASE v.staged # NoTrust
    <3>1. \E j \in 0..3 : j >= k /\ v.staged = Form(j, t)
      <4>1. CASE Settled(v, t)
        BY <4>1, <2>1, <2>3, <1>5, FormsDiffer DEF Settled, Empty
      <4>2. ASSUME NEW m \in 0..2, Between(v, t, m)
            PROVE  \E j \in 0..3 : j >= k /\ v.staged = Form(j, t)
        <5>1. k \in {m, m + 1} /\ m + 1 \in 0..3
          BY <4>2, <2>1, <1>5, FormsDiffer DEF Between
        <5>2. CASE v.staged = Form(m + 1, t)
          BY <5>1, <5>2
        <5>3. CASE v.staged = Form(m, t)
          BY <4>2, <5>1, <5>3, <2>1 DEF Between
        <5>4. QED
          BY <4>2, <5>2, <5>3, <2>3 DEF Between
      <4>3. QED
        BY <4>1, <4>2, <1>5
    <3>2. QED
      BY <3>1, <2>1, <2>3 DEF NotBehind
  <2>4. QED
    BY <2>2, <2>3
<1>6. QED
  BY <1>1, <1>2, <1>3, <1>4, <1>5

\* What a label read in the cache says of the stored one.
LEMMA Labels ==
  ASSUME NEW a \in BundleStates, NEW b \in BundleStates, Rank(a) <= Rank(b)
  PROVE  /\ a = "Active" => b \in {"Active", "Retired"}
         /\ a = "Retired" => b = "Retired"
         /\ a # "absent" => b # "absent"
         /\ Rank(a) <= Rank("Retired")
         /\ b \in {"absent", "Pending", "Active"} => Rank(a) <= Rank("Active")
         /\ b = "absent" => Rank(a) <= Rank("Pending")
BY DEF Rank, BundleStates

-----------------------------------------------------------------------------
(* The steps of the nodes and the user.                                    *)

\* TypeInv as the facts the cases below need.
LEMMA Facts ==
  ASSUME TypeInv
  PROVE  /\ requested \in 0..MaxGeneration /\ cluster \in TartCluster
         /\ cluster.active \in 0..MaxGeneration
         /\ bundles \in [Generations -> BundleStates]
         /\ seen.cluster \in TartCluster /\ seen.bundles \in [Generations -> BundleStates]
         /\ seen.cluster.active \in 0..MaxGeneration
         /\ seen \in [cluster: TartCluster, bundles: [Generations -> BundleStates]]
         /\ node \in [Nodes -> NodeStates]
         /\ creating \in Creations \union {Idle}
         /\ work \in Works \union {Idle}
BY TypeParts DEF TypeInv, TartCluster

\* A step of the nodes that takes no founder out of what is known of it.
LEMMA NodesKeep ==
  ASSUME NEW t \in 0..MaxGeneration, TypeInv, Inv(t),
         UNCHANGED <<cluster, bundles, seen, creating, work>>,
         \A n \in Founders :
           /\ node'[n].machine = node[n].machine
           /\ Settled(node[n], t) => Settled(node'[n], t)
           /\ t # 0 => /\ Arrived(node[n], t) => Arrived(node'[n], t)
                       /\ \A m \in 0..2 : Between(node[n], t, m) => Between(node'[n], t, m)
                       /\ \A s \in 0..3 : NotAhead(node[n], t, s) => NotAhead(node'[n], t, s)
                       /\ \A s \in 0..3 : NotBehind(node[n], t, s) => NotBehind(node'[n], t, s)
  PROVE  Inv(t)'
<1>1. Home(t) => Home(t)'
  BY DEF Home
<1>2. t # 0 /\ AllArrived(t) => AllArrived(t)'
  BY DEF AllArrived
<1>3. \A m \in 0..2 : t # 0 /\ Together(t, m) => Together(t, m)'
  BY DEF Together
<1>4. Open(t)' <=> Open(t)
  BY DEF Open
<1>5. \A n \in Founders : t # 0 /\ SeenAt(n, t) => SeenAt(n, t)'
  BY DEF SeenAt
<1>6. Top(t)' /\ Creating(t)'
  BY DEF Inv, Top, Creating
<1>7. Founded(t)'
  BY <1>1, <1>3, <1>4 DEF Inv, Founded, Open
<1>8. Status(t)'
  BY <1>2, <1>4 DEF Inv, Status, Open
<1>9. Lag(t)'
  BY <1>1 DEF Inv, Lag
<1>10. Working(t)'
  <2> SUFFICES ASSUME work # Idle PROVE Working(t)'
    BY DEF Working
  <2>1. Working(t) /\ work \in Works /\ Aimed /\ TypeOK
    BY Facts DEF Inv, TypeInv
  <2>2. work.active \in Generations
    BY <2>1 DEF Works
  <2>3. work.step \in {"observe", "advance", "reboot", "status", "label"} =>
         /\ seen'.cluster.active >= work.active
         /\ \/ work.active = t /\ Open(t)'
            \/ work.active + 1 = t /\ cluster'.active = t /\ Home(t)'
    BY <2>1, <1>1, <1>4 DEF Working
  <2>4. work.step = "observe" =>
         \A n \in Founders \ work.todo : IF work.active = t THEN SeenAt(n, t)' ELSE work.stage[n] = 3
    BY <2>1, <2>2, <1>5, RotationAssumption DEF Working, Generations
  <2>5. work.step \in {"advance", "reboot"} =>
         \A n \in Founders \intersect work.todo : work.active = t /\ Together(t, work.stage[n])'
    BY <2>1, <2>2, <1>3, RotationAssumption DEF Working, Aimed, Generations
  <2>6. (work.step \in {"status", "label"} /\ work.active = t) => AllArrived(t)'
    BY <2>1, <2>2, <1>2, RotationAssumption DEF Working, Generations
  <2>7. QED
    BY <2>1, <2>3, <2>4, <2>5, <2>6 DEF Working
<1>11. QED
  BY <1>6, <1>7, <1>8, <1>9, <1>10 DEF Inv

\* A founder is in a state from which a boot does not take it back.
LEMMA Steady ==
  ASSUME NEW t \in 0..MaxGeneration, Inv(t), NEW n \in Founders
  PROVE  Settled(node[n], t) \/ (t # 0 /\ \E m \in 0..2 : Between(node[n], t, m))
BY DEF Inv, Founded, Home, Together, Open

\* The nodes' own steps, and what the user does to Machines.
LEMMA NodeStep ==
  ASSUME NEW t \in 0..MaxGeneration, TypeInv, Inv(t), NEW n \in Nodes,
         CreateMachine(n) \/ DeleteMachine(n) \/ NodeProgress(n) \/ Outage(n) \/ DropAcceptedCA(n)
  PROVE  Inv(t)'
<1> USE RotationAssumption
<1>1. UNCHANGED <<cluster, bundles, seen, creating, work>>
  BY DEF CreateMachine, DeleteMachine, NodeProgress, Render, Install, Boots, Outage, DropAcceptedCA,
    ChangeNode
<1>2. \A b \in Nodes : b # n => node'[b] = node[b]
  BY Facts DEF CreateMachine, DeleteMachine, NodeProgress, Render, Install, Boots, Outage,
    DropAcceptedCA, ChangeNode
<1>3. node[n] \in NodeStates /\ n \in Nodes /\ Founders \subseteq Nodes /\ t \in Nat
  BY Facts DEF Nodes
<1>4. SUFFICES ASSUME n \in Founders
               PROVE  /\ node'[n].machine = node[n].machine
                      /\ Settled(node[n], t) => Settled(node'[n], t)
                      /\ t # 0 => /\ Arrived(node[n], t) => Arrived(node'[n], t)
                                  /\ \A m \in 0..2 : Between(node[n], t, m) => Between(node'[n], t, m)
                                  /\ \A s \in 0..3 : NotAhead(node[n], t, s) => NotAhead(node'[n], t, s)
                                  /\ \A s \in 0..3 : NotBehind(node[n], t, s) => NotBehind(node'[n], t, s)
  BY <1>1, <1>2, <1>3, NodesKeep
<1>5. node[n].machine = "exists"
  BY <1>4 DEF Inv, Status
<1>6. CASE Outage(n) \/ DropAcceptedCA(n)
  <2>1. /\ node'[n].machine = node[n].machine /\ node'[n].data = node[n].data
        /\ node'[n].running = node[n].running /\ node'[n].staged = node[n].staged
    BY <1>6, <1>3, Facts DEF Outage, DropAcceptedCA, ChangeNode, NodeStates
  <2>2. QED
    BY <2>1 DEF Settled, Empty, Arrived, Between, NotAhead, NotBehind
<1>7. CASE CreateMachine(n) \/ DeleteMachine(n)
  BY <1>4, <1>5, <1>7 DEF CreateMachine, DeleteMachine
<1>8. CASE Render(n)
  <2>1. PICK g \in MachineConfigurationContext(cluster) : node' = [node EXCEPT ![n] = [node[n] EXCEPT !.data = g]]
    BY <1>8 DEF Render, ChangeNode
  <2>2. /\ node'[n].machine = node[n].machine /\ node'[n].data = g
        /\ node'[n].running = node[n].running /\ node'[n].staged = node[n].staged
    BY <2>1, <1>3, Facts DEF NodeStates
  <2>3. g = t
    <3>1. g = cluster.active /\ g # 0 /\ bundles[g] = "Active"
      BY <2>1 DEF MachineConfigurationContext
    <3>2. QED
      BY <3>1 DEF Inv, Status, Open
  <2>4. QED
    BY <2>2, <2>3 DEF Settled, Empty, Arrived, Between, NotAhead, NotBehind
<1>9. CASE Install(n)
  <2>1. /\ node'[n].machine = node[n].machine /\ node'[n].data = node[n].data
        /\ node'[n].running = [issuing |-> node[n].data, accepted |-> {}]
        /\ node'[n].staged = node[n].staged /\ node[n].running = NoTrust /\ node[n].data # 0
    BY <1>9, <1>3, Facts DEF Install, ChangeNode, NodeStates
  <2>2. t # 0 => \A k \in 0..3 : node[n].running # Form(k, t)
    BY <2>1, <1>3, FormsDiffer
  <2>3. Settled(node[n], t)
    <3>1. \A m \in 0..2 : m \in 0..3 /\ m + 1 \in 0..3
      OBVIOUS
    <3>2. QED
      BY <3>1, <2>2, <1>4, Steady DEF Between
  <2>4. Empty(node[n], t)
    BY <2>2, <2>3 DEF Settled
  <2>5. t # 0 /\ node'[n].running = Form(0, t) /\ node'[n].staged = NoTrust
    BY <2>1, <2>4, <1>3, Forms DEF Empty
  <2>6. Settled(node'[n], t)
    BY <2>5 DEF Settled
  <2>7. ~Arrived(node[n], t) /\ \A m \in 0..2 : ~Between(node[n], t, m)
    <3>1. \A m \in 0..2 : m \in 0..3 /\ m + 1 \in 0..3
      OBVIOUS
    <3>2. QED
      BY <3>1, <2>2, <2>5 DEF Arrived, Between
  <2>8. \A s \in 0..3 : NotAhead(node'[n], t, s) /\ ~NotBehind(node[n], t, s)
    <3>1. \A s \in 0..3 : 0 <= s + 1
      OBVIOUS
    <3>2. QED
      BY <3>1, <2>2, <2>5 DEF NotAhead, NotBehind
  <2>9. QED
    BY <2>1, <2>6, <2>7, <2>8
<1>10. CASE Boots(n)
  <2> DEFINE v == node[n]
             w == node'[n]
  <2>1. /\ w.machine = v.machine /\ w.data = v.data /\ w.staged = NoTrust
        /\ w.running = IF v.staged = NoTrust THEN v.running ELSE v.staged
    BY <1>10, <1>3, Facts DEF Boots, Booted, ChangeNode, NodeStates
  <2>2. Settled(v, t) \/ (t # 0 /\ \E m \in 0..2 : Between(v, t, m))
    BY <1>4, Steady
  <2> HIDE DEF v, w
  <2>3. /\ Settled(v, t) => Settled(w, t)
        /\ Arrived(v, t) => Arrived(w, t)
        /\ \A m \in 0..2 : t # 0 /\ Between(v, t, m) => Between(w, t, m)
        /\ \A s \in 0..3 : NotAhead(v, t, s) => NotAhead(w, t, s)
        /\ \A s \in 0..3 : (t # 0 /\ NotBehind(v, t, s)) => NotBehind(w, t, s)
    BY <2>1, <2>2, <1>3, BootKeeps
  <2>4. QED
    BY <2>1, <2>3 DEF v, w
<1>11. QED
  BY <1>6, <1>7, <1>8, <1>9, <1>10 DEF NodeProgress

-----------------------------------------------------------------------------
(* The caches, the backup and the TartCluster controller.                  *)

\* Nothing of the invariant is about the requests or the faults.
LEMMA Stutter ==
  ASSUME NEW t \in 0..MaxGeneration, Inv(t),
         UNCHANGED <<cluster, bundles, seen, node, creating, work>>
  PROVE  Inv(t)'
BY DEF Inv, Top, Founded, Home, Together, Open, Status, AllArrived, Lag, Creating, Working, SeenAt

\* Reconciles that end between two writes.
LEMMA Ends ==
  ASSUME NEW t \in 0..MaxGeneration, Inv(t),
         UNCHANGED <<cluster, bundles, seen, node>>,
         work' \in {work, Idle}, creating' \in {creating, Idle}
  PROVE  Inv(t)'
<1>1. Top(t)' /\ Founded(t)' /\ Status(t)' /\ Lag(t)'
  BY DEF Inv, Top, Founded, Home, Together, Open, Status, AllArrived, Lag
<1>2. Creating(t)'
  BY DEF Inv, Creating
<1>3. Working(t)'
  BY DEF Inv, Working, Open, Home, Together, AllArrived, SeenAt
<1>4. QED
  BY <1>1, <1>2, <1>3 DEF Inv

\* The status, when it is there, is of t or one ahead.
LEMMA StatusRange ==
  ASSUME NEW t \in 0..MaxGeneration, TypeInv, Inv(t)
  PROVE  /\ cluster.active # 0 => t # 0
         /\ work # Idle => t # 0 /\ cluster.active # 0
         /\ cluster.active # t + 1 => cluster.active \in {0, t}
         /\ seen.cluster.active # 0 => cluster.active # 0 /\ cluster.active \in {t, t + 1}
BY Facts DEF Inv, Status, Open

\* Delivery to the TartControlPlane controller's cache.
LEMMA DeliverStep ==
  ASSUME NEW t \in 0..MaxGeneration, TypeInv, Inv(t), Deliver
  PROVE  Inv(t)'
<1> USE RotationAssumption
<1>1. UNCHANGED <<cluster, bundles, node, creating, work>>
  BY DEF Deliver, DeliverCluster, DeliverBundle
<1>2. Top(t)' /\ Founded(t)' /\ Creating(t)'
  BY <1>1 DEF Inv, Top, Founded, Home, Together, Open, Creating
<1>3. \/ seen'.cluster = cluster /\ seen'.bundles = seen.bundles
      \/ \E g \in Generations : /\ seen'.cluster = seen.cluster
                                /\ seen'.bundles = [seen.bundles EXCEPT ![g] = bundles[g]]
  BY Facts DEF Deliver, DeliverCluster, DeliverBundle
<1>4. seen'.cluster.active \in {seen.cluster.active, cluster.active}
  BY <1>3
<1>5. Status(t)'
  BY <1>1, <1>4 DEF Inv, Status, Open, AllArrived
<1>6. \A g \in Generations : seen'.bundles[g] \in {seen.bundles[g], bundles[g]}
  BY <1>3, Facts
<1>7. Lag(t)'
  <2>1. \A g \in Generations : Rank(bundles[g]) <= Rank(bundles[g])
    BY Facts DEF Rank, BundleStates
  <2>2. \A g \in Generations : Rank(seen'.bundles[g]) <= Rank(bundles'[g])
    BY <2>1, <1>1, <1>6 DEF Inv, Lag
  <2>3. seen'.cluster.active # 0 =>
          \/ seen'.cluster.active = cluster'.active
          \/ seen'.cluster.active + 1 = cluster'.active /\ (cluster'.active = t => Home(t)')
    BY <1>1, <1>4 DEF Inv, Lag, Home
  <2>4. QED
    BY <2>2, <2>3 DEF Lag
<1>8. Working(t)'
  <2> SUFFICES ASSUME work # Idle PROVE Working(t)'
    BY <1>1 DEF Working
  <2>1. Working(t) /\ work \in Works /\ work.active + 1 \in Generations
    BY Facts DEF Inv, TypeInv, Aimed
  <2>2. t # 0 /\ cluster.active \in {t, t + 1}
    BY StatusRange DEF Inv, Status
  <2>3. work.step \in {"observe", "advance", "reboot", "status", "label"} =>
          seen'.cluster.active >= work.active
    BY <2>1, <2>2, <1>4, Facts DEF Working, Works, Generations
  <2>4. work.step = "recover" => seen'.bundles[work.active + 1] \in {"Active", "Retired"}
    <3> SUFFICES ASSUME work.step = "recover"
                 PROVE  seen'.bundles[work.active + 1] \in {"Active", "Retired"}
      OBVIOUS
    <3>1. seen.bundles[work.active + 1] \in {"Active", "Retired"}
      BY <2>1 DEF Working
    <3>2. bundles[work.active + 1] \in {"Active", "Retired"}
      BY <2>1, <3>1, Labels, Facts DEF Inv, Lag
    <3>3. QED
      BY <2>1, <3>1, <3>2, <1>6
  <2>5. \A m : Together(t, m)' <=> Together(t, m)
    BY <1>1 DEF Together
  <2>6. /\ Open(t)' <=> Open(t)
        /\ Home(t)' <=> Home(t)
        /\ AllArrived(t)' <=> AllArrived(t)
        /\ \A n : SeenAt(n, t)' <=> SeenAt(n, t)
    BY <1>1 DEF Open, Home, AllArrived, SeenAt
  <2>7. QED
    BY <2>1, <2>3, <2>4, <2>5, <2>6, <1>1 DEF Working
<1>9. QED
  BY <1>2, <1>5, <1>7, <1>8 DEF Inv

\* The management cluster comes back without its status.
LEMMA RestoreStep ==
  ASSUME NEW t \in 0..MaxGeneration, TypeInv, Inv(t), Restore
  PROVE  Inv(t)'
<1>1. UNCHANGED <<bundles, node>> /\ work' = Idle /\ creating' = Idle
  BY DEF Restore
<1>2. cluster'.active = 0 /\ seen'.cluster.active = 0 /\ seen'.bundles = bundles
  BY Facts DEF Restore, TartCluster
<1>3. Top(t)' /\ Founded(t)' /\ Creating(t)' /\ Working(t)'
  BY <1>1 DEF Inv, Top, Founded, Home, Together, Open, Creating, Working
<1>4. Status(t)'
  BY <1>1, <1>2 DEF Inv, Status
<1>5. Lag(t)'
  BY <1>1, <1>2, Facts DEF Lag, Rank, BundleStates
<1>6. QED
  BY <1>3, <1>4, <1>5 DEF Inv

\* The generation a lost status stood for is t, the first when there is none.
LEMMA Reconstructed ==
  ASSUME NEW t \in 0..MaxGeneration, TypeInv, Inv(t), NEW g \in reconstructActiveSecretGeneration
  PROVE  g = IF t = 0 THEN 1 ELSE t
<1> DEFINE actives == {h \in Generations : bundles[h] = "Active"}
<1>1. IsFiniteSet(actives)
  <2>1. IsFiniteSet(Generations)
    BY FS_Interval, RotationAssumption DEF Generations
  <2>2. actives \in SUBSET Generations
    OBVIOUS
  <2> HIDE DEF actives
  <2>3. QED
    BY <2>1, <2>2, FS_Subset
<1>2. CASE t = 0
  <2>1. actives = {}
    BY <1>2, RotationAssumption DEF Inv, Top, Generations
  <2>2. QED
    BY <2>1, <1>2 DEF reconstructActiveSecretGeneration
<1>3. CASE t # 0
  <2>1. t \in actives
    BY <1>3 DEF Inv, Top, Generations
  <2>2. g \in actives /\ Cardinality(actives) = 1
    BY <2>1 DEF reconstructActiveSecretGeneration
  <2> HIDE DEF actives
  <2>3. \E x : actives = {x}
    BY <2>2, <1>1, FS_Singleton
  <2>4. QED
    BY <2>1, <2>2, <2>3, <1>3
<1>4. QED
  BY <1>2, <1>3

\* A step of the TartCluster reconcile that writes nothing.
LEMMA CreatingMoves ==
  ASSUME NEW t \in 0..MaxGeneration, Inv(t), Creating(t)',
         UNCHANGED <<bundles, seen, node, work>>, cluster'.active = cluster.active
  PROVE  Inv(t)'
<1>1. Top(t)' /\ Founded(t)' /\ Status(t)' /\ Lag(t)'
  BY DEF Inv, Top, Founded, Home, Together, Open, Status, AllArrived, Lag
<1>2. Working(t)'
  BY DEF Inv, Working, Open, Home, Together, AllArrived, SeenAt
<1>3. QED
  BY <1>1, <1>2 DEF Inv

\* The reconcile's beginning and end.
LEMMA ClusterBeginEnd ==
  ASSUME NEW t \in 0..MaxGeneration, TypeInv, Inv(t),
         AssignClusterID \/ ReconcileCluster \/ PatchClusterStatus
  PROVE  Inv(t)'
<1> USE RotationAssumption
<1>1. CASE AssignClusterID
  <2>1. cluster'.active = cluster.active /\ UNCHANGED <<bundles, seen, node, creating, work>>
    BY <1>1, Facts DEF AssignClusterID, TartCluster
  <2>2. Creating(t)'
    BY <2>1 DEF Inv, Creating
  <2>3. QED
    BY <2>1, <2>2, CreatingMoves
<1>2. CASE ReconcileCluster
  <2>1. PICK g \in IF cluster.active = 0 THEN reconstructActiveSecretGeneration ELSE {cluster.active} :
          creating' = [step |-> "bundle", snapshot |-> cluster, request |-> requested, generation |-> g]
    BY <1>2 DEF ReconcileCluster
  <2>2. UNCHANGED <<cluster, bundles, seen, node, work>>
    BY <1>2 DEF ReconcileCluster
  <2>3. cluster.active = 0 => g = IF t = 0 THEN 1 ELSE t
    BY <2>1, Reconstructed
  <2>4. cluster.active # 0 => g = cluster.active /\ bundles[g] # "absent"
    BY <2>1 DEF Inv, Status, Open, Top
  <2>5. creating'.snapshot = cluster /\ creating'.generation = g /\ creating'.step = "bundle"
    BY <2>1
  <2>6. Creating(t)'
    BY <2>2, <2>3, <2>4, <2>5 DEF Creating
  <2>7. QED
    BY <2>2, <2>6, CreatingMoves
<1>3. CASE PatchClusterStatus
  <2>1. creating # Idle /\ creating \in Creations /\ creating.step = "status"
    BY <1>3, InFlight DEF PatchClusterStatus, TypeInv
  <2>2. UNCHANGED <<bundles, seen, node, work>> /\ creating' = Idle
    BY <1>3 DEF PatchClusterStatus, EndCreating
  <2>3. Creating(t)'
    BY <2>2 DEF Creating
  <2>4. CASE cluster' = cluster
    BY <2>2, <2>3, <2>4, CreatingMoves
  <2>5. CASE cluster' # cluster
    <3>1. cluster'.active = creating.generation /\ creating.snapshot.active # creating.generation
      BY <1>3, <2>5, Facts DEF PatchClusterStatus, TartCluster
    <3>2. creating.snapshot.active = 0 /\ cluster.active = 0 /\ t # 0 /\ creating.generation = t
      BY <3>1, <2>1 DEF Inv, Creating
    <3>3. work = Idle /\ seen.cluster.active = 0
      BY <3>2 DEF Inv, Status
    <3>4. Top(t)' /\ Founded(t)'
      BY <2>2 DEF Inv, Top, Founded, Home, Together, Open
    <3>5. Status(t)' /\ Lag(t)' /\ Working(t)'
      BY <2>2, <3>1, <3>2, <3>3 DEF Inv, Status, Lag, Working
    <3>6. QED
      BY <2>3, <3>4, <3>5 DEF Inv
  <2>6. QED
    BY <2>4, <2>5
<1>4. QED
  BY <1>1, <1>2, <1>3

\* The first Secret: t goes from 0 to 1.
LEMMA FirstBundle ==
  ASSUME TypeInv, Inv(0), creating # Idle, creating.snapshot.active = 0,
         bundles' = [bundles EXCEPT ![1] = "Active"],
         creating' = [creating EXCEPT !.step = "rotation"],
         UNCHANGED <<cluster, seen, node, work>>
  PROVE  Inv(1)'
<1> USE RotationAssumption
<1>1. cluster.active = 0 /\ creating.generation = 1 /\ work = Idle /\ seen.cluster.active = 0
  BY DEF Inv, Creating, Status
<1>2. 1 \in Generations /\ \A h \in Generations : h # 1 => h > 1
  BY DEF Generations
<1>3. bundles'[1] = "Active" /\ \A h \in Generations : h # 1 => bundles'[h] = "absent"
  BY <1>2, Facts DEF Inv, Top, Generations
<1>4. Top(1)'
  BY <1>2, <1>3 DEF Top, Generations
<1>5. Home(1)'
  <2>1. Home(0)
    BY DEF Inv, Founded, Open
  <2>2. QED
    BY <2>1 DEF Home, Settled, Empty
<1>6. Founded(1)'
  BY <1>5 DEF Founded
<1>7. Status(1)'
  BY <1>1 DEF Inv, Status
<1>8. Lag(1)'
  <2>1. \A g \in Generations : Rank(seen.bundles[g]) <= Rank(bundles'[g])
    <3>1. \A g \in Generations : bundles[g] = "absent"
      BY DEF Inv, Top, Generations
    <3>2. \A g \in Generations : seen.bundles[g] = "absent"
      BY <3>1, Labels, Facts DEF Inv, Lag
    <3>3. QED
      BY <1>3, <3>2 DEF Rank
  <2>2. QED
    BY <2>1, <1>1 DEF Lag
<1>9. creating'.snapshot = creating.snapshot /\ creating'.generation = 1 /\ creating'.step = "rotation"
  BY <1>1, Facts DEF Creations
<1>10. Creating(1)'
  BY <1>1, <1>9 DEF Creating
<1>11. Working(1)'
  BY <1>1 DEF Working
<1>12. QED
  BY <1>4, <1>6, <1>7, <1>8, <1>10, <1>11 DEF Inv

\* The TartCluster controller makes and checks Secrets.
LEMMA BundleStep ==
  ASSUME NEW t \in 0..MaxGeneration, TypeInv, Inv(t), ensureBundle
  PROVE  Rotation'
<1> USE RotationAssumption
<1> DEFINE g == creating.generation
<1>1. creating # Idle /\ creating \in Creations /\ creating.step = "bundle" /\ Creating(t)
  BY InFlight DEF ensureBundle, TypeInv, Inv
<1>2. UNCHANGED <<cluster, seen, node, work>> /\ g \in Generations
  BY <1>1 DEF ensureBundle, Creations
<1>3. CASE bundles[g] = "absent"
  <2>1. bundles' = [bundles EXCEPT ![g] = "Active"] /\ creating' = [creating EXCEPT !.step = "rotation"]
    BY <1>3 DEF ensureBundle
  <2>2. creating.snapshot.active = 0 /\ t = 0 /\ g = 1
    BY <1>1, <1>3 DEF Creating, Inv, Top
  <2>3. Inv(1)'
    BY <1>1, <1>2, <2>1, <2>2, FirstBundle
  <2>4. QED
    BY <2>3 DEF Rotation
<1>4. CASE bundles[g] = "Active"
  <2>1. bundles' = bundles /\ creating' = [creating EXCEPT !.step = "rotation"]
    BY <1>4 DEF ensureBundle
  <2>2. creating'.snapshot = creating.snapshot /\ creating'.generation = g /\ creating'.step = "rotation"
    BY <2>1, <1>1 DEF Creations
  <2>3. g <= t /\ t # 0
    BY <1>2, <1>4 DEF Inv, Top, Generations
  <2>4. Creating(t)'
    BY <1>1, <1>2, <2>1, <2>2, <2>3 DEF Creating
  <2>5. Inv(t)'
    BY <1>2, <2>1, <2>4, CreatingMoves
  <2>6. QED
    BY <2>5 DEF Rotation
<1>5. CASE bundles[g] \notin {"absent", "Active"}
  <2>1. bundles' = bundles /\ creating' = Idle
    BY <1>5 DEF ensureBundle, EndCreating
  <2>2. Inv(t)'
    BY <1>2, <2>1, Ends
  <2>3. QED
    BY <2>2 DEF Rotation
<1>6. QED
  BY <1>3, <1>4, <1>5

\* The next generation's Secret is made Pending.
LEMMA RotationBundleStep ==
  ASSUME NEW t \in 0..MaxGeneration, TypeInv, Inv(t), ensureCARotationBundle
  PROVE  Inv(t)'
<1> USE RotationAssumption
<1> DEFINE g == creating.generation
<1>1. creating # Idle /\ creating \in Creations /\ creating.step = "rotation" /\ Creating(t)
  BY InFlight DEF ensureCARotationBundle, TypeInv, Inv
<1>2. UNCHANGED <<cluster, seen, node, work>> /\ g \in Generations /\ creating.request \in 0..MaxGeneration
  BY <1>1 DEF ensureCARotationBundle, Creations
<1>3. CASE bundles' = bundles
  <2>1. creating' = Idle \/ creating' = [creating EXCEPT !.step = "status"]
    BY DEF ensureCARotationBundle, EndCreating
  <2>2. Creating(t)'
    <3>1. CASE creating' = Idle
      BY <3>1 DEF Creating
    <3>2. CASE creating' = [creating EXCEPT !.step = "status"]
      <4>1. creating'.snapshot = creating.snapshot /\ creating'.generation = g
        BY <3>2, <1>1 DEF Creations
      <4>2. QED
        BY <4>1, <1>1, <1>2, <1>3 DEF Creating
    <3>3. QED
      BY <2>1, <3>1, <3>2
  <2>3. QED
    BY <2>2, <1>2, <1>3, CreatingMoves
<1>4. CASE bundles' # bundles
  <2>1. /\ creating.request = g + 1 /\ bundles[g + 1] = "absent" /\ bundles[g] = "Active"
        /\ bundles' = [bundles EXCEPT ![g + 1] = "Pending"]
        /\ creating' = [creating EXCEPT !.step = "status"]
    BY <1>4 DEF ensureCARotationBundle, NextGeneration
  <2>2. g + 1 \in Generations
    BY <1>2, <2>1 DEF Generations
  <2>3. t # 0 /\ g = t
    BY <1>1, <1>2, <2>1, <2>2 DEF Inv, Top, Generations, Creating
  <2>4. bundles'[t + 1] = "Pending" /\ \A h \in Generations : h # t + 1 => bundles'[h] = bundles[h]
    BY <2>1, <2>2, <2>3, Facts
  <2>5. ~Open(t) /\ Open(t)' /\ Home(t) /\ Home(t)'
    BY <1>2, <2>1, <2>2, <2>3, <2>4 DEF Open, Inv, Founded, Home
  <2>6. Top(t)'
    BY <2>2, <2>3, <2>4 DEF Inv, Top, Generations
  <2>7. Founded(t)' /\ Status(t)'
    BY <1>2, <2>5 DEF Founded, Inv, Status
  <2>8. Lag(t)'
    <3>1. Rank(seen.bundles[t + 1]) <= Rank("Pending")
      BY <2>1, <2>2, <2>3, Labels, Facts DEF Inv, Lag
    <3>2. \A h \in Generations : Rank(seen.bundles[h]) <= Rank(bundles'[h])
      BY <2>2, <2>3, <2>4, <3>1 DEF Inv, Lag
    <3>3. QED
      BY <1>2, <2>5, <3>2 DEF Inv, Lag
  <2>9. creating'.snapshot = creating.snapshot /\ creating'.generation = g
    BY <2>1, <1>1 DEF Creations
  <2>10. Creating(t)'
    BY <1>1, <1>2, <2>1, <2>2, <2>3, <2>4, <2>9, Facts DEF Creating, Generations
  <2>11. Working(t)'
    <3> SUFFICES ASSUME work # Idle PROVE Working(t)'
      BY <1>2 DEF Working
    <3>1. Working(t) /\ work \in Works
      BY Facts DEF Inv
    <3>2. work.step \in {"observe", "advance", "reboot", "status", "label"} => work.active # t
      BY <2>5, <3>1 DEF Working
    <3>3. QED
      BY <1>2, <2>5, <3>1, <3>2 DEF Working
  <2>12. QED
    BY <2>6, <2>7, <2>8, <2>10, <2>11 DEF Inv
<1>5. QED
  BY <1>3, <1>4

-----------------------------------------------------------------------------
(* The TartControlPlane controller.                                        *)

\* A step that only moves the TartControlPlane reconcile on.
LEMMA WorkMoves ==
  ASSUME NEW t \in 0..MaxGeneration, Inv(t), Working(t)', cluster.active # 0,
         UNCHANGED <<cluster, bundles, seen, node, creating>>
  PROVE  Inv(t)'
<1>1. Top(t)' /\ Founded(t)' /\ Status(t)' /\ Lag(t)'
  BY DEF Inv, Top, Founded, Home, Together, Open, Status, AllArrived, Lag
<1>2. Creating(t)'
  BY DEF Inv, Creating
<1>3. QED
  BY <1>1, <1>2 DEF Inv

\* A rotation starts from what the cache shows: from t, or from the generation
\* before, all founders being on t.
LEMMA BeginStep ==
  ASSUME NEW t \in 0..MaxGeneration, TypeInv, Inv(t),
         reconcileCARotation \/ recoverCompletedCARotationRequest
  PROVE  Inv(t)'
<1> USE RotationAssumption
<1> DEFINE a == seen.cluster.active
<1>1. UNCHANGED <<cluster, bundles, seen, node, creating>>
  BY DEF reconcileCARotation, recoverCompletedCARotationRequest
<1>2. a \in Generations /\ seen.bundles[a] = "Active"
  BY Facts DEF reconcileCARotation, recoverCompletedCARotationRequest, validateActiveBundle, Generations
<1>3. cluster.active # 0 /\ cluster.active \in {t, t + 1} /\ t # 0
  BY <1>2, StatusRange DEF Generations
<1>4. a <= t
  <2>1. bundles[a] \in {"Active", "Retired"}
    BY <1>2, Labels, Facts DEF Inv, Lag
  <2>2. QED
    BY <2>1, <1>2 DEF Inv, Top, Generations
<1>5. CASE recoverCompletedCARotationRequest
  <2>1. work'.step = "recover" /\ work'.active = a - 1
    BY <1>5 DEF recoverCompletedCARotationRequest
  <2>2. work'.active < t /\ work'.active + 1 = a
    BY <2>1, <1>2, <1>4 DEF Generations
  <2>3. Working(t)'
    BY <2>1, <2>2, <1>1, <1>2 DEF Working
  <2>4. QED
    BY <2>3, <1>1, <1>3, WorkMoves
<1>6. CASE reconcileCARotation
  <2>1. /\ work'.step = "observe" /\ work'.active = a
        /\ work'.todo = {n \in Nodes : node[n].machine # "none" /\ node[n].machine # "deleting"}
    BY <1>6 DEF reconcileCARotation, clusterMachinesForCARotation
  <2>2. Founders \ work'.todo = {}
    BY <2>1 DEF Inv, Status, Nodes
  <2>3. a = t => Open(t)
    <3> SUFFICES ASSUME a = t PROVE Open(t)
      OBVIOUS
    <3>1. t + 1 \in Generations /\ seen.bundles[t + 1] \in {"Pending", "Active"}
      BY <1>6 DEF reconcileCARotation, observeRotationBundle, NextGeneration
    <3>2. bundles[t + 1] # "absent"
      BY <3>1, Labels, Facts DEF Inv, Lag
    <3>3. QED
      BY <3>1, <3>2, <1>3 DEF Open, Inv, Top, Generations
  <2>4. a # t => a + 1 = t /\ cluster.active = t /\ Home(t)
    BY <1>2, <1>3, <1>4, Facts DEF Inv, Lag, Generations
  <2>5. a >= a
    BY <1>2 DEF Generations
  <2>6. Working(t)'
    BY <1>1, <2>1, <2>2, <2>3, <2>4, <2>5 DEF Working, Open, Home
  <2>7. QED
    BY <2>6, <1>1, <1>3, WorkMoves
<1>7. QED
  BY <1>5, <1>6

\* What the observation of a founder shows is where it stands, or nothing.
LEMMA StageSeen ==
  ASSUME NEW t \in Nat, t # 0, NEW n \in Nodes, NEW k \in 0..3, node[n].running = Form(k, t)
  PROVE  ObserveStage(n, t, t + 1) \in {k, Unknown}
<1> DEFINE r == Form(k, t)
<1>1. /\ k = 0 => r.issuing = t /\ r.accepted = {}
      /\ k = 1 => r.issuing = t /\ r.accepted = {t + 1}
      /\ k = 2 => r.issuing = t + 1 /\ r.accepted = {t}
      /\ k = 3 => r.issuing = t + 1 /\ r.accepted = {}
  BY Forms
<1>2. caStage(r.issuing, r.accepted, t, t + 1) = k
  <2> HIDE DEF r
  <2>1. QED
    BY <1>1 DEF caStage, Known, Stable, DualTrust, Cutover, Rotated, Unknown
<1>3. ObserveStageWithoutAggregator(r, node[n].api, t, t + 1) \in {k, Unknown}
  <2> HIDE DEF r
  <2>1. QED
    BY <1>2 DEF ObserveStageWithoutAggregator
<1> HIDE DEF r
<1>4. node[n].running = r
  BY DEF r
<1>5. QED
  BY <1>2, <1>3, <1>4 DEF ObserveStage

\* One node is observed.
LEMMA ObserveStep ==
  ASSUME NEW t \in 0..MaxGeneration, TypeInv, Inv(t), NEW n \in Nodes,
         observeControlPlaneCARotation(n)
  PROVE  Inv(t)'
<1> USE RotationAssumption
<1> DEFINE s == ObserveStage(n, work.active, work.active + 1)
<1>1. /\ work # Idle /\ work \in Works /\ work.step = "observe" /\ Working(t)
      /\ work.active \in Generations
  BY InFlight DEF observeControlPlaneCARotation, TypeInv, Inv, WorkSteps, Works
<1>2. UNCHANGED <<cluster, bundles, seen, node, creating>>
  BY DEF observeControlPlaneCARotation
<1>3. t # 0 /\ cluster.active # 0
  BY <1>1, StatusRange
<1>4. CASE work' = Idle
  BY <1>2, <1>4, Ends
<1>5. CASE work' # Idle
  <2>1. /\ \E g \in {work.active, work.active + 1} : DialRotationBundle(n, g)
        /\ work' = [work EXCEPT !.todo = @ \ {n}, !.stage[n] = s] /\ s # Unknown
    BY <1>5 DEF observeControlPlaneCARotation, EndWork, NextGeneration
  <2>2. s \in Stages
    BY StageType
  <2>3. /\ work'.step = "observe" /\ work'.active = work.active /\ work'.todo = work.todo \ {n}
        /\ work'.stage[n] = s /\ \A b \in Nodes : b # n => work'.stage[b] = work.stage[b]
    <3> HIDE DEF s
    <3>1. QED
      BY <2>1, <2>2, <1>1 DEF Works
  <2>4. node[n].running # NoTrust
    BY <2>1, <1>1 DEF DialRotationBundle, NoTrust, Generations
  <2>5. ASSUME n \in Founders, work.active = t
        PROVE  s \in 0..3 /\ NotBehind(node[n], t, s) /\ \A b \in Founders : NotAhead(node[b], t, s)
    <3>1. CASE Home(t)
      <4>1. node[n].running = Form(0, t)
        BY <3>1, <2>4, <2>5 DEF Home, Settled, Empty
      <4>2. s = 0
        BY <4>1, <2>1, <2>5, <1>3, StageSeen
      <4>3. \A b \in Founders : NotAhead(node[b], t, 0)
        BY <3>1 DEF Home, Settled, Empty, NotAhead
      <4> HIDE DEF s
      <4>4. QED
        BY <4>1, <4>2, <4>3 DEF NotBehind
    <3>2. ASSUME NEW m \in 0..2, Together(t, m)
          PROVE  s \in 0..3 /\ NotBehind(node[n], t, s) /\ \A b \in Founders : NotAhead(node[b], t, s)
      <4>1. PICK k \in {m, m + 1} : node[n].running = Form(k, t)
        BY <3>2, <2>5 DEF Together, Between
      <4>2. k \in 0..3 /\ m \in 0..3 /\ m + 1 \in 0..3 /\ m <= k + 1 /\ m + 1 <= k + 1
        BY <4>1
      <4>3. s = k
        BY <4>1, <4>2, <2>1, <2>5, <1>3, StageSeen
      <4>4. \A b \in Founders : NotAhead(node[b], t, k)
        BY <3>2, <4>2 DEF Together, Between, NotAhead
      <4> HIDE DEF s
      <4>5. k >= k
        BY <4>2
      <4>6. NotBehind(node[n], t, k)
        BY <4>1, <4>2, <4>5 DEF NotBehind
      <4>7. QED
        BY <4>2, <4>3, <4>4, <4>6
    <3>3. QED
      BY <3>1, <3>2 DEF Inv, Founded
  <2>6. ASSUME n \in Founders, work.active # t
        PROVE  s = 3
    <3>1. work.active + 1 = t /\ Home(t)
      BY <1>1, <2>6 DEF Working
    <3>2. node[n].running = Form(0, t)
      BY <3>1, <2>4, <2>6 DEF Home, Settled, Empty
    <3>3. node[n].running = Form(3, work.active)
      BY <3>1, <3>2, <1>1, Forms DEF Generations
    <3>4. QED
      BY <3>3, <2>1, <1>1, StageSeen DEF Generations
  <2> HIDE DEF s
  <2>7. ASSUME NEW b \in Founders \ work'.todo
        PROVE  IF work.active = t THEN SeenAt(b, t)' ELSE work'.stage[b] = 3
    <3>1. CASE b = n
      BY <3>1, <2>3, <2>5, <2>6, <1>2 DEF SeenAt
    <3>2. CASE b # n
      <4>1. b \in Founders \ work.todo /\ work'.stage[b] = work.stage[b]
        BY <3>2, <2>3, <2>7 DEF Nodes
      <4>2. QED
        BY <4>1, <1>1, <1>2 DEF Working, SeenAt
    <3>3. QED
      BY <3>1, <3>2
  <2>8. Working(t)'
    BY <1>1, <1>2, <2>3, <2>7 DEF Working, Open, Home
  <2>9. QED
    BY <2>8, <1>2, <1>3, WorkMoves
<1>6. QED
  BY <1>4, <1>5

\* All founders were seen at stage s or beyond, one of them at s: they are within
\* one stage of it.
LEMMA SeenTogether ==
  ASSUME NEW t \in Nat, t # 0, Founded(t), NEW s \in 0..2, NEW n \in Founders,
         \A b \in Founders : SeenAt(b, t), work.stage[n] = s,
         \A b \in Founders : work.stage[b] >= s
  PROVE  Together(t, s)
<1> SUFFICES ASSUME NEW b \in Founders PROVE Between(node[b], t, s)
  BY DEF Together
<1> DEFINE v == node[b]
<1>1. NotAhead(v, t, s) /\ NotBehind(v, t, work.stage[b]) /\ work.stage[b] \in 0..3
  BY DEF SeenAt
<1>2. PICK k \in 0..3 : k >= work.stage[b] /\ v.running = Form(k, t)
  BY <1>1 DEF NotBehind
<1>3. v.running # NoTrust
  BY <1>2, FormsDiffer
<1>4. PICK j \in 0..3 : j <= s + 1 /\ v.running = Form(j, t)
  BY <1>1, <1>3 DEF NotAhead
<1>5. k = j
  BY <1>2, <1>4, FormsDiffer
<1>6. k \in {s, s + 1}
  BY <1>1, <1>2, <1>4, <1>5
<1>7. CASE v.staged = NoTrust
  <2>1. s \in 0..3
    OBVIOUS
  <2>2. Form(s, t) # NoTrust
    BY <2>1, FormsDiffer
  <2>3. QED
    BY <1>2, <1>6, <1>7, <2>2 DEF Between
<1>8. CASE v.staged # NoTrust
  <2>1. PICK i \in 0..3 : i <= s + 1 /\ v.staged = Form(i, t)
    BY <1>1, <1>8 DEF NotAhead
  <2>2. i >= k
    <3>1. CASE Settled(v, t)
      <4>1. k = 0
        BY <3>1, <1>2, <1>3, FormsDiffer DEF Settled, Empty
      <4>2. QED
        BY <4>1
    <3>2. ASSUME NEW m \in 0..2, Between(v, t, m)
          PROVE  i >= k
      <4>1. m \in 0..3 /\ m + 1 \in 0..3
        OBVIOUS
      <4>2. i \in {m, m + 1} /\ k \in {m, m + 1}
        BY <3>2, <4>1, <1>2, <1>8, <2>1, FormsDiffer DEF Between
      <4>3. ~(k = m + 1 /\ i = m)
        BY <3>2, <1>2, <2>1 DEF Between
      <4>4. QED
        BY <4>2, <4>3
    <3>3. QED
      BY <3>1, <3>2 DEF Founded, Home, Together
  <2>3. i \in {s, s + 1}
    BY <2>1, <2>2, <1>6
  <2>4. s \in 0..3 /\ s + 1 \in 0..3
    OBVIOUS
  <2>5. v.running = Form(s + 1, t) => v.staged # Form(s, t)
    <3> SUFFICES ASSUME v.running = Form(s + 1, t), v.staged = Form(s, t) PROVE FALSE
      OBVIOUS
    <3>1. k = s + 1 /\ i = s
      BY <1>2, <2>1, <2>4, FormsDiffer
    <3>2. QED
      BY <3>1, <2>2
  <2>6. QED
    BY <1>2, <1>6, <2>1, <2>3, <2>5 DEF Between
<1>9. QED
  BY <1>7, <1>8

\* All founders were seen at the last stage: they are all on the next generation.
LEMMA SeenArrived ==
  ASSUME NEW t \in Nat, t # 0, Founded(t), \A b \in Founders : SeenAt(b, t) /\ work.stage[b] = 3
  PROVE  AllArrived(t)
<1> SUFFICES ASSUME NEW b \in Founders PROVE Arrived(node[b], t)
  BY DEF AllArrived
<1>1. node[b].running = Form(3, t)
  <2>1. PICK k \in 0..3 : k >= 3 /\ node[b].running = Form(k, t)
    BY DEF SeenAt, NotBehind
  <2>2. k = 3
    BY <2>1
  <2>3. QED
    BY <2>1, <2>2
<1>2. Form(3, t) # NoTrust /\ Form(3, t) # Form(0, t) /\ Form(3, t) # Form(1, t) /\ Form(3, t) # Form(2, t)
  BY FormsDiffer
<1>3. ~Settled(node[b], t)
  BY <1>1, <1>2 DEF Settled, Empty
<1>4. PICK m \in 0..2 : Between(node[b], t, m)
  BY <1>3 DEF Founded, Home, Together
<1>5. m = 2
  <2>1. CASE m = 0
    BY <2>1, <1>1, <1>2, <1>4 DEF Between
  <2>2. CASE m = 1
    BY <2>2, <1>1, <1>2, <1>4 DEF Between
  <2>3. QED
    BY <2>1, <2>2
<1>6. m + 1 = 3
  BY <1>5
<1>7. QED
  BY <1>1, <1>4, <1>5, <1>6 DEF Between, Arrived

\* The decision which nodes to advance, or that all have arrived.
LEMMA DecideStep ==
  ASSUME NEW t \in 0..MaxGeneration, TypeInv, Inv(t), DecideStage
  PROVE  Inv(t)'
<1> USE RotationAssumption
<1> DEFINE observed == {n \in Nodes : work.stage[n] # Unknown}
           S == {work.stage[n] : n \in observed}
           min == minimumCARotationStage(S)
           T == {n \in observed : work.stage[n] = min}
<1>1. /\ work # Idle /\ work \in Works /\ work.step = "observe" /\ Working(t)
      /\ work.todo = {} /\ work.active \in Generations
  BY InFlight DEF DecideStage, TypeInv, Inv, WorkSteps, Works
<1>2. UNCHANGED <<cluster, bundles, seen, node, creating>>
  BY DEF DecideStage
<1>3. t # 0 /\ cluster.active # 0 /\ t \in Nat /\ Founded(t)
  BY <1>1, StatusRange DEF Inv
<1>4. \A n \in Founders : IF work.active = t THEN SeenAt(n, t) ELSE work.stage[n] = 3
  BY <1>1 DEF Working
<1>5. \A n \in Founders : n \in observed
  BY <1>4 DEF SeenAt, Unknown, Nodes
<1>6. \A n \in observed : work.stage[n] \in S /\ work.stage[n] \in 0..3
  BY <1>1 DEF Works, Stages, Unknown
<1>7. ASSUME observed # {}
      PROVE  min \in S /\ min \in 0..3 /\ \A n \in observed : min <= work.stage[n]
  <2>1. PICK n \in observed : TRUE
    BY <1>7
  <2>2. S # {} /\ S \in SUBSET Stages
    <3>1. work.stage[n] \in S
      BY <2>1
    <3>2. \A x \in S : x \in Stages
      BY <1>6 DEF Stages
    <3> HIDE DEF S
    <3>3. QED
      BY <3>1, <3>2
  <2>3. min \in S /\ \A x \in S : min <= x
    <3> HIDE DEF S
    <3>1. QED
      BY <2>2, MinimumStage
  <2>4. \A x \in S : x \in 0..3
    BY <1>6
  <2>5. QED
    BY <2>3, <2>4, <1>6
<1>8. CASE work' = Idle
  BY <1>2, <1>8, Ends
<1>9. CASE observed # {} /\ min = Rotated /\ work' = [work EXCEPT !.step = "status"]
  <2>1. work'.step = "status" /\ work'.active = work.active
    BY <1>1, <1>9, StepEdit DEF WorkSteps
  <2>2. \A n \in Founders : work.stage[n] = 3
    <3> HIDE DEF min, observed
    <3>1. QED
      BY <1>5, <1>6, <1>7, <1>9 DEF Rotated
  <2>3. work.active = t => AllArrived(t)
    BY <1>3, <1>4, <2>2, SeenArrived
  <2>4. Working(t)'
    BY <1>1, <1>2, <2>1, <2>3 DEF Working, Open, Home, AllArrived
  <2>5. QED
    BY <2>4, <1>2, <1>3, WorkMoves
<1>10. CASE observed # {} /\ min # Rotated /\ work' = [work EXCEPT !.step = "advance", !.todo = T]
  <2>1. T \in SUBSET Nodes /\ \A n \in T : work.stage[n] = min
    OBVIOUS
  <2>2. min \in 0..2
    <3> HIDE DEF min, S, observed
    <3>1. QED
      BY <1>7, <1>10 DEF Rotated
  <2>3. /\ work'.step = "advance" /\ work'.active = work.active /\ work'.todo = T
        /\ work'.stage = work.stage
    <3> HIDE DEF T
    <3>1. QED
      BY <1>1, <1>10, <2>1 DEF Works
  <2>4. ASSUME NEW n \in Founders \intersect T
        PROVE  work.active = t /\ Together(t, work.stage[n])
    <3>1. work.stage[n] = min
      BY <2>1, <2>4
    <3>2. work.active = t
      <4> HIDE DEF min, T
      <4>1. QED
        BY <3>1, <2>2, <2>4, <1>4
    <3>3. \A b \in Founders : SeenAt(b, t) /\ work.stage[b] >= min
      <4>1. \A b \in Founders : SeenAt(b, t)
        BY <1>4, <3>2
      <4>2. \A b \in Founders : work.stage[b] >= min
        <5> HIDE DEF min, observed
        <5>1. QED
          BY <1>5, <1>6, <1>7, <1>10
      <4>3. QED
        BY <4>1, <4>2
    <3> HIDE DEF min, T
    <3>4. Together(t, min)
      BY <3>1, <3>3, <2>2, <2>4, <1>3, SeenTogether
    <3>5. QED
      BY <3>1, <3>2, <3>4
  <2> HIDE DEF T
  <2>5. Working(t)'
    BY <1>1, <1>2, <2>3, <2>4 DEF Working, Open, Home, Together
  <2>6. QED
    BY <2>5, <1>2, <1>3, WorkMoves
<1>11. QED
  BY <1>8, <1>9, <1>10 DEF DecideStage, EndWork, Step

\* The founders run what they ran.
SameFounders ==
  \A b \in Founders :
    /\ node'[b].machine = node[b].machine /\ node'[b].data = node[b].data
    /\ node'[b].running = node[b].running /\ node'[b].staged = node[b].staged

\* Then what is known of them together is what it was.
LEMMA SamePlaces ==
  ASSUME NEW t \in 0..MaxGeneration, SameFounders, bundles' = bundles
  PROVE  /\ Open(t)' <=> Open(t)
         /\ Home(t)' <=> Home(t)
         /\ AllArrived(t)' <=> AllArrived(t)
         /\ \A m : Together(t, m)' <=> Together(t, m)
<1>1. Open(t)' <=> Open(t)
  BY DEF Open
<1>2. Home(t)' <=> Home(t)
  BY DEF Home, Settled, Empty, SameFounders
<1>3. AllArrived(t)' <=> AllArrived(t)
  BY DEF AllArrived, Arrived, SameFounders
<1>4. \A m : Together(t, m)' <=> Together(t, m)
  BY DEF Together, Between, SameFounders
<1>5. QED
  BY <1>1, <1>2, <1>3, <1>4

\* A step that moves the TartControlPlane reconcile on and no founder.
LEMMA WorkMovesNodes ==
  ASSUME NEW t \in 0..MaxGeneration, Inv(t), Working(t)', cluster.active # 0, SameFounders,
         UNCHANGED <<cluster, bundles, seen, creating>>
  PROVE  Inv(t)'
<1>1. Top(t)' /\ Creating(t)'
  BY DEF Inv, Top, Creating
<1>2. Founded(t)' /\ Lag(t)'
  BY SamePlaces DEF Inv, Founded, Lag
<1>3. Status(t)'
  BY SamePlaces DEF Inv, Status, SameFounders
<1>4. QED
  BY <1>1, <1>2, <1>3 DEF Inv

\* The configuration that is staged at a stage is the next stage's.
LEMMA NextForms ==
  ASSUME NEW t \in Nat
  PROVE  /\ NewTrust(0, t, t + 1) = Form(1, t)
         /\ NewTrust(1, t, t + 1) = Form(2, t)
         /\ NewTrust(2, t, t + 1) = Form(3, t)
<1>1. \A a, p : /\ NewTrust(0, a, p) = [issuing |-> a, accepted |-> {p}]
                /\ NewTrust(1, a, p) = [issuing |-> p, accepted |-> {a}]
                /\ NewTrust(2, a, p) = [issuing |-> p, accepted |-> {}]
  <2> TAKE a, p
  <2>0. 1 # 0 /\ 2 # 0 /\ 2 # 1
    OBVIOUS
  <2>1. NewTrust(0, a, p) = [issuing |-> a, accepted |-> {p}]
    BY <2>0, Zenon DEF NewTrust, Stable, DualTrust, Cutover
  <2>2. NewTrust(1, a, p) = [issuing |-> p, accepted |-> {a}]
    BY <2>0, Zenon DEF NewTrust, Stable, DualTrust, Cutover
  <2>3. NewTrust(2, a, p) = [issuing |-> p, accepted |-> {}]
    BY <2>0 DEF NewTrust, Stable, DualTrust, Cutover
  <2>4. QED
    BY <2>1, <2>2, <2>3
<1>2. NewTrust(0, t, t + 1) = Form(1, t)
  BY <1>1, Forms
<1>3. NewTrust(1, t, t + 1) = Form(2, t)
  <2>1. NewTrust(1, t, t + 1) = [issuing |-> t + 1, accepted |-> {t}]
    BY <1>1, Zenon
  <2>2. Form(2, t) = [issuing |-> t + 1, accepted |-> {t}]
    BY Forms
  <2>3. QED
    BY <2>1, <2>2, Zenon
<1>4. NewTrust(2, t, t + 1) = Form(3, t)
  <2>1. NewTrust(2, t, t + 1) = [issuing |-> t + 1, accepted |-> {}]
    BY <1>1, Zenon
  <2>2. Form(3, t) = [issuing |-> t + 1, accepted |-> {}]
    BY Forms
  <2>3. QED
    BY <2>1, <2>2, Zenon
<1>5. QED
  BY <1>2, <1>3, <1>4

\* The configuration of the next stage is staged on a node.
LEMMA AdvanceStep ==
  ASSUME NEW t \in 0..MaxGeneration, TypeInv, Inv(t), NEW n \in Nodes, advanceCATrust(n)
  PROVE  Inv(t)'
<1> USE RotationAssumption
<1>1. /\ work # Idle /\ work \in Works /\ work.step = "advance" /\ n \in work.todo
      /\ Working(t) /\ work.active \in Generations /\ work.stage[n] \in 0..2
  BY InFlight DEF advanceCATrust, TypeInv, Inv, WorkSteps, Works, Aimed
<1>s. PICK s \in 0..2 : s = work.stage[n]
  BY <1>1
<1> DEFINE new == NewTrust(s, work.active, work.active + 1)
<1>2. UNCHANGED <<cluster, bundles, seen, creating>>
  BY DEF advanceCATrust
<1>3. t # 0 /\ cluster.active # 0 /\ t \in Nat
  BY <1>1, StatusRange
<1>4. CASE node' = node /\ work' = Idle
  BY <1>2, <1>4, Ends
<1>5. CASE /\ node' = [node EXCEPT ![n].staged = new, ![n].apiStaged = NewAccepted(n, new)]
           /\ work' = [work EXCEPT !.step = "reboot", !.target = n, !.todo = @ \ {n}]
  <2>1. /\ work'.step = "reboot" /\ work'.active = work.active
        /\ work'.todo = work.todo \ {n} /\ work'.stage = work.stage
    BY <1>1, <1>5 DEF Works
  <2>2. /\ node'[n].machine = node[n].machine /\ node'[n].data = node[n].data
        /\ node'[n].running = node[n].running /\ node'[n].staged = new
        /\ \A b \in Nodes : b # n => node'[b] = node[b]
    <3> HIDE DEF new
    <3>1. QED
      BY <1>5, Facts DEF NodeStates
  <2>3. CASE n \notin Founders
    <3>1. SameFounders
      BY <2>2, <2>3 DEF SameFounders, Nodes
    <3>2. Working(t)'
      BY <1>1, <1>2, <2>1, <3>1, SamePlaces DEF Working
    <3>3. QED
      BY <1>2, <1>3, <3>1, <3>2, WorkMovesNodes
  <2>4. CASE n \in Founders
    <3>1. work.active = t /\ Open(t) /\ Together(t, s) /\ seen.cluster.active >= t
      BY <1>1, <1>s, <2>4 DEF Working
    <3>2. new = Form(s + 1, t)
      <4>1. new = NewTrust(s, t, t + 1)
        BY <3>1
      <4> HIDE DEF new
      <4>2. s = 0 \/ s = 1 \/ s = 2
        OBVIOUS
      <4>3. 0 + 1 = 1 /\ 1 + 1 = 2 /\ 2 + 1 = 3
        OBVIOUS
      <4>4. QED
        BY <4>1, <4>2, <4>3, <1>3, NextForms, Zenon
    <3>n. s \in 0..3 /\ s + 1 \in 0..3
      OBVIOUS
    <3> HIDE DEF new
    <3>3. Between(node'[n], t, s)
      <4>1. Form(s + 1, t) # Form(s, t)
        BY <3>n, <1>3, FormsDiffer
      <4>2. QED
        BY <4>1, <2>2, <2>4, <3>1, <3>2 DEF Together, Between
    <3>4. Together(t, s)'
      BY <2>2, <3>1, <3>3 DEF Together, Between, Nodes
    <3>5. Open(t)' /\ Founded(t)'
      BY <1>1, <1>2, <3>1, <3>4 DEF Open, Founded
    <3>6. AllArrived(t) => AllArrived(t)'
      <4> SUFFICES ASSUME AllArrived(t) PROVE AllArrived(t)'
        OBVIOUS
      <4>1. node[n].running = Form(3, t) /\ node[n].running \in {Form(s, t), Form(s + 1, t)}
        BY <2>4, <3>1 DEF AllArrived, Arrived, Together, Between
      <4>2. s + 1 = 3
        BY <4>1, <3>n, <1>1, <1>3, FormsDiffer
      <4>3. Arrived(node'[n], t)
        BY <4>1, <4>2, <2>2, <3>2 DEF Arrived
      <4>4. QED
        BY <4>3, <2>2 DEF AllArrived, Nodes
    <3>7. Top(t)' /\ Creating(t)'
      BY <1>2 DEF Inv, Top, Creating
    <3>8. Status(t)'
      <4>1. \A b \in Founders : node'[b].machine = "exists"
        BY <2>2 DEF Inv, Status, Nodes
      <4>2. QED
        BY <4>1, <1>2, <1>3, <3>5, <3>6 DEF Inv, Status
    <3>9. Lag(t)'
      <4>1. seen.cluster.active + 1 # t
        BY <3>1, Facts
      <4>2. QED
        BY <4>1, <1>2 DEF Inv, Lag
    <3>10. Working(t)'
      <4>1. \A b \in Founders \intersect work'.todo : work.stage[b] = s
        BY <1>1, <1>s, <2>1 DEF TypeInv, Aimed
      <4>2. QED
        BY <4>1, <1>1, <1>2, <2>1, <3>1, <3>4, <3>5 DEF Working
    <3>11. QED
      BY <3>5, <3>7, <3>8, <3>9, <3>10 DEF Inv
  <2>5. QED
    BY <2>3, <2>4
<1>6. QED
  BY <1>4, <1>5, <1>s DEF advanceCATrust, EndWork, NextGeneration

\* The node is rebooted into it.
LEMMA RebootStep ==
  ASSUME NEW t \in 0..MaxGeneration, TypeInv, Inv(t), Reboot
  PROVE  Inv(t)'
<1>1. /\ work # Idle /\ work \in Works /\ work.step = "reboot" /\ Working(t)
      /\ work.target \in Nodes
  BY InFlight DEF Reboot, TypeInv, Inv, WorkSteps, Works, Aimed
<1>2. UNCHANGED <<cluster, bundles, seen, creating>>
  BY DEF Reboot
<1>3. cluster.active # 0
  BY <1>1, StatusRange
<1>4. SameFounders
  <2>1. CASE node' = node
    BY <2>1 DEF SameFounders
  <2>2. CASE node' = [node EXCEPT ![work.target].up = FALSE]
    BY <2>2, <1>1, Facts DEF SameFounders, NodeStates, Nodes
  <2>3. QED
    BY <2>1, <2>2 DEF Reboot
<1>5. Working(t)'
  <2>1. CASE work' = Idle
    BY <2>1 DEF Working
  <2>2. CASE work' = [work EXCEPT !.step = "advance", !.target = "none"]
    <3>1. /\ work'.step = "advance" /\ work'.active = work.active
          /\ work'.todo = work.todo /\ work'.stage = work.stage
      BY <1>1, <2>2 DEF Works
    <3>2. QED
      BY <3>1, <1>1, <1>2, <1>4, SamePlaces DEF Working
  <2>3. QED
    BY <2>1, <2>2 DEF Reboot, EndWork
<1>6. QED
  BY <1>2, <1>3, <1>4, <1>5, WorkMovesNodes

-----------------------------------------------------------------------------
(* The three writes of a promotion.                                        *)

\* The status is written when all founders have arrived.
LEMMA PromoteStatusStep ==
  ASSUME NEW t \in 0..MaxGeneration, TypeInv, Inv(t), PromoteStatus
  PROVE  Inv(t)'
<1> USE RotationAssumption
<1>1. /\ work # Idle /\ work \in Works /\ work.step = "status" /\ Working(t)
      /\ work.active \in Generations /\ work.active + 1 \in Generations
  BY InFlight DEF PromoteStatus, TypeInv, Inv, WorkSteps, Works, Aimed
<1>2. UNCHANGED <<bundles, seen, node, creating>>
  BY DEF PromoteStatus
<1>3. t # 0 /\ cluster.active # 0 /\ cluster.active \in {t, t + 1} /\ t \in Nat
  BY <1>1, StatusRange DEF Inv, Status
<1>4. CASE cluster' = cluster /\ work' = Idle
  BY <1>2, <1>4, Ends
<1>5. CASE /\ seen.bundles[work.active + 1] \in {"Pending", "Active"}
           /\ cluster' = [cluster EXCEPT !.active = work.active + 1]
           /\ work' = [work EXCEPT !.step = IF seen.bundles[work.active + 1] = "Active"
                                            THEN "demote" ELSE "label"]
  <2>1. /\ work'.step = (IF seen.bundles[work.active + 1] = "Active" THEN "demote" ELSE "label")
        /\ work'.active = work.active
    BY <1>1, <1>5 DEF Works
  <2>2. cluster'.active = work.active + 1
    BY <1>5, Facts DEF TartCluster
  <2>3. CASE work.active # t
    <3>1. work.active + 1 = t /\ cluster.active = t /\ Home(t) /\ seen.cluster.active >= work.active
      BY <1>1, <2>3 DEF Working
    <3>2. cluster' = cluster
      BY <1>5, <3>1, Facts DEF TartCluster
    <3>3. work.active < t
      BY <3>1, <1>1 DEF Generations
    <3>4. Working(t)'
      BY <1>1, <1>2, <2>1, <2>3, <3>1, <3>2, <3>3 DEF Working, Home
    <3>5. QED
      BY <1>2, <1>3, <3>2, <3>4, WorkMoves
  <2>4. CASE work.active = t
    <3>1. Open(t) /\ AllArrived(t) /\ seen.cluster.active >= t
      BY <1>1, <1>3, <2>4 DEF Working
    <3>2. seen.bundles[t + 1] # "Active"
      BY <3>1, Labels, Facts DEF Inv, Lag, Open
    <3>3. work'.step = "label" /\ work'.active = t /\ cluster'.active = t + 1
      BY <2>1, <2>2, <2>4, <3>2
    <3>4. Open(t)' /\ AllArrived(t)'
      BY <1>2, <3>1 DEF Open, AllArrived
    <3>5. Top(t)' /\ Founded(t)'
      BY <1>2 DEF Inv, Top, Founded, Home, Together, Open
    <3>6. Status(t)'
      BY <1>2, <1>3, <3>3, <3>4 DEF Inv, Status
    <3>7. Lag(t)'
      <4>1. seen.cluster.active \in {t, t + 1}
        BY <1>3, <3>1, Facts DEF Inv, Lag
      <4>2. QED
        BY <1>2, <3>3, <4>1 DEF Inv, Lag
    <3>8. Creating(t)'
      BY <1>2, <1>3 DEF Inv, Creating
    <3>9. Working(t)'
      BY <1>2, <3>1, <3>3, <3>4 DEF Working
    <3>10. QED
      BY <3>5, <3>6, <3>7, <3>8, <3>9 DEF Inv
  <2>5. QED
    BY <2>3, <2>4
<1>6. QED
  BY <1>4, <1>5 DEF PromoteStatus, EndWork, Step, NextGeneration

\* The new Secret's label is written: t goes to t + 1, where all founders are.
LEMMA PromoteLabelStep ==
  ASSUME NEW t \in 0..MaxGeneration, TypeInv, Inv(t), PromoteLabel
  PROVE  Rotation'
<1> USE RotationAssumption
<1>1. /\ work # Idle /\ work \in Works /\ work.step = "label" /\ Working(t)
      /\ work.active \in Generations /\ work.active + 1 \in Generations
  BY InFlight DEF PromoteLabel, TypeInv, Inv, WorkSteps, Works, Aimed
<1>2. UNCHANGED <<cluster, seen, node, creating>>
  BY DEF PromoteLabel
<1>3. t # 0 /\ cluster.active # 0 /\ t \in Nat
  BY <1>1, StatusRange
<1>4. work'.step = "demote" /\ work'.active = work.active
  BY <1>1, StepEdit DEF PromoteLabel, Step, WorkSteps
<1>5. bundles' = [bundles EXCEPT ![work.active + 1] = "Active"]
  BY DEF PromoteLabel, NextGeneration
<1>6. CASE work.active # t
  <2>1. work.active + 1 = t
    BY <1>1, <1>6 DEF Working
  <2>2. bundles' = bundles
    BY <1>3, <1>5, <2>1, Facts DEF Inv, Top
  <2>3. work.active < t
    BY <1>1, <2>1 DEF Generations
  <2>4. Working(t)'
    BY <1>4, <2>3 DEF Working
  <2>5. Inv(t)'
    BY <1>2, <1>3, <2>2, <2>4, WorkMoves
  <2>6. QED
    BY <2>5 DEF Rotation
<1>7. CASE work.active = t
  <2>1. /\ Open(t) /\ AllArrived(t) /\ cluster.active = t + 1 /\ t + 1 \in Generations
        /\ t + 1 \in 0..MaxGeneration
    BY <1>1, <1>3, <1>7 DEF Working, Generations
  <2>2. bundles'[t + 1] = "Active" /\ \A h \in Generations : h # t + 1 => bundles'[h] = bundles[h]
    BY <1>5, <1>7, <2>1, Facts
  <2>3. Top(t + 1)'
    BY <1>3, <2>1, <2>2 DEF Inv, Top, Generations
  <2>4. Home(t + 1)'
    BY <1>2, <1>3, <2>1, Forms DEF AllArrived, Arrived, Home, Settled
  <2>5. Founded(t + 1)' /\ Status(t + 1)'
    BY <1>2, <1>3, <2>1, <2>4 DEF Founded, Inv, Status
  <2>6. Lag(t + 1)'
    <3>1. Rank(seen.bundles[t + 1]) <= Rank("Active")
      BY <2>1, Labels, Facts DEF Inv, Lag, Open
    <3>2. \A h \in Generations : Rank(seen'.bundles[h]) <= Rank(bundles'[h])
      BY <1>2, <2>2, <3>1 DEF Inv, Lag
    <3>3. QED
      BY <1>2, <2>1, <2>4, <3>2 DEF Inv, Lag
  <2>7. Creating(t + 1)'
    <3> SUFFICES ASSUME creating # Idle PROVE Creating(t + 1)'
      BY <1>2 DEF Creating
    <3>1. creating.generation \in Generations /\ creating.snapshot.active # 0 /\ Creating(t)
      BY <1>3, Facts DEF Inv, Creating, Creations
    <3>2. bundles'[creating.generation] # "absent"
      BY <3>1, <2>2 DEF Creating
    <3>3. creating.generation <= t => creating.generation <= t + 1
      BY <3>1, <1>3 DEF Generations
    <3>4. QED
      BY <1>2, <3>1, <3>2, <3>3 DEF Creating
  <2>8. Working(t + 1)'
    <3>1. t < t + 1
      BY <1>3
    <3>2. QED
      BY <3>1, <1>4, <1>7 DEF Working
  <2>9. Inv(t + 1)'
    BY <2>3, <2>5, <2>6, <2>7, <2>8 DEF Inv
  <2>10. QED
    BY <2>1, <2>9 DEF Rotation
<1>8. QED
  BY <1>6, <1>7

\* A promotion is taken up again, and the old Secret's label is written.
LEMMA DemoteStep ==
  ASSUME NEW t \in 0..MaxGeneration, TypeInv, Inv(t),
         recoverCARotationPromotion \/ demoteCARotationSecret
  PROVE  Inv(t)'
<1> USE RotationAssumption
<1>1. /\ work # Idle /\ work \in Works /\ work.step \in {"recover", "demote"} /\ Working(t)
      /\ work.active \in Generations /\ work.active < t
  <2>1. work # Idle /\ work \in Works /\ work.step \in {"recover", "demote"}
    BY InFlight DEF recoverCARotationPromotion, demoteCARotationSecret, TypeInv, WorkSteps
  <2>2. QED
    BY <2>1 DEF Inv, Working, Works
<1>2. UNCHANGED <<cluster, seen, node, creating>>
  BY DEF recoverCARotationPromotion, demoteCARotationSecret
<1>3. t # 0 /\ cluster.active # 0 /\ t \in Nat
  BY <1>1, StatusRange
<1>4. CASE work' = Idle /\ bundles' = bundles
  BY <1>2, <1>4, Ends
<1>5. CASE recoverCARotationPromotion /\ work' # Idle
  <2>1. work.step = "recover" /\ seen.bundles[work.active + 1] # "Pending" /\ bundles' = bundles
    BY <1>1, <1>5 DEF recoverCARotationPromotion, Working
  <2>2. work' = [work EXCEPT !.step = "demote"]
    BY <1>5, <2>1 DEF recoverCARotationPromotion, NextGeneration, Step, EndWork
  <2>3. work'.step = "demote" /\ work'.active = work.active
    BY <1>1, <2>2, StepEdit DEF WorkSteps
  <2>4. Working(t)'
    BY <1>1, <2>3 DEF Working
  <2>5. QED
    BY <1>2, <1>3, <2>1, <2>4, WorkMoves
<1>6. CASE work' = Idle /\ bundles' = [bundles EXCEPT ![work.active] = "Retired"]
  <2>1. /\ bundles'[work.active] = "Retired"
        /\ \A h \in Generations : h # work.active => bundles'[h] = bundles[h]
    BY <1>1, <1>6, Facts
  <2>2. t \in Generations /\ work.active # t /\ work.active # t + 1
    BY <1>1, <1>3 DEF Generations
  <2>3. Top(t)'
    BY <1>1, <1>3, <2>1, <2>2 DEF Inv, Top, Generations
  <2>4. Open(t)' <=> Open(t)
    BY <2>1, <2>2 DEF Open
  <2>5. Founded(t)' /\ Status(t)'
    BY <1>2, <1>3, <2>4 DEF Inv, Founded, Home, Together, Status, AllArrived
  <2>6. Lag(t)'
    <3>1. \A h \in Generations : Rank(seen'.bundles[h]) <= Rank(bundles'[h])
      BY <1>1, <1>2, <2>1, Labels, Facts DEF Inv, Lag
    <3>2. QED
      BY <1>2, <3>1 DEF Inv, Lag, Home
  <2>7. Creating(t)'
    <3> SUFFICES ASSUME creating # Idle PROVE Creating(t)'
      BY <1>2 DEF Creating
    <3>1. creating.generation \in Generations /\ creating.snapshot.active # 0 /\ Creating(t)
      BY <1>3, Facts DEF Inv, Creating, Creations
    <3>2. bundles'[creating.generation] # "absent"
      BY <3>1, <2>1 DEF Creating
    <3>3. QED
      BY <1>2, <3>1, <3>2 DEF Creating
  <2>8. Working(t)'
    BY <1>6 DEF Working
  <2>9. QED
    BY <2>3, <2>5, <2>6, <2>7, <2>8 DEF Inv
<1>7. QED
  BY <1>4, <1>5, <1>6 DEF recoverCARotationPromotion, demoteCARotationSecret, EndWork

-----------------------------------------------------------------------------
(* The invariant, and what follows from it.                                *)

\* Before the first Secret t is 0 and no founder is installed.
LEMMA InitialRotation == Init => Rotation
<1> SUFFICES ASSUME Init PROVE Inv(0)
  BY RotationAssumption DEF Rotation
<1>1. \A n \in Founders : /\ node[n].machine = "exists" /\ node[n].data = 0
                          /\ node[n].running = NoTrust /\ node[n].staged = NoTrust
  BY DEF Init, Nodes
<1>2. Founded(0)
  BY <1>1 DEF Founded, Home, Settled, Empty
<1>3. cluster.active = 0 /\ seen.cluster = cluster /\ seen.bundles = bundles /\ work = Idle /\ creating = Idle
  BY DEF Init
<1>4. Top(0) /\ Creating(0) /\ Working(0)
  BY <1>3, RotationAssumption DEF Init, Top, Creating, Working, Generations
<1>5. Status(0)
  BY <1>1, <1>3 DEF Status
<1>6. Lag(0)
  BY <1>3 DEF Init, Lag, Rank
<1>7. QED
  BY <1>2, <1>4, <1>5, <1>6 DEF Inv

\* Rotation is inductive.
LEMMA RotationStep == TypeInv /\ Rotation /\ [Next]_vars => Rotation'
<1> SUFFICES ASSUME TypeInv, Rotation, [Next]_vars PROVE Rotation'
  OBVIOUS
<1>1. PICK t \in 0..MaxGeneration : Inv(t)
  BY DEF Rotation
<1>2. Inv(t)' => Rotation'
  BY DEF Rotation
<1>3. CASE UNCHANGED vars
  <2>1. UNCHANGED <<cluster, bundles, seen, node, creating, work>>
    BY <1>3 DEF vars
  <2>2. QED
    BY <2>1, <1>1, <1>2, Stutter
<1>4. CASE ClusterController
  BY <1>1, <1>2, <1>4, ClusterBeginEnd, BundleStep, RotationBundleStep DEF ClusterController
<1>5. CASE ControlPlaneController
  BY <1>1, <1>2, <1>5, BeginStep, ObserveStep, AdvanceStep, DecideStep, RebootStep,
    PromoteStatusStep, PromoteLabelStep, DemoteStep DEF ControlPlaneController, promoteCARotation
<1>6. CASE Deliver \/ Restore
  BY <1>1, <1>2, <1>6, DeliverStep, RestoreStep
<1>7. CASE \E g \in Requests : RequestRotation(g)
  <2>1. UNCHANGED <<cluster, bundles, seen, node, creating, work>>
    BY <1>7 DEF RequestRotation
  <2>2. QED
    BY <2>1, <1>1, <1>2, Stutter
<1>8. CASE \E n \in Nodes : CreateMachine(n) \/ DeleteMachine(n) \/ NodeProgress(n) \/ Outage(n)
                           \/ DropAcceptedCA(n)
  BY <1>1, <1>2, <1>8, NodeStep
<1>9. CASE CallFails
  <2>1. UNCHANGED <<cluster, bundles, seen, node>> /\ work' \in {work, Idle} /\ creating' \in {creating, Idle}
    BY <1>9 DEF CallFails, EndWork, EndCreating
  <2>2. QED
    BY <2>1, <1>1, <1>2, Ends
<1>10. QED
  BY <1>3, <1>4, <1>5, <1>6, <1>7, <1>8, <1>9 DEF Next

\* Types and the invariant hold throughout.
LEMMA RotationInvariant == Spec => [](TypeInv /\ Rotation)
<1>1. Init => TypeInv /\ Rotation
  BY InitialType, InitialRotation
<1>2. TypeInv /\ Rotation /\ [Next]_vars => (TypeInv /\ Rotation)'
  BY TypeStep, RotationStep
<1>3. QED
  BY <1>1, <1>2, PTL DEF Spec

\* The CAs accepted for the Kubernetes API are at least those accepted for Talos, in
\* what a node runs and in what is staged on it.
Covered ==
  \A n \in Nodes : /\ node[n].running.accepted \subseteq node[n].api
                   /\ node[n].staged.accepted \subseteq node[n].apiStaged

\* No step takes a CA from the API's that Talos still accepts.
LEMMA CoveredStep == TypeInv /\ Covered /\ [Next]_vars => Covered'
<1> SUFFICES ASSUME TypeInv, Covered, [Next]_vars PROVE Covered'
  OBVIOUS
<1>p. node \in [Nodes -> NodeStates]
  BY TypeParts DEF TypeInv
<1>1. CASE node' = node
  BY <1>1 DEF Covered
<1>2. ASSUME NEW n \in Nodes, NEW v \in NodeStates, node' = [node EXCEPT ![n] = v],
             v.running.accepted \subseteq v.api, v.staged.accepted \subseteq v.apiStaged
      PROVE  Covered'
  BY <1>2, <1>p DEF Covered
<1>3. ASSUME NEW n \in Nodes, NEW v \in NodeStates, node' = [node EXCEPT ![n] = v],
             v.running = node[n].running, v.staged = node[n].staged,
             v.api = node[n].api, v.apiStaged = node[n].apiStaged
      PROVE  Covered'
  BY <1>2, <1>3 DEF Covered
<1>4. ASSUME NEW n \in Nodes, Render(n) \/ CreateMachine(n) \/ DeleteMachine(n) \/ Outage(n)
      PROVE  Covered'
  <2>1. node[n] \in NodeStates
    BY <1>p
  <2>2. PICK d \in 0..MaxGeneration, u \in BOOLEAN, m \in {"none", "exists", "deleting"} :
          node' = [node EXCEPT ![n] = [node[n] EXCEPT !.machine = m, !.data = d, !.up = u]]
    <3> DEFINE Edit(m, d, u) == [node[n] EXCEPT !.machine = m, !.data = d, !.up = u]
    <3>1. ASSUME NEW g, Render(n), g \in MachineConfigurationContext(cluster)
          PROVE  g \in 0..MaxGeneration /\ [node[n] EXCEPT !.data = g] = Edit(node[n].machine, g, node[n].up)
      BY <3>1, <2>1, TypeParts DEF MachineConfigurationContext, TartCluster, TypeInv, NodeStates
    <3>2. \A m : [node[n] EXCEPT !.machine = m] = Edit(m, node[n].data, node[n].up)
      BY <2>1 DEF NodeStates
    <3>3. [node[n] EXCEPT !.up = FALSE] = Edit(node[n].machine, node[n].data, FALSE)
      BY <2>1 DEF NodeStates
    <3>4. node' = [node EXCEPT ![n] = [node[n] EXCEPT !.up = FALSE]] \/ ~Outage(n)
      BY DEF Outage
    <3>5. node[n].machine \in {"none", "exists", "deleting"} /\ node[n].data \in 0..MaxGeneration
          /\ node[n].up \in BOOLEAN
      BY <2>1 DEF NodeStates
    <3> HIDE DEF Edit
    <3>6. \E d \in 0..MaxGeneration, u \in BOOLEAN, m \in {"none", "exists", "deleting"} :
            node' = [node EXCEPT ![n] = Edit(m, d, u)]
      <4>1. CASE Render(n)
        <5>1. PICK g \in MachineConfigurationContext(cluster) :
                node' = [node EXCEPT ![n] = [node[n] EXCEPT !.data = g]]
          BY <4>1 DEF Render, ChangeNode
        <5>2. g \in 0..MaxGeneration /\ node' = [node EXCEPT ![n] = Edit(node[n].machine, g, node[n].up)]
          BY <4>1, <5>1, <3>1
        <5>3. QED
          BY <5>2, <3>5
      <4>2. CASE CreateMachine(n) \/ DeleteMachine(n)
        <5>1. PICK m \in {"exists", "deleting"} :
                node' = [node EXCEPT ![n] = [node[n] EXCEPT !.machine = m]]
          BY <4>2 DEF CreateMachine, DeleteMachine, ChangeNode
        <5>2. node' = [node EXCEPT ![n] = Edit(m, node[n].data, node[n].up)]
          BY <5>1, <3>2
        <5>3. QED
          BY <5>2, <3>5
      <4>3. CASE Outage(n)
        <5>1. node' = [node EXCEPT ![n] = Edit(node[n].machine, node[n].data, FALSE)]
          BY <4>3, <3>3, <3>4
        <5>2. QED
          BY <5>1, <3>5
      <4>4. QED
        BY <1>4, <4>1, <4>2, <4>3
    <3>7. QED
      BY <3>6 DEF Edit
  <2>3. QED
    <3> DEFINE v == [node[n] EXCEPT !.machine = m, !.data = d, !.up = u]
    <3>1. /\ v \in NodeStates /\ v.running = node[n].running /\ v.staged = node[n].staged
          /\ v.api = node[n].api /\ v.apiStaged = node[n].apiStaged
      BY <2>1 DEF NodeStates
    <3> HIDE DEF v
    <3>2. node' = [node EXCEPT ![n] = v]
      BY <2>2 DEF v
    <3>3. QED
      BY <3>1, <3>2, <1>3
<1>5. ASSUME NEW n \in Nodes, Install(n) \/ Boots(n) \/ DropAcceptedCA(n)
      PROVE  Covered'
  <2>1. node[n] \in NodeStates
    BY <1>p
  <2>2. \A b \in Nodes : b # n => node'[b] = node[b]
    BY <1>5, <1>p DEF Install, Boots, DropAcceptedCA, ChangeNode
  <2>3. node'[n].running.accepted \subseteq node'[n].api
        /\ node'[n].staged.accepted \subseteq node'[n].apiStaged
    <3>1. CASE Install(n)
      BY <3>1, <2>1, <1>p DEF Install, ChangeNode, Covered, NodeStates
    <3>2. CASE Boots(n)
      BY <3>2, <2>1, <1>p DEF Boots, Booted, ChangeNode, Covered, NodeStates, NoTrust
    <3>3. CASE DropAcceptedCA(n)
      BY <3>3, <2>1, <1>p DEF DropAcceptedCA, ChangeNode, Covered, NodeStates
    <3>4. QED
      BY <1>5, <3>1, <3>2, <3>3
  <2>4. QED
    BY <2>2, <2>3 DEF Covered
<1>6. ASSUME NEW n \in Nodes, advanceCATrust(n)
      PROVE  Covered'
  <2> DEFINE trust == NewTrust(work.stage[n], work.active, NextGeneration(work.active))
  <2>1. CASE node' = [node EXCEPT ![n].staged = trust, ![n].apiStaged = NewAccepted(n, trust)]
    <3> HIDE DEF trust
    <3>1. node[n] \in NodeStates
      BY <1>p
    <3>2. node'[n].staged = trust /\ node'[n].apiStaged = NewAccepted(n, trust)
          /\ node'[n].running = node[n].running /\ node'[n].api = node[n].api
      BY <2>1, <3>1, <1>p DEF NodeStates
    <3>3. trust.accepted \subseteq NewAccepted(n, trust)
      BY DEF NewAccepted
    <3>4. \A b \in Nodes : b # n => node'[b] = node[b]
      BY <2>1, <1>p
    <3>5. QED
      BY <3>2, <3>3, <3>4 DEF Covered
  <2>2. QED
    BY <2>1, <1>1, <1>6 DEF advanceCATrust
<1>7. CASE Reboot
  <2>1. CASE node' = [node EXCEPT ![work.target].up = FALSE]
    <3>1. work # Idle /\ work \in Works /\ work.target \in Nodes
      BY <1>7, InFlight DEF Reboot, TypeInv, Aimed, WorkSteps
    <3>2. node[work.target] \in NodeStates
      BY <3>1, <1>p
    <3>3. node' = [node EXCEPT ![work.target] = [node[work.target] EXCEPT !.up = FALSE]]
      BY <2>1
    <3> DEFINE v == [node[work.target] EXCEPT !.up = FALSE]
    <3>4. /\ v \in NodeStates /\ v.running = node[work.target].running
          /\ v.staged = node[work.target].staged /\ v.api = node[work.target].api
          /\ v.apiStaged = node[work.target].apiStaged
      BY <3>2 DEF NodeStates
    <3> HIDE DEF v
    <3>5. node' = [node EXCEPT ![work.target] = v]
      BY <3>3 DEF v
    <3>6. QED
      BY <3>1, <3>4, <3>5, <1>3
  <2>2. QED
    BY <2>1, <1>1, <1>7 DEF Reboot
<1>8. CASE Next /\ node' # node
  <2>1. ControlPlaneController => Reboot \/ \E n \in Nodes : advanceCATrust(n)
    BY <1>8 DEF ControlPlaneController, promoteCARotation, reconcileCARotation,
      recoverCompletedCARotationRequest, observeControlPlaneCARotation, DecideStage, PromoteStatus,
      PromoteLabel, demoteCARotationSecret, recoverCARotationPromotion
  <2>2. ~ClusterController /\ ~Deliver /\ ~Restore /\ ~CallFails
        /\ \A g \in Requests : ~RequestRotation(g)
    BY <1>8 DEF ClusterController, AssignClusterID, ReconcileCluster, ensureBundle,
      ensureCARotationBundle, PatchClusterStatus, Deliver, DeliverCluster, DeliverBundle, Restore,
      CallFails, RequestRotation
  <2>3. QED
    BY <2>1, <2>2, <1>4, <1>5, <1>6, <1>7, <1>8 DEF Next, NodeProgress
<1>9. QED
  BY <1>1, <1>8 DEF vars

\* The API's accepted CAs cover Talos's throughout.
LEMMA CoveredInvariant == Spec => []Covered
<1>1. Init => Covered
  BY DEF Init, Covered, NoTrust
<1>2. QED
  BY <1>1, CoveredStep, RotationInvariant, PTL DEF Spec

\* What a configured founder runs.
LEMMA FounderRuns ==
  ASSUME NEW t \in 0..MaxGeneration, Inv(t), NEW n \in Founders, Configured(n)
  PROVE  /\ t # 0
         /\ \/ Home(t) /\ node[n].running = Form(0, t)
            \/ Open(t) /\ \E m \in 0..2 : Together(t, m) /\ node[n].running \in {Form(m, t), Form(m + 1, t)}
<1>1. CASE Home(t)
  BY <1>1 DEF Home, Settled, Empty, Configured
<1>2. CASE Open(t) /\ \E m \in 0..2 : Together(t, m)
  BY <1>2 DEF Together, Between, Open
<1>3. QED
  BY <1>1, <1>2 DEF Inv, Founded

\* FoundersTrustEachOther holds of every behaviour: whatever the number of nodes and
\* of generations, with reboots, crashes, restores and late reconciles, no two
\* configured nodes of the founding set refuse each other's certificates.
THEOREM FoundersTrust == Spec => []FoundersTrustEachOther
<1>1. Rotation /\ Covered => FoundersTrustEachOther
  <2> SUFFICES ASSUME Rotation, Covered, NEW a \in Founders, NEW b \in Founders, Configured(a), Configured(b)
               PROVE  node[a].running.issuing \in Accepts(b)
    <3>1. Covered => \A n \in Founders : Accepts(n) \subseteq AcceptsAPI(n)
      BY DEF Covered, Accepts, AcceptsAPI, Nodes
    <3>2. QED
      BY <3>1 DEF FoundersTrustEachOther
  <2>1. PICK t \in 0..MaxGeneration : Inv(t)
    BY DEF Rotation
  <2>2. t # 0 /\ t \in Nat
    BY <2>1, FounderRuns
  <2>3. CASE Home(t)
    <3>1. node[a].running = Form(0, t) /\ node[b].running = Form(0, t)
      BY <2>3 DEF Home, Settled, Empty, Configured
    <3>2. Form(0, t).issuing = t
      BY <2>2, Forms
    <3>3. QED
      BY <3>1, <3>2 DEF Accepts
  <2>4. ASSUME NEW m \in 0..2, Together(t, m)
        PROVE  node[a].running.issuing \in Accepts(b)
    <3>1. node[a].running \in {Form(m, t), Form(m + 1, t)} /\ node[b].running \in {Form(m, t), Form(m + 1, t)}
      BY <2>4 DEF Together, Between
    <3>2. /\ Form(0, t).issuing = t /\ Form(1, t).issuing = t
          /\ Form(2, t).issuing = t + 1 /\ Form(3, t).issuing = t + 1
          /\ Form(1, t).accepted = {t + 1} /\ Form(2, t).accepted = {t}
      BY <2>2, Forms
    <3>3. CASE m = 0
      BY <3>1, <3>2, <3>3 DEF Accepts
    <3>4. CASE m = 1
      BY <3>1, <3>2, <3>4 DEF Accepts
    <3>5. CASE m = 2
      BY <3>1, <3>2, <3>5 DEF Accepts
    <3>6. QED
      BY <3>3, <3>4, <3>5
  <2>5. QED
    BY <2>1, <2>3, <2>4 DEF Inv, Founded
<1>2. QED
  BY <1>1, RotationInvariant, CoveredInvariant, PTL

\* FoundersAreReachable holds of every behaviour: the CA a configured founder issues
\* with is Pending or Active, and the status names it or the one before it.
THEOREM FoundersReachable == Spec => []FoundersAreReachable
<1>1. TypeInv /\ Rotation => FoundersAreReachable
  <2> SUFFICES ASSUME TypeInv, Rotation, NEW n \in Founders, Configured(n)
               PROVE  /\ bundles[node[n].running.issuing] \in {"Pending", "Active"}
                      /\ cluster.active # 0 =>
                           node[n].running.issuing \in {cluster.active, cluster.active + 1}
    BY DEF FoundersAreReachable, NextGeneration
  <2>1. PICK t \in 0..MaxGeneration : Inv(t)
    BY DEF Rotation
  <2> DEFINE g == node[n].running.issuing
  <2>2. t # 0 /\ t \in Nat
    BY <2>1, FounderRuns
  <2>3. /\ Form(0, t).issuing = t /\ Form(1, t).issuing = t
        /\ Form(2, t).issuing = t + 1 /\ Form(3, t).issuing = t + 1
    BY <2>2, Forms
  <2>4. g = t \/ (g = t + 1 /\ Open(t))
    <3>1. CASE Home(t) /\ node[n].running = Form(0, t)
      BY <3>1, <2>3
    <3>2. ASSUME Open(t), NEW m \in 0..2, node[n].running \in {Form(m, t), Form(m + 1, t)}
          PROVE  g = t \/ (g = t + 1 /\ Open(t))
      <4>1. m = 0 \/ m = 1 \/ m = 2
        OBVIOUS
      <4>2. QED
        BY <4>1, <3>2, <2>3
    <3>3. QED
      BY <3>1, <3>2, <2>1, FounderRuns
  <2>5. AllArrived(t) => g = t + 1
    BY <2>3 DEF AllArrived, Arrived
  <2>6. bundles[t] = "Active" /\ (Open(t) => bundles[t + 1] = "Pending")
    BY <2>1, <2>2 DEF Inv, Top, Open
  <2>7. cluster.active \in {0, t} \/ (cluster.active = t + 1 /\ AllArrived(t))
    BY <2>1 DEF Inv, Status
  <2> HIDE DEF g
  <2>8. bundles[g] \in {"Pending", "Active"} /\ (cluster.active # 0 => g \in {cluster.active, cluster.active + 1})
    BY <2>4, <2>5, <2>6, <2>7
  <2>9. QED
    BY <2>8 DEF g
<1>2. QED
  BY <1>1, RotationInvariant, PTL

\* A step that writes the status of a cluster that has one writes the same or the next.
LEMMA StatusGrows ==
  ASSUME TypeInv, Rotation, Next, cluster'.active # 0
  PROVE  cluster'.active >= cluster.active
<1> USE RotationAssumption
<1>1. PICK t \in 0..MaxGeneration : Inv(t)
  BY DEF Rotation
<1>2. cluster.active \in Nat
  BY Facts
<1>3. CASE cluster'.active = cluster.active
  BY <1>2, <1>3
<1>4. CASE PatchClusterStatus
  <2>1. creating # Idle /\ creating \in Creations
    BY <1>4, InFlight DEF PatchClusterStatus, TypeInv
  <2>2. CASE creating.snapshot.active = creating.generation
    BY <1>2, <1>4, <2>2 DEF PatchClusterStatus
  <2>3. CASE creating.snapshot.active # creating.generation
    <3>1. cluster.active = 0 /\ cluster'.active = creating.generation
      BY <1>1, <1>4, <2>1, <2>3, Facts DEF Inv, Creating, PatchClusterStatus, TartCluster
    <3>2. QED
      BY <2>1, <3>1 DEF Creations, Generations
  <2>4. QED
    BY <2>2, <2>3
<1>5. CASE PromoteStatus
  <2>1. work # Idle /\ work \in Works /\ work.step = "status" /\ Working(t)
    BY <1>1, <1>5, InFlight DEF PromoteStatus, TypeInv, Inv, WorkSteps
  <2>2. cluster' = cluster \/ cluster'.active = work.active + 1
    BY <1>5, Facts DEF PromoteStatus, NextGeneration, TartCluster
  <2>3. cluster.active <= work.active + 1
    <3>1. work.active = t \/ (work.active + 1 = t /\ cluster.active = t)
      BY <2>1 DEF Working
    <3>2. cluster.active \in {0, t, t + 1}
      BY <1>1 DEF Inv, Status
    <3>3. QED
      BY <3>1, <3>2
  <2>4. QED
    BY <1>2, <2>2, <2>3
<1>6. CASE Restore
  BY <1>6, Facts DEF Restore, TartCluster
<1>7. CASE AssignClusterID
  BY <1>2, <1>7, Facts DEF AssignClusterID, TartCluster
<1>8. CASE Next /\ ~PatchClusterStatus /\ ~PromoteStatus /\ ~Restore /\ ~AssignClusterID
  <2>1. cluster' = cluster
    BY <1>8 DEF Next, ClusterController, ControlPlaneController, promoteCARotation, Deliver, NodeProgress,
      ReconcileCluster, ensureBundle, ensureCARotationBundle, reconcileCARotation,
      recoverCompletedCARotationRequest, observeControlPlaneCARotation, advanceCATrust, DecideStage,
      Reboot, PromoteLabel, demoteCARotationSecret, recoverCARotationPromotion, DeliverCluster,
      DeliverBundle, RequestRotation, CreateMachine, DeleteMachine, Render, Install, Boots, Outage,
      DropAcceptedCA, ChangeNode, CallFails
  <2>2. QED
    BY <2>1, <1>3
<1>9. QED
  BY <1>4, <1>5, <1>6, <1>7, <1>8

\* ActiveGenerationIsKept holds of every behaviour: whichever controller writes the
\* status, from whatever it read and however late, the active generation does not
\* fall back, and its Secret is not a retired one.
THEOREM ActiveKept == Spec => ActiveGenerationIsKept
<1> DEFINE Kept == cluster.active' # 0 =>
                     cluster.active' >= cluster.active /\ bundles'[cluster.active'] # "Retired"
<1>1. TypeInv /\ Rotation /\ (TypeInv /\ Rotation)' /\ [Next]_vars => [Kept]_vars
  <2> SUFFICES ASSUME TypeInv, Rotation, Rotation', Next, cluster'.active # 0
               PROVE  cluster'.active >= cluster.active /\ bundles'[cluster'.active] # "Retired"
    OBVIOUS
  <2>1. PICK u \in 0..MaxGeneration : Inv(u)'
    BY DEF Rotation
  <2>2. bundles'[cluster'.active] # "Retired"
    BY <2>1 DEF Inv, Status, Top, Open
  <2>3. QED
    BY <2>2, StatusGrows
<1>2. QED
  BY <1>1, RotationInvariant, PTL DEF Spec, ActiveGenerationIsKept

=============================================================================
