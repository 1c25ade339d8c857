------------------------- MODULE ControlPlaneProofs -------------------------
(***************************************************************************)
(* Type correctness of ControlPlane; that the hook holds a Machine which   *)
(* scale-down deletes until its etcd member has been removed; that a       *)
(* removal keeps the quorum; and that a control plane which is initialized *)
(* is not bootstrapped again: for any number of replicas, Machines, watch  *)
(* events on their way, changes, deletions and faults.                     *)
(***************************************************************************)
EXTENDS ControlPlane, FiniteSetTheorems, SequenceTheorems, WellFoundedInduction, TLAPS

-----------------------------------------------------------------------------
(* Types.                                                                  *)

\* A set of naturals has a least element.
LEMMA LeastNatural ==
  ASSUME NEW S, S \subseteq Nat, S # {}
  PROVE  \E m \in S : \A n \in S : m <= n
<1> DEFINE R == {p \in Nat \X Nat : p[1] < p[2]}
<1>0. IsWellFoundedOn(R, Nat)
  BY NatLessThanWellFounded, Zenon DEF OpToRel
<1>1. PICK m \in S : \A n \in S : ~ (<<n, m>> \in R)
  <2> HIDE DEF R
  <2>1. QED
    BY <1>0, WFMin
<1>2. ASSUME NEW n \in S
      PROVE  m <= n
  <2>1. ~ (n < m)
    BY <1>1
  <2>2. QED
    BY <2>1
<1>3. QED
  BY <1>2

\* First finds the least of a set of ordinals.
LEMMA FirstIsFirst ==
  ASSUME NEW S \in SUBSET Ordinals, S # {}
  PROVE  First(S) \in S /\ \A p \in S : First(S) <= p
<1>1. S \subseteq Nat
  BY ReplicasAssumption DEF Ordinals
<1>2. \E o \in S : \A p \in S : o <= p
  BY <1>1, LeastNatural
<1>3. QED
  BY <1>2 DEF First

\* Last finds the greatest.
LEMMA LastIsLast ==
  ASSUME NEW S \in SUBSET Ordinals, S # {}
  PROVE  Last(S) \in S /\ \A p \in S : Last(S) >= p
<1> DEFINE R == {MaxReplicas - o : o \in S}
<1>0. \A o \in S : o \in Nat /\ MaxReplicas - o \in Nat
  BY ReplicasAssumption DEF Ordinals
<1>1. R \subseteq Nat /\ R # {}
  BY <1>0
<1>2. PICK r \in R : \A q \in R : r <= q
  <2> HIDE DEF R
  <2>1. QED
    BY <1>1, LeastNatural
<1>3. PICK o \in S : r = MaxReplicas - o
  OBVIOUS
<1>4. ASSUME NEW p \in S PROVE o >= p
  <2>1. MaxReplicas - o <= MaxReplicas - p
    BY <1>2, <1>3
  <2>2. o \in Int /\ p \in Int /\ MaxReplicas \in Int
    BY ReplicasAssumption DEF Ordinals
  <2>3. QED
    BY <2>1, <2>2
<1>5. QED
  BY <1>4 DEF Last

\* What is written of a Machine is a Machine.
LEMMA MachineEdits ==
  /\ NoMachine \in Machine
  /\ \A u \in UIDs : NewMachine(u) \in Machine
  /\ \A x \in Machine :
       /\ [x EXCEPT !.deleting = TRUE, !.by = "user"] \in Machine
       /\ [x EXCEPT !.deleting = TRUE, !.by = "scaleDown"] \in Machine
       /\ \A b \in BOOLEAN : [x EXCEPT !.waiting = b] \in Machine
       /\ [x EXCEPT !.hook = TRUE] \in Machine
       /\ [x EXCEPT !.hook = FALSE, !.memberID = 0] \in Machine
       /\ [x EXCEPT !.memberID = x.uid] \in Machine
       /\ x.uid \in UIDs \union {0} /\ x.uid \in Nat
<1>1. NoMachine \in Machine
  BY DEF NoMachine, Machine
<1>2. \A u \in UIDs : NewMachine(u) \in Machine
  BY DEF NoMachine, NewMachine, Machine
<1>3. ASSUME NEW x \in Machine
      PROVE  /\ [x EXCEPT !.deleting = TRUE, !.by = "user"] \in Machine
             /\ [x EXCEPT !.deleting = TRUE, !.by = "scaleDown"] \in Machine
             /\ \A b \in BOOLEAN : [x EXCEPT !.waiting = b] \in Machine
             /\ [x EXCEPT !.hook = TRUE] \in Machine
             /\ [x EXCEPT !.hook = FALSE, !.memberID = 0] \in Machine
             /\ [x EXCEPT !.memberID = x.uid] \in Machine
  BY DEF Machine
<1>4. ASSUME NEW x \in Machine
      PROVE  x.uid \in UIDs \union {0} /\ x.uid \in Nat
  <2>1. x.uid \in UIDs \union {0}
    BY DEF Machine
  <2>2. QED
    BY <2>1, ReplicasAssumption DEF UIDs
<1>5. QED
  BY <1>1, <1>2, <1>3, <1>4

\* The conjuncts of TypeOK, by what they are about: here Machines.
MachinesOK ==
  /\ machines \in [Ordinals -> Machine] /\ machineCache \in [Ordinals -> Machine]
  /\ machineEvents \in Seq([key: Ordinals, object: Machine])

\* A write of a Machine keeps the types of the Machines.
LEMMA WriteType ==
  ASSUME MachinesOK, NEW o \in Ordinals, NEW x \in Machine, MachineInformer!Write(o, x)
  PROVE  MachinesOK'
<1>1. [key |-> o, object |-> x] \in [key: Ordinals, object: Machine]
  OBVIOUS
<1>2. machineEvents' \in Seq([key: Ordinals, object: Machine])
  BY <1>1, AppendProperties DEF MachinesOK, MachineInformer!Write
<1>3. QED
  BY <1>2 DEF MachinesOK, MachineInformer!Write

\* So does a delivery.
LEMMA DeliverType ==
  ASSUME MachinesOK, MachineInformer!Deliver
  PROVE  MachinesOK'
<1>1. /\ machineEvents # <<>> /\ machines' = machines
      /\ machineEvents' = Tail(machineEvents)
      /\ machineCache' = [machineCache EXCEPT ![Head(machineEvents).key] = Head(machineEvents).object]
  BY DEF MachineInformer!Deliver
<1>2. Head(machineEvents) \in [key: Ordinals, object: Machine]
  BY <1>1, HeadTailProperties DEF MachinesOK
<1>3. machineEvents' \in Seq([key: Ordinals, object: Machine])
  BY <1>1, HeadTailProperties DEF MachinesOK
<1>4. QED
  BY <1>1, <1>2, <1>3 DEF MachinesOK

\* What a reconcile goes on with is a reconcile.
LEMMA WorkEdits ==
  ASSUME NEW w \in Work, NEW s \in Steps
  PROVE  /\ w # Idle /\ w.step \in Steps /\ w.desired \in 1..MaxReplicas
         /\ w.list \in [Ordinals -> Machine] /\ w.target \in Ordinals
         /\ w.healthy \subseteq UIDs /\ w.todo \subseteq Ordinals
         /\ w.initialized \in BOOLEAN /\ w.base \in Initialization /\ w.fresh \in BOOLEAN /\ w.pending \in BOOLEAN
         /\ [w EXCEPT !.step = s] \in Work
         /\ [w EXCEPT !.step = s, !.pending = TRUE] \in Work
         /\ [w EXCEPT !.fresh = FALSE] \in Work
         /\ \A o \in Ordinals : [w EXCEPT !.step = s, !.target = o] \in Work
         /\ \A b \in BOOLEAN : [w EXCEPT !.step = s, !.initialized = b] \in Work
         /\ \A l \in [Ordinals -> Machine] : [w EXCEPT !.step = s, !.list = l] \in Work
         /\ \A o \in Ordinals, x \in Machine :
              [w EXCEPT !.step = s, !.list[o] = x] \in Work /\ [w EXCEPT !.list[o] = x] \in Work
<1>1. w # Idle
  BY DEF Work, Idle, Steps
<1>2. /\ w.step \in Steps /\ w.desired \in 1..MaxReplicas
      /\ w.list \in [Ordinals -> Machine] /\ w.target \in Ordinals
      /\ w.healthy \subseteq UIDs /\ w.todo \subseteq Ordinals
      /\ w.initialized \in BOOLEAN /\ w.base \in Initialization /\ w.fresh \in BOOLEAN /\ w.pending \in BOOLEAN
  BY DEF Work
<1>3. /\ [w EXCEPT !.step = s] \in Work
      /\ [w EXCEPT !.step = s, !.pending = TRUE] \in Work
      /\ [w EXCEPT !.fresh = FALSE] \in Work
  BY DEF Work
<1>4. /\ \A o \in Ordinals : [w EXCEPT !.step = s, !.target = o] \in Work
      /\ \A b \in BOOLEAN : [w EXCEPT !.step = s, !.initialized = b] \in Work
  BY DEF Work
<1>5. ASSUME NEW l \in [Ordinals -> Machine]
      PROVE  [w EXCEPT !.step = s, !.list = l] \in Work /\ [w EXCEPT !.list = l] \in Work
  BY DEF Work
<1>6. ASSUME NEW o \in Ordinals, NEW x \in Machine
      PROVE  [w EXCEPT !.step = s, !.list[o] = x] \in Work /\ [w EXCEPT !.list[o] = x] \in Work
  <2> DEFINE l == [w.list EXCEPT ![o] = x]
  <2>1. l \in [Ordinals -> Machine]
    BY <1>2
  <2>2. /\ [w EXCEPT !.step = s, !.list[o] = x] = [w EXCEPT !.step = s, !.list = l]
        /\ [w EXCEPT !.list[o] = x] = [w EXCEPT !.list = l]
    BY DEF Work
  <2>3. QED
    BY <1>5, <2>1, <2>2
<1>7. QED
  BY <1>1, <1>2, <1>3, <1>4, <1>5, <1>6

\* The reconcile in flight.
WorkOK == work \in Work \union {Idle}

\* Etcd and the nodes.
EtcdOK ==
  /\ members \subseteq UIDs /\ learners \subseteq members
  /\ node \in [UIDs -> {"off", "ok", "sick"}] /\ split \in BOOLEAN

\* The rest.
RestOK ==
  /\ cp \in [replicas: 0..MaxReplicas, initialized: Initialization]
  /\ cpCache \in [replicas: 0..MaxReplicas, initialized: Initialization]
  /\ nextUID \in 1..(MaxUID + 1)
  /\ scales \in 0..MaxScales /\ deletes \in 0..MaxDeletes /\ faults \in 0..MaxFaults

\* TypeOK in parts.
LEMMA TypeParts == TypeOK <=> MachinesOK /\ WorkOK /\ EtcdOK /\ RestOK
BY DEF TypeOK, MachinesOK, WorkOK, EtcdOK, RestOK

\* Counters stay within their bounds.
LEMMA Counts ==
  ASSUME RestOK
  PROVE  /\ scales < MaxScales => scales + 1 \in 0..MaxScales
         /\ deletes < MaxDeletes => deletes + 1 \in 0..MaxDeletes
         /\ faults < MaxFaults => faults + 1 \in 0..MaxFaults
         /\ nextUID <= MaxUID => nextUID \in UIDs /\ nextUID + 1 \in 1..(MaxUID + 1)
         /\ nextUID \in Nat
BY ReplicasAssumption DEF RestOK, UIDs

\* A write of somebody else, to a Machine and to the version of the reconcile.
LEMMA OthersType ==
  ASSUME MachinesOK, WorkOK, NEW o \in Ordinals, NEW x \in Machine, OthersWriteMachine(o, x)
  PROVE  MachinesOK' /\ WorkOK'
<1>1. MachinesOK'
  BY WriteType DEF OthersWriteMachine
<1>2. WorkOK'
  <2>1. CASE work' = work
    BY <2>1 DEF WorkOK
  <2>2. CASE work # Idle /\ work' = [work EXCEPT !.fresh = FALSE]
    <3>1. work \in Work
      BY <2>2 DEF WorkOK
    <3>2. work.step \in Steps
      BY <3>1 DEF Work
    <3>3. QED
      BY <2>2, <3>1, <3>2, WorkEdits DEF WorkOK
  <2>3. QED
    BY <2>1, <2>2 DEF OthersWriteMachine
<1>3. QED
  BY <1>1, <1>2

\* Users, Cluster API, nodes and watches keep the types.
LEMMA EnvironmentType ==
  ASSUME TypeOK,
         \/ DeliverMachine \/ DeliverControlPlane \/ NodeStep
         \/ \E o \in Ordinals : CAPIStep(o) \/ UserDeletesMachine(o)
         \/ \E n \in 0..MaxReplicas : ScaleControlPlane(n)
         \/ \E u \in UIDs : NodeSickens(u)
  PROVE  TypeOK'
<1>0. MachinesOK /\ WorkOK /\ EtcdOK /\ RestOK
  BY TypeParts
<1>1. CASE DeliverMachine
  <2>1. MachinesOK'
    BY <1>0, <1>1, DeliverType DEF DeliverMachine
  <2>2. WorkOK' /\ EtcdOK' /\ RestOK'
    BY <1>0, <1>1 DEF DeliverMachine, WorkOK, EtcdOK, RestOK, etcdVars, counters
  <2>3. QED
    BY <2>1, <2>2, TypeParts DEF TypeOK, MachinesOK, WorkOK, EtcdOK, RestOK
<1>2. CASE DeliverControlPlane
  BY <1>2 DEF DeliverControlPlane, TypeOK, machineVars, etcdVars, counters
<1>3. ASSUME NEW o \in Ordinals, CAPIStep(o) \/ UserDeletesMachine(o)
      PROVE  TypeOK'
  <2>0. machines[o] \in Machine
    BY <1>0 DEF MachinesOK
  <2>1. CASE CAPIWaitsForHook(o)
    <3>1. [machines[o] EXCEPT !.waiting = TRUE] \in Machine
      BY <2>0, MachineEdits
    <3>2. MachinesOK' /\ WorkOK'
      BY <1>0, <2>1, <3>1, OthersType DEF CAPIWaitsForHook
    <3>3. QED
      BY <1>0, <2>1, <3>2 DEF CAPIWaitsForHook, TypeOK, MachinesOK, WorkOK, EtcdOK, RestOK,
         etcdVars, counters
  <2>2. CASE CAPIDeletesInfrastructure(o)
    <3>1. [machines[o] EXCEPT !.waiting = FALSE] \in Machine
      BY <2>0, MachineEdits
    <3>2. MachinesOK' /\ WorkOK'
      <4>1. CASE OthersWriteMachine(o, [machines[o] EXCEPT !.waiting = FALSE])
        BY <1>0, <3>1, <4>1, OthersType
      <4>2. CASE UNCHANGED <<machineVars, work>>
        BY <1>0, <4>2 DEF MachinesOK, WorkOK, machineVars
      <4>3. QED
        BY <2>2, <4>1, <4>2 DEF CAPIDeletesInfrastructure
    <3>3. QED
      BY <1>0, <2>2, <3>2 DEF CAPIDeletesInfrastructure, TypeOK, MachinesOK, WorkOK, EtcdOK,
         RestOK, etcdVars, counters
  <2>3. CASE CAPIRemovesMachine(o)
    <3>1. MachinesOK' /\ WorkOK'
      BY <1>0, <2>3, MachineEdits, OthersType DEF CAPIRemovesMachine
    <3>2. QED
      BY <1>0, <2>3, <3>1 DEF CAPIRemovesMachine, TypeOK, MachinesOK, WorkOK, EtcdOK, RestOK,
         etcdVars, counters
  <2>4. CASE UserDeletesMachine(o)
    <3>1. [machines[o] EXCEPT !.deleting = TRUE, !.by = "user"] \in Machine
      BY <2>0, MachineEdits
    <3>2. MachinesOK' /\ WorkOK'
      BY <1>0, <2>4, <3>1, OthersType DEF UserDeletesMachine
    <3>3. deletes' \in 0..MaxDeletes
      BY <1>0, <2>4, Counts DEF UserDeletesMachine
    <3>4. QED
      BY <1>0, <2>4, <3>2, <3>3 DEF UserDeletesMachine, TypeOK, MachinesOK, WorkOK, EtcdOK,
         RestOK, etcdVars
  <2>5. QED
    BY <1>3, <2>1, <2>2, <2>3, <2>4 DEF CAPIStep
<1>4. CASE NodeStep
  <2>1. ASSUME NEW o \in Ordinals, NodeBoots(o)
        PROVE  TypeOK'
    BY <2>1 DEF NodeBoots, TypeOK, machineVars, etcdVars, counters
  <2>2. ASSUME NEW u \in UIDs, JoinEtcd(u)
        PROVE  TypeOK'
    BY <2>2 DEF JoinEtcd, TypeOK, machineVars, counters
  <2>3. ASSUME NEW u \in UIDs, PromoteLearner(u)
        PROVE  TypeOK'
    BY <2>3 DEF PromoteLearner, TypeOK, machineVars, counters
  <2>4. ASSUME NEW u \in UIDs, NodeRecovers(u)
        PROVE  TypeOK'
    BY <2>4 DEF NodeRecovers, TypeOK, machineVars, etcdVars, counters
  <2>5. QED
    BY <1>4, <2>1, <2>2, <2>3, <2>4 DEF NodeStep
<1>5. ASSUME NEW n \in 0..MaxReplicas, ScaleControlPlane(n)
      PROVE  TypeOK'
  <2>1. scales' \in 0..MaxScales
    BY <1>0, <1>5, Counts DEF ScaleControlPlane
  <2>2. QED
    BY <1>5, <2>1 DEF ScaleControlPlane, TypeOK, machineVars, etcdVars
<1>6. ASSUME NEW u \in UIDs, NodeSickens(u)
      PROVE  TypeOK'
  <2>1. faults' \in 0..MaxFaults
    BY <1>0, <1>6, Counts DEF NodeSickens
  <2>2. QED
    BY <1>6, <2>1 DEF NodeSickens, TypeOK, machineVars, etcdVars
<1>7. QED
  BY <1>1, <1>2, <1>3, <1>4, <1>5, <1>6

\* A reconcile in flight is one.
LEMMA InFlight ==
  ASSUME WorkOK, work.step \in Steps
  PROVE  /\ work # Idle /\ work \in Work
         /\ work.list \in [Ordinals -> Machine] /\ work.target \in Ordinals
         /\ Target \in Machine
<1>1. work # Idle
  BY DEF Idle, Steps
<1>2. work \in Work
  BY <1>1 DEF WorkOK
<1>3. QED
  BY <1>1, <1>2 DEF Work, Target

\* The first Machine that is missing is not listed, and is one of the ordinals.
LEMMA MissingType ==
  ASSUME WorkOK, work.step \in Steps
  PROVE  /\ Missing \subseteq Ordinals
         /\ Missing # {} =>
              First(Missing) \in Ordinals /\ ~work.list[First(Missing)].present
<1>1. work.desired \in 1..MaxReplicas
  BY InFlight, WorkEdits
<1>2. Missing \subseteq Ordinals
  BY <1>1, ReplicasAssumption DEF Missing, Ordinals
<1>3. QED
  BY <1>2, FirstIsFirst DEF Missing

\* The target of a scale-down: it is listed; and when no listed Machine is being
\* deleted, another one precedes it.
LEMMA ScaleDownTargetType ==
  ASSUME NEW list \in [Ordinals -> Machine], NEW d \in Nat \ {0}, Cardinality(Listed(list)) > d
  PROVE  /\ ScaleDownTarget(list) \in Ordinals /\ list[ScaleDownTarget(list)].present
         /\ ~list[ScaleDownTarget(list)].deleting => ScaleDownTarget(list) # 0
<1> DEFINE L == Listed(list)
           D == Deleting(list)
           t == ScaleDownTarget(list)
<1>1. L \in SUBSET Ordinals /\ D \in SUBSET L
  BY DEF Listed, Deleting
<1>2. IsFiniteSet(L) /\ Cardinality(L) \in Nat
  <2>1. IsFiniteSet(Ordinals)
    BY ReplicasAssumption, FS_Interval DEF Ordinals
  <2>2. QED
    BY <1>1, <2>1, FS_Subset, FS_CardinalityType
<1>3. L # {}
  BY <1>2, FS_EmptySet
<1>4. CASE D # {}
  <2>1. t = Last(D) /\ D \in SUBSET Ordinals
    BY <1>1, <1>4 DEF ScaleDownTarget
  <2>2. t \in D
    BY <1>4, <2>1, LastIsLast
  <2>3. QED
    BY <2>2, <1>1 DEF Listed, Deleting
<1>5. CASE D = {}
  <2>1. t = Last(L)
    BY <1>5 DEF ScaleDownTarget
  <2>2. t \in L /\ \A p \in L : t >= p
    BY <1>1, <1>3, <2>1, LastIsLast
  <2>3. t # 0
    <3>1. SUFFICES ASSUME t = 0 PROVE FALSE
      OBVIOUS
    <3>2. L \subseteq {0}
      BY <1>1, <2>2, <3>1, ReplicasAssumption DEF Ordinals
    <3>3. L = {0}
      BY <1>3, <3>2
    <3>4. Cardinality(L) = 1
      BY <3>3, FS_Singleton
    <3>5. QED
      BY <3>4
  <2>4. QED
    BY <2>2, <2>3, <1>1 DEF Listed
<1>6. QED
  BY <1>4, <1>5

\* An optimistic lock: the write, or the end of the reconcile.
LEMMA LockedType ==
  ASSUME MachinesOK, WorkOK, work.step \in Steps, NEW x \in Machine, NEW s \in Steps,
         NEW n, n \in {[work EXCEPT !.step = s], [work EXCEPT !.step = s, !.pending = TRUE]},
         LockedPatch(x, n)
  PROVE  MachinesOK' /\ WorkOK'
<1>1. CASE work.fresh /\ MachineInformer!Write(work.target, x) /\ work' = [n EXCEPT !.list[work.target] = x]
  <2>1. MachinesOK'
    BY <1>1, WriteType, InFlight
  <2>2. n \in Work
    <3>1. work \in Work
      BY InFlight
    <3>2. [work EXCEPT !.step = s] \in Work /\ [work EXCEPT !.step = s, !.pending = TRUE] \in Work
      BY <3>1, WorkEdits
    <3>3. QED
      BY <3>2
  <2>3. WorkOK'
    BY <1>1, <2>2, InFlight, WorkEdits DEF WorkOK
  <2>4. QED
    BY <2>1, <2>3
<1>2. CASE work' = Idle /\ UNCHANGED machineVars
  BY <1>2 DEF MachinesOK, WorkOK, machineVars
<1>3. QED
  BY <1>1, <1>2 DEF LockedPatch

\* The controller's steps keep the types.
LEMMA ControllerType ==
  ASSUME TypeOK, ControllerStep \/ StartKubernetesUpgrade \/ ScaleDownCallFails \/ Crash
  PROVE  TypeOK'
<1>0. MachinesOK /\ WorkOK /\ EtcdOK /\ RestOK
  BY TypeParts
<1> DEFINE Typed == MachinesOK' /\ WorkOK'
           Others == UNCHANGED <<cp, cpCache, etcdVars, node, counters>>
<1>a. ASSUME Typed, Others
      PROVE  TypeOK'
  BY <1>0, <1>a DEF TypeOK, MachinesOK, WorkOK, EtcdOK, RestOK, etcdVars, counters
<1>b. ASSUME UNCHANGED machineVars, WorkOK', Others
      PROVE  TypeOK'
  BY <1>0, <1>b, <1>a DEF MachinesOK, machineVars
<1>c. ASSUME NEW s \in Steps, work.step \in Steps
      PROVE  /\ [work EXCEPT !.step = s] \in Work
             /\ [work EXCEPT !.step = s, !.pending = TRUE] \in Work
  BY <1>0, <1>c, InFlight, WorkEdits
<1>d. ASSUME Pending, work.step \in Steps
      PROVE  WorkOK'
  BY <1>c, <1>d DEF Pending, WorkOK, Steps
<1>1. CASE ReportInvalidReplicas
  BY <1>1 DEF ReportInvalidReplicas, TypeOK, vars, machineVars, etcdVars, counters
<1>2. CASE BeginReconcile
  <2>1. cpCache.replicas \in 1..MaxReplicas /\ cpCache.initialized \in Initialization
    BY <1>0, <1>2, ReplicasAssumption DEF BeginReconcile, DesiredReplicasValid, RestOK
  <2>2. 0 \in Ordinals
    BY ReplicasAssumption DEF Ordinals
  <2>3. work' \in Work
    BY <1>0, <1>2, <2>1, <2>2 DEF BeginReconcile, Work, Steps, MachinesOK
  <2>4. QED
    BY <1>b, <1>2, <2>3 DEF BeginReconcile, WorkOK
<1>3. CASE CreateMachine
  <2> DEFINE o == First(Missing)
  <2>1. work.step \in Steps /\ Missing # {}
    BY <1>3 DEF CreateMachine, Busy, Steps
  <2>2. o \in Ordinals
    BY <1>0, <2>1, MissingType
  <2>3. WorkOK'
    BY <1>0, <1>3, <2>1, <2>2, InFlight, WorkEdits DEF CreateMachine, WorkOK, Steps
  <2>4. MachinesOK' /\ nextUID' \in 1..(MaxUID + 1)
    <3>1. CASE nextUID <= MaxUID /\ MachineInformer!Write(o, NewMachine(nextUID)) /\ nextUID' = nextUID + 1
      <4>1. NewMachine(nextUID) \in Machine /\ nextUID' \in 1..(MaxUID + 1)
        BY <1>0, <3>1, Counts, MachineEdits
      <4>2. QED
        BY <1>0, <2>2, <3>1, <4>1, WriteType
    <3>2. CASE UNCHANGED <<machineVars, nextUID>>
      BY <1>0, <3>2 DEF MachinesOK, RestOK, machineVars
    <3>3. QED
      BY <1>3, <3>1, <3>2 DEF CreateMachine
  <2>5. QED
    BY <1>0, <1>3, <2>3, <2>4 DEF CreateMachine, TypeOK, MachinesOK, WorkOK, EtcdOK, RestOK,
       etcdVars
<1>4. CASE GetCreatedMachine
  <2>1. work.step \in Steps
    BY <1>4 DEF GetCreatedMachine, Busy, Steps
  <2>2. machineCache[work.target] \in Machine /\ work.target \in Ordinals /\ work \in Work
    BY <1>0, <2>1, InFlight DEF MachinesOK
  <2>3. WorkOK'
    BY <1>4, <2>2, WorkEdits DEF GetCreatedMachine, WorkOK, Steps
  <2>4. QED
    BY <1>b, <1>4, <2>3 DEF GetCreatedMachine
<1>5. CASE RefreshList
  <2> DEFINE t == ScaleDownTarget(machineCache)
             s == ScaleDownStep(machineCache[t])
  <2>1. work.step \in Steps
    BY <1>5 DEF RefreshList, Busy, Steps
  <2>2. work \in Work /\ work.desired \in 1..MaxReplicas
    BY <1>0, <2>1, InFlight, WorkEdits
  <2>3. CASE Cardinality(Listed(machineCache)) <= work.desired
    <3>1. work' = [work EXCEPT !.step = "bootstrap", !.list = machineCache]
      BY <1>5, <2>3 DEF RefreshList
    <3>2. "bootstrap" \in Steps /\ machineCache \in [Ordinals -> Machine]
      BY <1>0 DEF Steps, MachinesOK
    <3>3. work' \in Work
      BY <2>2, <3>1, <3>2, WorkEdits
    <3>4. QED
      BY <1>b, <1>5, <3>3 DEF RefreshList, WorkOK
  <2>4. CASE ~(Cardinality(Listed(machineCache)) <= work.desired)
    <3>0. Cardinality(Listed(machineCache)) \in Nat
      <4>1. IsFiniteSet(Ordinals)
        BY ReplicasAssumption, FS_Interval DEF Ordinals
      <4>2. Listed(machineCache) \in SUBSET Ordinals
        BY DEF Listed
      <4>3. QED
        BY <4>1, <4>2, FS_Subset, FS_CardinalityType
    <3>1. t \in Ordinals
      <4>1. work.desired \in Nat \ {0} /\ Cardinality(Listed(machineCache)) > work.desired
        BY <2>2, <2>4, <3>0, ReplicasAssumption
      <4>2. QED
        BY <1>0, <4>1, ScaleDownTargetType DEF MachinesOK
    <3>2. s \in Steps
      BY DEF ScaleDownStep, Steps
    <3>3. Listed(machineCache) \subseteq Ordinals /\ MachineInformer!Fresh(t) \in BOOLEAN
      BY DEF Listed, MachineInformer!Fresh
    <3>4. work' = [work EXCEPT !.step = s, !.list = machineCache, !.target = t,
                               !.fresh = MachineInformer!Fresh(t), !.todo = Listed(machineCache),
                               !.pending = s = "bootstrap"]
      BY <1>5, <2>4 DEF RefreshList
    <3> HIDE DEF t, s
    <3>5. work' \in Work
      <4>1. PICK f \in BOOLEAN, p \in BOOLEAN, l \in SUBSET Ordinals, c \in [Ordinals -> Machine] :
              work' = [work EXCEPT !.step = s, !.list = c, !.target = t,
                                   !.fresh = f, !.todo = l, !.pending = p]
        BY <1>0, <3>3, <3>4 DEF MachinesOK
      <4>2. QED
        BY <2>2, <3>1, <3>2, <4>1 DEF Work
    <3>6. QED
      BY <1>b, <1>5, <3>5 DEF RefreshList, WorkOK
  <2>5. QED
    BY <2>3, <2>4
<1>6. CASE EnsureEtcdDeleteHook
  <2>1. work.step \in Steps
    BY <1>6 DEF EnsureEtcdDeleteHook, Busy, Steps
  <2>2. [Target EXCEPT !.hook = TRUE] \in Machine
    BY <1>0, <2>1, InFlight, MachineEdits
  <2>3. MachinesOK' /\ WorkOK'
    <3>1. CASE Target.deleting
      BY <1>0, <1>6, <2>1, <2>2, <3>1, LockedType DEF EnsureEtcdDeleteHook, Steps
    <3>2. CASE ~Target.deleting
      BY <1>0, <1>6, <2>1, <2>2, <3>2, LockedType DEF EnsureEtcdDeleteHook, Steps
    <3>3. QED
      BY <3>1, <3>2
  <2>4. QED
    BY <1>a, <1>6, <2>3 DEF EnsureEtcdDeleteHook
<1>7. CASE DeleteMachine
  <2>1. work.step \in Steps
    BY <1>7 DEF DeleteMachine, Busy, Steps
  <2>2. WorkOK'
    BY <1>d, <1>7, <2>1 DEF DeleteMachine
  <2>3. MachinesOK'
    <3>1. CASE MachineInformer!Write(work.target, [machines[work.target] EXCEPT !.deleting = TRUE, !.by = "scaleDown"])
      <4>1. work.target \in Ordinals /\ machines[work.target] \in Machine
        BY <1>0, <2>1, InFlight DEF MachinesOK
      <4>2. [machines[work.target] EXCEPT !.deleting = TRUE, !.by = "scaleDown"] \in Machine
        BY <4>1, MachineEdits
      <4>3. QED
        BY <1>0, <3>1, <4>1, <4>2, WriteType
    <3>2. CASE UNCHANGED machineVars
      BY <1>0, <3>2 DEF MachinesOK, machineVars
    <3>3. QED
      BY <1>7, <3>1, <3>2 DEF DeleteMachine
  <2>4. QED
    BY <1>a, <1>7, <2>2, <2>3 DEF DeleteMachine
<1>8. CASE ReconcileAnnotatedEtcdMember
  <2>1. work.step \in Steps
    BY <1>8 DEF ReconcileAnnotatedEtcdMember, Busy, Steps
  <2>2. WorkOK'
    BY <1>c, <1>d, <1>8, <2>1 DEF ReconcileAnnotatedEtcdMember, WorkOK, Steps
  <2>3. QED
    BY <1>b, <1>8, <2>2 DEF ReconcileAnnotatedEtcdMember
<1>9. CASE RemoveEtcdDeleteHook
  <2>1. work.step \in Steps
    BY <1>9 DEF RemoveEtcdDeleteHook, Busy, Steps
  <2>2. [Target EXCEPT !.hook = FALSE, !.memberID = 0] \in Machine
    BY <1>0, <2>1, InFlight, MachineEdits
  <2>3. MachinesOK' /\ WorkOK'
    BY <1>0, <1>9, <2>1, <2>2, LockedType DEF RemoveEtcdDeleteHook, Steps
  <2>4. QED
    BY <1>a, <1>9, <2>3 DEF RemoveEtcdDeleteHook
<1>10. CASE ObserveEtcdMachine
  <2> DEFINE o == First(work.todo)
             u == work.list[o].uid
  <2>1. work.step \in Steps
    BY <1>10 DEF ObserveEtcdMachine, Busy, Steps
  <2>2. WorkOK'
    <3>1. CASE u \in members /\ work' = [work EXCEPT
                 !.todo = @ \ {o},
                 !.healthy = IF node[u] = "ok" /\ Working THEN @ \union {u} ELSE @,
                 !.step = IF work.todo = {o} THEN "annotate" ELSE "observe"]
      <4>1. work \in Work /\ u \in UIDs
        BY <1>0, <2>1, <3>1, InFlight DEF EtcdOK
      <4> HIDE DEF o, u
      <4>2. work' \in Work
        BY <3>1, <4>1 DEF Work, Steps
      <4>3. QED
        BY <4>2 DEF WorkOK
    <3>2. CASE Pending
      BY <1>d, <2>1, <3>2
    <3>3. QED
      BY <1>10, <3>1, <3>2 DEF ObserveEtcdMachine
  <2>3. QED
    BY <1>b, <1>10, <2>2 DEF ObserveEtcdMachine
<1>11. CASE AnnotateEtcdMemberID
  <2>1. work.step \in Steps
    BY <1>11 DEF AnnotateEtcdMemberID, Busy, Steps
  <2>2. [Target EXCEPT !.memberID = Target.uid] \in Machine
    BY <1>0, <2>1, InFlight, MachineEdits
  <2>3. MachinesOK' /\ WorkOK'
    BY <1>0, <1>11, <2>1, <2>2, LockedType DEF AnnotateEtcdMemberID, Steps
  <2>4. QED
    BY <1>a, <1>11, <2>3 DEF AnnotateEtcdMemberID
<1>12. CASE ObserveEtcdMembers
  <2>1. work.step \in Steps
    BY <1>12 DEF ObserveEtcdMembers, Busy, Steps
  <2>2. WorkOK'
    BY <1>c, <1>d, <1>12, <2>1 DEF ObserveEtcdMembers, WorkOK, Steps
  <2>3. QED
    BY <1>b, <1>12, <2>2 DEF ObserveEtcdMembers
<1>13. CASE RemoveObservedEtcdMember \/ ScaleDownCallFails
  <2>1. work.step \in Steps
    BY <1>13 DEF RemoveObservedEtcdMember, ScaleDownCallFails, Busy, Steps
  <2>2. WorkOK'
    BY <1>d, <1>13, <2>1 DEF RemoveObservedEtcdMember, ScaleDownCallFails
  <2>3. EtcdOK'
    BY <1>0, <1>13 DEF RemoveObservedEtcdMember, ScaleDownCallFails, EtcdOK
  <2>4. faults' \in 0..MaxFaults
    BY <1>0, <1>13, Counts DEF RemoveObservedEtcdMember, ScaleDownCallFails, counters, RestOK
  <2>5. QED
    BY <1>0, <1>13, <2>2, <2>3, <2>4 DEF RemoveObservedEtcdMember, ScaleDownCallFails, TypeOK,
       WorkOK, EtcdOK, machineVars, counters
<1>14. CASE ScaleDownCallUnanswered
  <2>1. work.step \in Steps
    BY <1>14 DEF ScaleDownCallUnanswered, Steps
  <2>2. WorkOK'
    BY <1>d, <1>14, <2>1 DEF ScaleDownCallUnanswered
  <2>3. QED
    BY <1>b, <1>14, <2>2 DEF ScaleDownCallUnanswered
<1>15. CASE ReconcileFirstControlPlane
  <2>1. work.step \in Steps
    BY <1>15 DEF ReconcileFirstControlPlane, Busy, Steps
  <2>2. WorkOK'
    <3>1. work \in Work
      BY <1>0, <2>1, InFlight
    <3>2. Bootstrapped(TRUE) \/ Bootstrapped(FALSE)
      BY <1>15 DEF ReconcileFirstControlPlane
    <3>3. PICK s \in Steps, b \in BOOLEAN :
            work' = [work EXCEPT !.step = s, !.initialized = b]
      BY <3>2 DEF Bootstrapped, Steps
    <3>4. work' \in Work
      BY <3>1, <3>3, WorkEdits
    <3>5. QED
      BY <3>4 DEF WorkOK
  <2>3. EtcdOK'
    <3>1. CASE UNCHANGED etcdVars
      BY <1>0, <1>15, <3>1 DEF ReconcileFirstControlPlane, EtcdOK, etcdVars
    <3>2. CASE /\ Answers(0) /\ members' \in {members, {work.list[0].uid}}
               /\ split' \in BOOLEAN /\ learners' = learners \intersect members'
      <4>1. work.list[0] \in Machine /\ work.list[0].uid # 0
        BY <1>0, <2>1, <3>2, InFlight, ReplicasAssumption DEF Answers, Ordinals
      <4>2. work.list[0].uid \in UIDs
        BY <4>1 DEF Machine
      <4>3. QED
        BY <1>0, <1>15, <3>2, <4>2 DEF ReconcileFirstControlPlane, EtcdOK
    <3>3. QED
      BY <1>0, <1>15, <3>1, <3>2 DEF ReconcileFirstControlPlane, EtcdOK
  <2>4. faults' \in 0..MaxFaults
    BY <1>0, <1>15, Counts DEF ReconcileFirstControlPlane, RestOK
  <2>5. QED
    BY <1>0, <1>15, <2>2, <2>3, <2>4 DEF ReconcileFirstControlPlane, TypeOK, WorkOK, EtcdOK,
       machineVars
<1>16. CASE EndKubernetesUpgrade \/ StartKubernetesUpgrade
  <2>1. work.step \in Steps
    BY <1>16 DEF EndKubernetesUpgrade, StartKubernetesUpgrade, Busy, Steps
  <2>2. WorkOK'
    BY <1>c, <1>16, <2>1 DEF EndKubernetesUpgrade, StartKubernetesUpgrade, WorkOK, Steps
  <2>3. QED
    BY <1>b, <1>16, <2>2 DEF EndKubernetesUpgrade, StartKubernetesUpgrade
<1>17. CASE PatchStatus
  <2>1. work.step \in Steps
    BY <1>17 DEF PatchStatus, Busy, Steps
  <2>2. ReportedInitialization \in Initialization
    <3>1. work.base \in Initialization
      BY <1>0, <2>1, InFlight, WorkEdits
    <3>2. QED
      BY <3>1 DEF ReportedInitialization, Initialization
  <2>3. QED
    BY <1>17, <2>2 DEF PatchStatus, TypeOK, machineVars, etcdVars, counters
<1>18. CASE Crash
  <2>1. faults' \in 0..MaxFaults
    BY <1>0, <1>18, Counts DEF Crash
  <2>2. QED
    BY <1>18, <2>1 DEF Crash, TypeOK, machineVars, etcdVars
<1>19. QED
  BY <1>1, <1>2, <1>3, <1>4, <1>5, <1>6, <1>7, <1>8, <1>9, <1>10, <1>11, <1>12, <1>13,
     <1>14, <1>15, <1>16, <1>17, <1>18 DEF ControllerStep

\* Both initial states are typed.
LEMMA InitialType == Init \/ InitFormed => TypeOK
<1>0. 0 \in 0..MaxScales /\ 0 \in 0..MaxDeletes /\ 0 \in 0..MaxFaults
  BY ReplicasAssumption
<1>1. ASSUME Init PROVE TypeOK
  <2>1. MachinesOK
    <3>1. /\ machines = [o \in Ordinals |-> NoMachine]
          /\ machineCache = machines /\ machineEvents = <<>>
      BY <1>1 DEF Init
    <3>2. NoMachine \in Machine
      BY MachineEdits
    <3>3. machines \in [Ordinals -> Machine]
      BY <3>1, <3>2
    <3>4. machineEvents \in Seq([key: Ordinals, object: Machine])
      BY <3>1, EmptySeq
    <3>5. QED
      BY <3>1, <3>3, <3>4 DEF MachinesOK
  <2>2. WorkOK /\ EtcdOK
    BY <1>1 DEF Init, WorkOK, EtcdOK
  <2>3. cp \in [replicas: 0..MaxReplicas, initialized: Initialization]
    <3>1. cp \in [replicas: 1..MaxReplicas, initialized: {"unset"}]
      BY <1>1 DEF Init
    <3>2. PICK n \in 1..MaxReplicas : cp = [replicas |-> n, initialized |-> "unset"]
      BY <3>1
    <3>3. n \in 0..MaxReplicas
      BY ReplicasAssumption
    <3>4. QED
      BY <3>2, <3>3 DEF Initialization
  <2>4. RestOK
    BY <1>0, <1>1, <2>3, ReplicasAssumption DEF Init, RestOK, CountersZero
  <2>5. QED
    BY <2>1, <2>2, <2>4, TypeParts
<1>2. ASSUME InitFormed PROVE TypeOK
  <2>1. MachinesOK
    <3>1. \A o \in Ordinals : o + 1 \in UIDs
      BY ReplicasAssumption DEF Ordinals, UIDs
    <3>2. \A o \in Ordinals : NewMachine(o + 1) \in Machine
      BY <3>1, MachineEdits
    <3>3. QED
      BY <1>2, <3>2 DEF InitFormed, MachinesOK
  <2>2. WorkOK /\ EtcdOK
    <3>1. 1..MaxReplicas \subseteq UIDs
      BY ReplicasAssumption DEF UIDs
    <3>2. QED
      BY <1>2, <3>1 DEF InitFormed, WorkOK, EtcdOK
  <2>3. RestOK
    <3>1. MaxReplicas + 1 \in 1..(MaxUID + 1) /\ MaxReplicas \in 0..MaxReplicas
      BY ReplicasAssumption
    <3>2. QED
      BY <1>0, <1>2, <3>1 DEF InitFormed, RestOK, CountersZero, Initialization
  <2>4. QED
    BY <2>1, <2>2, <2>3, TypeParts
<1>3. QED
  BY <1>1, <1>2

\* Every step keeps the types.
LEMMA TypeStep == TypeOK /\ [Next]_vars => TypeOK'
<1> SUFFICES ASSUME TypeOK, [Next]_vars PROVE TypeOK'
  OBVIOUS
<1>1. CASE UNCHANGED vars
  BY <1>1 DEF TypeOK, vars, machineVars, etcdVars, counters
<1>2. CASE Next
  BY <1>2, EnvironmentType, ControllerType DEF Next
<1>3. QED
  BY <1>1, <1>2

\* Types are kept, from a new control plane and from a formed one.
THEOREM TypeCorrect == Spec \/ FormedSpec => []TypeOK
BY InitialType, TypeStep, PTL DEF Spec, FormedSpec

-----------------------------------------------------------------------------
(* The hook.  What is known of all the copies of a Machine that exist:     *)
(* stored, cached, on their way, in the reconcile in flight.               *)

\* Every copy of a Machine but the reconcile's; and with it.
Copies(o) ==
  {machines[o], machineCache[o]}
    \union {machineEvents[i].object :
              i \in {j \in 1..Len(machineEvents) : machineEvents[j].key = o}}

Views(o) == Copies(o) \union (IF work # Idle THEN {work.list[o]} ELSE {})

\* Only a Machine that is there has a uid, handed out before, and marks.
SoundCopy(v) ==
  /\ v.uid < nextUID
  /\ v.present <=> v.uid # 0
  /\ v.hook \/ v.deleting => v.present
  /\ v.memberID \in {0, v.uid}

Sound == \A o \in Ordinals : \A v \in Views(o) : SoundCopy(v)

\* A uid tells the ordinal.
Unique ==
  \A o, p \in Ordinals : \A v \in Views(o), w \in Views(p) :
    v.uid # 0 /\ v.uid = w.uid => o = p

\* Of a hooked Machine no copy from before it was created is left,
Hooked ==
  \A o \in Ordinals : machines[o].hook => \A v \in Copies(o) : v.uid = machines[o].uid

\* nor is one delivered before a copy with the hook.
HookedBehind ==
  \A i \in 1..Len(machineEvents) :
    LET e == machineEvents[i]
    IN e.object.hook =>
         /\ machineCache[e.key].uid = e.object.uid
         /\ \A j \in 1..(i - 1) :
              machineEvents[j].key = e.key => machineEvents[j].object.uid = e.object.uid

\* A Machine that any copy shows with the hook has it still, or is being deleted,
\* or is gone and not replaced.
HookKept ==
  \A o \in Ordinals : \A v \in Views(o) :
    v.hook => \/ ~machines[o].present
              \/ machines[o].uid = v.uid /\ (machines[o].hook \/ machines[o].deleting)

History == MachineInformer!Agree /\ Sound /\ Unique /\ Hooked /\ HookedBehind /\ HookKept

\* No copy of a Machine that is to be created has the hook.
Vacant ==
  work.step \in {"ensure", "created"} =>
    \A o \in Ordinals : ~work.list[o].present => \A v \in Views(o) : ~v.hook

\* A version not overtaken is the stored one, and the cached one.
Current ==
  work.step \in {"hook", "annotated", "unhook", "observe", "annotate"} /\ work.fresh =>
    Target = machines[work.target] /\ MachineInformer!Fresh(work.target)

\* What was read of the target of a scale-down.
Targeted ==
  /\ work.step \in {"hook", "delete", "annotated", "unhook", "observe", "annotate",
                    "members", "remove"} => Target.present
  /\ work.step = "hook" /\ ~Target.deleting => work.target # 0
  /\ work.step = "delete" => work.target # 0 /\ Target.hook
  /\ work.step \in {"annotated", "unhook", "observe", "annotate"} => Target.deleting
  /\ work.step \in {"annotated", "unhook"} => Target.memberID # 0
  /\ work.step = "unhook" /\ work.fresh => Target.uid \notin members

\* A Machine that scale-down deletes is not the first, and keeps its hook while it is
\* a member.
Guarded ==
  \A o \in Ordinals :
    LET m == machines[o]
    IN m.by = "scaleDown" => o # 0 /\ m.deleting /\ (m.hook \/ m.uid \notin members)

\* What allowed a removal still holds, but for the health of the nodes and for
\* members that joined.
Allowed ==
  work.step = "remove" =>
    /\ ObservedUIDs \subseteq members /\ learners \intersect ObservedUIDs = {}
    /\ CanRemoveMember([members |-> Cardinality(ObservedUIDs),
                        healthy |-> Cardinality(work.healthy),
                        targetHealthy |-> Target.uid \in work.healthy,
                        targetObserved |-> TRUE])

Inv == History /\ Vacant /\ Current /\ Targeted /\ Guarded /\ Allowed

-----------------------------------------------------------------------------
(* The copies of Machines.                                                 *)

\* The events on their way.
LEMMA Events ==
  ASSUME MachinesOK
  PROVE  /\ Len(machineEvents) \in Nat
         /\ \A i \in 1..Len(machineEvents) :
              /\ machineEvents[i].key \in Ordinals /\ machineEvents[i].object \in Machine
              /\ machineEvents[i].object \in Copies(machineEvents[i].key)
<1>1. \A i \in 1..Len(machineEvents) : machineEvents[i] \in [key: Ordinals, object: Machine]
  BY ElementOfSeq DEF MachinesOK
<1>2. QED
  BY <1>1 DEF MachinesOK, Copies

\* Copies are Machines.
LEMMA CopiesType ==
  ASSUME TypeOK, NEW o \in Ordinals
  PROVE  /\ Views(o) \subseteq Machine /\ Copies(o) \subseteq Views(o)
         /\ machines[o] \in Copies(o) /\ machineCache[o] \in Copies(o)
         /\ machines[o] \in Machine /\ machineCache[o] \in Machine
         /\ work # Idle => work.list[o] \in Views(o) /\ work.list[o] \in Machine
         /\ \A v \in Views(o) : v.uid \in Nat
<1>1. MachinesOK /\ WorkOK
  BY TypeParts
<1>2. machines[o] \in Machine /\ machineCache[o] \in Machine
  BY <1>1 DEF MachinesOK
<1>3. \A i \in 1..Len(machineEvents) : machineEvents[i].object \in Machine
  BY <1>1, Events
<1>4. work # Idle => work.list[o] \in Machine
  BY <1>1 DEF WorkOK, Work
<1>5. Views(o) \subseteq Machine
  BY <1>2, <1>3, <1>4 DEF Views, Copies
<1>6. \A v \in Views(o) : v.uid \in Nat
  BY <1>5, MachineEdits
<1>7. QED
  BY <1>2, <1>4, <1>5, <1>6 DEF Views, Copies

\* A write adds the copy that is written,
LEMMA WriteCopies ==
  ASSUME MachinesOK, NEW k \in Ordinals, NEW x \in Machine, MachineInformer!Write(k, x),
         NEW o \in Ordinals
  PROVE  Copies(o)' \subseteq Copies(o) \union (IF o = k THEN {x} ELSE {})
<1> DEFINE n == Len(machineEvents)
<1>1. /\ machines' = [machines EXCEPT ![k] = x] /\ machineCache' = machineCache
      /\ machineEvents' = Append(machineEvents, [key |-> k, object |-> x])
  BY DEF MachineInformer!Write
<1>2. /\ n \in Nat /\ Len(machineEvents') = n + 1
      /\ machineEvents'[n + 1] = [key |-> k, object |-> x]
      /\ \A i \in 1..n : machineEvents'[i] = machineEvents[i]
  BY <1>1 DEF MachinesOK
<1>3. machines'[o] = IF o = k THEN x ELSE machines[o]
  BY <1>1 DEF MachinesOK
<1>4. ASSUME NEW i \in 1..(n + 1), machineEvents'[i].key = o
      PROVE  machineEvents'[i].object \in Copies(o) \union (IF o = k THEN {x} ELSE {})
  <2>1. CASE i = n + 1
    BY <1>2, <1>4, <2>1
  <2>2. CASE i \in 1..n
    BY <1>2, <1>4, <2>2 DEF Copies
  <2>3. QED
    BY <1>2, <2>1, <2>2
<1>5. ASSUME NEW v \in Copies(o)'
      PROVE  \/ v = machines'[o] \/ v = machineCache'[o]
             \/ \E i \in 1..(n + 1) : machineEvents'[i].key = o /\ v = machineEvents'[i].object
  BY <1>2 DEF Copies
<1>6. machines'[o] \in Copies(o) \union (IF o = k THEN {x} ELSE {}) /\ machineCache'[o] \in Copies(o)
  BY <1>1, <1>3 DEF Copies
<1>7. QED
  BY <1>4, <1>5, <1>6

\* and a delivery none.
LEMMA DeliverCopies ==
  ASSUME MachinesOK, MachineInformer!Deliver, NEW o \in Ordinals
  PROVE  Copies(o)' \subseteq Copies(o)
<1> DEFINE n == Len(machineEvents)
           e == Head(machineEvents)
<1>1. /\ machineEvents' = Tail(machineEvents) /\ machines' = machines /\ machineEvents # <<>>
      /\ machineCache' = [machineCache EXCEPT ![e.key] = e.object]
  BY DEF MachineInformer!Deliver
<1>2. /\ n \in Nat \ {0} /\ Len(machineEvents') = n - 1 /\ e = machineEvents[1]
      /\ \A i \in 1..(n - 1) : machineEvents'[i] = machineEvents[i + 1] /\ i + 1 \in 1..n
  BY <1>1, HeadTailProperties DEF MachinesOK
<1>3. machineCache'[o] \in Copies(o)
  BY <1>1, <1>2 DEF Copies, MachinesOK
<1>4. ASSUME NEW i \in 1..(n - 1), machineEvents'[i].key = o
      PROVE  machineEvents'[i].object \in Copies(o)
  BY <1>2, <1>4 DEF Copies
<1>5. ASSUME NEW v \in Copies(o)'
      PROVE  \/ v = machines'[o] \/ v = machineCache'[o]
             \/ \E i \in 1..(n - 1) : machineEvents'[i].key = o /\ v = machineEvents'[i].object
  BY <1>2 DEF Copies
<1>6. machines'[o] \in Copies(o)
  BY <1>1 DEF Copies
<1>7. QED
  BY <1>3, <1>4, <1>5, <1>6

\* Of a Machine that is hooked, or whose cached version is the stored one, all copies
\* have one uid.
LEMMA OneUID ==
  ASSUME TypeOK, MachineInformer!Agree, Hooked, NEW o \in Ordinals,
         machines[o].hook \/ MachineInformer!Fresh(o)
  PROVE  \A v \in Copies(o) : v.uid = machines[o].uid
<1>1. CASE machines[o].hook
  BY <1>1 DEF Hooked
<1>2. CASE MachineInformer!Fresh(o)
  <2>1. o \in DOMAIN machines
    BY DEF TypeOK
  <2>2. machineCache[o] = machines[o]
    BY <1>2, <2>1 DEF MachineInformer!Agree
  <2>3. Copies(o) \subseteq {machines[o], machineCache[o]}
    BY <1>2 DEF MachineInformer!Fresh, Copies
  <2>4. QED
    BY <2>2, <2>3
<1>3. QED
  BY <1>1, <1>2

\* A write keeps the last event of every Machine equal to the stored one.
LEMMA WriteAgree ==
  ASSUME MachinesOK, MachineInformer!Agree, NEW k \in Ordinals, NEW x \in Machine,
         MachineInformer!Write(k, x)
  PROVE  MachineInformer!Agree'
<1> DEFINE n == Len(machineEvents)
<1>1. /\ machines' = [machines EXCEPT ![k] = x] /\ machineCache' = machineCache
      /\ machineEvents' = Append(machineEvents, [key |-> k, object |-> x])
  BY DEF MachineInformer!Write
<1>2. /\ n \in Nat /\ Len(machineEvents') = n + 1
      /\ machineEvents'[n + 1] = [key |-> k, object |-> x]
      /\ \A i \in 1..n : machineEvents'[i] = machineEvents[i]
  BY <1>1 DEF MachinesOK
<1>3. machines'[k] = x /\ \A o \in Ordinals \ {k} : machines'[o] = machines[o]
  BY <1>1 DEF MachinesOK
<1>4. ASSUME NEW i \in 1..(n + 1),
             \A j \in (i + 1)..(n + 1) : machineEvents'[j].key # machineEvents'[i].key
      PROVE  machineEvents'[i].object = machines'[machineEvents'[i].key]
  <2>1. CASE i = n + 1
    BY <1>2, <1>3, <2>1
  <2>2. CASE i \in 1..n
    <3>1. machineEvents'[i] = machineEvents[i] /\ machineEvents[i].key # k
      BY <1>2, <1>4, <2>2
    <3>2. \A j \in (i + 1)..n : machineEvents[j].key # machineEvents[i].key
      BY <1>2, <1>4, <2>2
    <3>3. machineEvents[i].object = machines[machineEvents[i].key]
      BY <2>2, <3>2 DEF MachineInformer!Agree
    <3>4. QED
      BY <1>3, <2>2, <3>1, <3>3, Events
  <2>3. QED
    BY <1>2, <2>1, <2>2
<1>5. ASSUME NEW o \in Ordinals, \A i \in 1..(n + 1) : machineEvents'[i].key # o
      PROVE  machineCache'[o] = machines'[o]
  <2>1. o # k /\ \A i \in 1..n : machineEvents[i].key # o
    BY <1>2, <1>5
  <2>2. machineCache[o] = machines[o]
    BY <2>1 DEF MachineInformer!Agree, MachineInformer!Fresh, MachinesOK
  <2>3. QED
    BY <1>1, <1>3, <2>1, <2>2
<1>6. DOMAIN machines' = Ordinals
  BY <1>1 DEF MachinesOK
<1>7. QED
  BY <1>2, <1>4, <1>5, <1>6 DEF MachineInformer!Agree, MachineInformer!Fresh

\* So does a delivery, which moves the first event into the cache.
LEMMA DeliverAgree ==
  ASSUME MachinesOK, MachineInformer!Agree, MachineInformer!Deliver
  PROVE  MachineInformer!Agree'
<1> DEFINE n == Len(machineEvents)
           e == Head(machineEvents)
<1>1. /\ machineEvents' = Tail(machineEvents) /\ machines' = machines /\ machineEvents # <<>>
      /\ machineCache' = [machineCache EXCEPT ![e.key] = e.object]
  BY DEF MachineInformer!Deliver
<1>2. /\ n \in Nat \ {0} /\ Len(machineEvents') = n - 1 /\ e = machineEvents[1]
      /\ \A i \in 1..(n - 1) : machineEvents'[i] = machineEvents[i + 1]
  BY <1>1, HeadTailProperties DEF MachinesOK
<1>3. ASSUME NEW i \in 1..(n - 1),
             \A j \in (i + 1)..(n - 1) : machineEvents'[j].key # machineEvents'[i].key
      PROVE  machineEvents'[i].object = machines'[machineEvents'[i].key]
  <2>1. i + 1 \in 1..n /\ machineEvents'[i] = machineEvents[i + 1]
    BY <1>2
  <2>2. ASSUME NEW j \in (i + 2)..n
        PROVE  machineEvents[j].key # machineEvents[i + 1].key
    <3>1. j - 1 \in (i + 1)..(n - 1) /\ machineEvents'[j - 1] = machineEvents[j]
      BY <1>2, <2>2
    <3>2. QED
      BY <1>3, <2>1, <3>1
  <2>3. machineEvents[i + 1].object = machines[machineEvents[i + 1].key]
    BY <2>1, <2>2 DEF MachineInformer!Agree
  <2>4. QED
    BY <1>1, <2>1, <2>3
<1>4. ASSUME NEW o \in Ordinals, \A i \in 1..(n - 1) : machineEvents'[i].key # o
      PROVE  machineCache'[o] = machines'[o]
  <2>1. ASSUME NEW j \in 2..n
        PROVE  machineEvents[j].key # o
    <3>1. j - 1 \in 1..(n - 1) /\ machineEvents'[j - 1] = machineEvents[j]
      BY <1>2, <2>1
    <3>2. QED
      BY <1>4, <3>1
  <2>2. CASE e.key = o
    <3>1. machineEvents[1].object = machines[o]
      BY <1>2, <2>1, <2>2 DEF MachineInformer!Agree
    <3>2. QED
      BY <1>1, <1>2, <2>2, <3>1 DEF MachinesOK
  <2>3. CASE e.key # o
    <3>1. \A i \in 1..n : machineEvents[i].key # o
      BY <1>2, <2>1, <2>3
    <3>2. machineCache[o] = machines[o]
      BY <3>1 DEF MachineInformer!Agree, MachineInformer!Fresh, MachinesOK
    <3>3. QED
      BY <1>1, <2>3, <3>2 DEF MachinesOK
  <2>4. QED
    BY <2>2, <2>3
<1>5. DOMAIN machines' = Ordinals
  BY <1>1 DEF MachinesOK
<1>6. QED
  BY <1>2, <1>3, <1>4, <1>5 DEF MachineInformer!Agree, MachineInformer!Fresh

\* What the reconcile lists is what there is, or what is written to k.
Lists(k, x) ==
  work' # Idle =>
    \A o \in Ordinals : work'.list[o] \in Views(o) \union (IF o = k THEN {x} ELSE {})
ListsViews == work' # Idle => \A o \in Ordinals : work'.list[o] \in Views(o)

\* What follows when there are no other copies than before, and x as one of k.
LEMMA ViewsOf ==
  ASSUME NEW o \in Ordinals, NEW X, Copies(o)' \subseteq Copies(o) \union X,
         work' # Idle => work'.list[o] \in Views(o) \union X
  PROVE  Views(o)' \subseteq Views(o) \union X
BY DEF Views

\* A write keeps the history: of a new Machine, of none, or of the same; with the
\* hook only on one that has it or is written by its current version; and no copy
\* that has the hook is left behind by one that has not, and is not deleted.
LEMMA WriteHistory ==
  ASSUME TypeOK, History, NEW k \in Ordinals, NEW x \in Machine, MachineInformer!Write(k, x),
         nextUID' \in Nat, nextUID <= nextUID', Lists(k, x),
         x.uid \in {0, nextUID, machines[k].uid}, x.uid < nextUID',
         x.present <=> x.uid # 0, x.hook \/ x.deleting => x.present, x.memberID \in {0, x.uid},
         x.hook => x.uid = machines[k].uid /\ (machines[k].hook \/ MachineInformer!Fresh(k)),
         \A v \in Views(k) :
           v.hook => ~x.present \/ (x.uid = v.uid /\ (x.hook \/ x.deleting))
  PROVE  /\ History'
         /\ \A o \in Ordinals : Views(o)' \subseteq Views(o) \union (IF o = k THEN {x} ELSE {})
<1> DEFINE n == Len(machineEvents)
<1>0. /\ MachinesOK /\ nextUID \in Nat
      /\ \A o \in Ordinals : \A v \in Views(o) : v.uid \in Nat /\ v.uid < nextUID
      /\ \A o \in Ordinals : Copies(o) \subseteq Views(o) /\ machines[o] \in Copies(o)
      /\ x.uid \in Nat
  BY TypeParts, CopiesType, Counts, MachineEdits DEF History, Sound, SoundCopy
<1>1. /\ machineCache' = machineCache
      /\ machines'[k] = x /\ \A o \in Ordinals \ {k} : machines'[o] = machines[o]
      /\ n \in Nat /\ Len(machineEvents') = n + 1
      /\ machineEvents'[n + 1] = [key |-> k, object |-> x]
      /\ \A i \in 1..n : machineEvents'[i] = machineEvents[i]
  <2>1. /\ machines' = [machines EXCEPT ![k] = x] /\ machineCache' = machineCache
        /\ machineEvents' = Append(machineEvents, [key |-> k, object |-> x])
    BY DEF MachineInformer!Write
  <2>2. QED
    BY <1>0, <2>1 DEF MachinesOK
<1>2. \A o \in Ordinals : Copies(o)' \subseteq Copies(o) \union (IF o = k THEN {x} ELSE {})
  BY <1>0, WriteCopies
<1>3. \A o \in Ordinals : Views(o)' \subseteq Views(o) \union (IF o = k THEN {x} ELSE {})
  <2> SUFFICES ASSUME NEW o \in Ordinals
               PROVE  Views(o)' \subseteq Views(o) \union (IF o = k THEN {x} ELSE {})
    OBVIOUS
  <2>1. work' # Idle => work'.list[o] \in Views(o) \union (IF o = k THEN {x} ELSE {})
    BY DEF Lists
  <2>2. QED
    BY <1>2, <2>1, ViewsOf
<1>4. \A o \in Ordinals : \A v \in Views(o)' : v \in Views(o) \/ (o = k /\ v = x)
  BY <1>3
<1>5. MachineInformer!Agree'
  BY <1>0, WriteAgree DEF History
<1>6. Sound'
  <2> SUFFICES ASSUME NEW o \in Ordinals, NEW v \in Views(o)' PROVE SoundCopy(v)'
    BY DEF Sound
  <2>1. CASE v \in Views(o)
    <3>1. SoundCopy(v) /\ v.uid \in Nat
      BY <1>0, <2>1 DEF History, Sound
    <3>2. QED
      BY <1>0, <3>1 DEF SoundCopy
  <2>2. CASE v = x
    BY <2>2 DEF SoundCopy
  <2>3. QED
    BY <1>4, <2>1, <2>2
<1>7. Unique'
  <2> SUFFICES ASSUME NEW o \in Ordinals, NEW p \in Ordinals, NEW v \in Views(o)',
                      NEW w \in Views(p)', v.uid # 0, v.uid = w.uid
               PROVE  o = p
    BY DEF Unique
  <2>1. ASSUME NEW q \in Ordinals, NEW y \in Views(q), y.uid = x.uid, x.uid # 0
        PROVE  q = k
    <3>1. y.uid = machines[k].uid
      BY <1>0, <2>1
    <3>2. QED
      BY <1>0, <2>1, <3>1 DEF History, Unique
  <2>2. CASE v \in Views(o) /\ w \in Views(p)
    BY <2>2 DEF History, Unique
  <2>3. CASE v \in Views(o) /\ p = k /\ w = x
    BY <2>1, <2>3
  <2>4. CASE o = k /\ v = x /\ w \in Views(p)
    BY <2>1, <2>4
  <2>5. QED
    BY <1>4, <2>2, <2>3, <2>4
<1>8. x.hook => \A v \in Copies(k) : v.uid = x.uid
  BY OneUID DEF History
<1>9. Hooked'
  <2> SUFFICES ASSUME NEW o \in Ordinals, machines'[o].hook, NEW v \in Copies(o)'
               PROVE  v.uid = machines'[o].uid
    BY DEF Hooked
  <2>1. CASE o = k
    BY <1>1, <1>2, <1>8, <2>1
  <2>2. CASE o # k
    BY <1>1, <1>2, <2>2 DEF History, Hooked
  <2>3. QED
    BY <2>1, <2>2
<1>10. HookedBehind'
  <2> SUFFICES ASSUME NEW i \in 1..(n + 1), machineEvents'[i].object.hook
               PROVE  /\ machineCache'[machineEvents'[i].key].uid = machineEvents'[i].object.uid
                      /\ \A j \in 1..(i - 1) :
                           machineEvents'[j].key = machineEvents'[i].key
                             => machineEvents'[j].object.uid = machineEvents'[i].object.uid
    BY <1>1 DEF HookedBehind
  <2>1. CASE i = n + 1
    <3>1. x.hook /\ machineEvents'[i] = [key |-> k, object |-> x]
      BY <1>1, <2>1
    <3>2. machineCache[k].uid = x.uid
      BY <1>8, <3>1 DEF Copies
    <3>3. ASSUME NEW j \in 1..n, machineEvents[j].key = k
          PROVE  machineEvents[j].object.uid = x.uid
      BY <1>0, <1>8, <3>1, <3>3, Events
    <3>4. QED
      BY <1>1, <2>1, <3>1, <3>2, <3>3
  <2>2. CASE i \in 1..n
    <3>1. /\ machineCache[machineEvents[i].key].uid = machineEvents[i].object.uid
          /\ \A j \in 1..(i - 1) :
               machineEvents[j].key = machineEvents[i].key
                 => machineEvents[j].object.uid = machineEvents[i].object.uid
      BY <1>1, <2>2 DEF History, HookedBehind
    <3>2. \A j \in 1..(i - 1) : machineEvents'[j] = machineEvents[j]
      BY <1>1, <2>2
    <3>3. QED
      BY <1>1, <2>2, <3>1, <3>2
  <2>3. QED
    BY <1>1, <2>1, <2>2
<1>11. HookKept'
  <2> SUFFICES ASSUME NEW o \in Ordinals, NEW v \in Views(o)', v.hook
               PROVE  \/ ~machines'[o].present
                      \/ machines'[o].uid = v.uid /\ (machines'[o].hook \/ machines'[o].deleting)
    BY DEF HookKept
  <2>1. CASE o = k
    BY <1>1, <1>4, <2>1
  <2>2. CASE o # k
    BY <1>1, <1>4, <2>2 DEF History, HookKept
  <2>3. QED
    BY <2>1, <2>2
<1>12. QED
  BY <1>3, <1>5, <1>6, <1>7, <1>9, <1>10, <1>11 DEF History

\* Without new copies of Machines nothing changes.
LEMMA FewerViews ==
  ASSUME TypeOK, Sound, Unique, HookKept, machines' = machines, nextUID' = nextUID,
         \A o \in Ordinals : Views(o)' \subseteq Views(o)
  PROVE  Sound' /\ Unique' /\ HookKept'
<1>1. Sound'
  BY DEF Sound, SoundCopy
<1>2. Unique'
  BY DEF Unique
<1>3. HookKept'
  BY DEF HookKept
<1>4. QED
  BY <1>1, <1>2, <1>3

\* A delivery keeps the history.
LEMMA DeliverHistory ==
  ASSUME TypeOK, History, MachineInformer!Deliver, nextUID' = nextUID, work' = work
  PROVE  /\ History'
         /\ \A o \in Ordinals : Views(o)' \subseteq Views(o)
         /\ \A o \in Ordinals : MachineInformer!Fresh(o) => MachineInformer!Fresh(o)'
<1> DEFINE n == Len(machineEvents)
           e == Head(machineEvents)
<1>0. MachinesOK
  BY TypeParts
<1>1. /\ machines' = machines
      /\ n \in Nat \ {0} /\ Len(machineEvents') = n - 1 /\ e = machineEvents[1]
      /\ \A i \in 1..(n - 1) : machineEvents'[i] = machineEvents[i + 1] /\ i + 1 \in 1..n
      /\ e.key \in Ordinals /\ machineCache'[e.key] = e.object
      /\ \A o \in Ordinals \ {e.key} : machineCache'[o] = machineCache[o]
  <2>1. /\ machineEvents' = Tail(machineEvents) /\ machines' = machines /\ machineEvents # <<>>
        /\ machineCache' = [machineCache EXCEPT ![e.key] = e.object]
    BY DEF MachineInformer!Deliver
  <2>2. /\ n \in Nat \ {0} /\ Len(machineEvents') = n - 1 /\ e = machineEvents[1]
        /\ \A i \in 1..(n - 1) : machineEvents'[i] = machineEvents[i + 1] /\ i + 1 \in 1..n
    BY <1>0, <2>1, HeadTailProperties DEF MachinesOK
  <2>3. e.key \in Ordinals
    BY <1>0, <2>2, Events
  <2>4. QED
    BY <1>0, <2>1, <2>2, <2>3 DEF MachinesOK
<1>2. \A o \in Ordinals : Copies(o)' \subseteq Copies(o)
  BY <1>0, DeliverCopies
<1>3. \A o \in Ordinals : Views(o)' \subseteq Views(o)
  BY <1>2 DEF Views
<1>4. Sound' /\ Unique' /\ HookKept'
  BY <1>1, <1>3, FewerViews DEF History
<1>5. Hooked'
  BY <1>1, <1>2 DEF History, Hooked
<1>6. HookedBehind'
  <2> SUFFICES ASSUME NEW i \in 1..(n - 1), machineEvents'[i].object.hook
               PROVE  /\ machineCache'[machineEvents'[i].key].uid = machineEvents'[i].object.uid
                      /\ \A j \in 1..(i - 1) :
                           machineEvents'[j].key = machineEvents'[i].key
                             => machineEvents'[j].object.uid = machineEvents'[i].object.uid
    BY <1>1 DEF HookedBehind
  <2> DEFINE f == machineEvents[i + 1]
  <2>1. i + 1 \in 1..n /\ machineEvents'[i] = f /\ f.key \in Ordinals
    BY <1>0, <1>1, Events
  <2>2. /\ machineCache[f.key].uid = f.object.uid
        /\ \A j \in 1..i : machineEvents[j].key = f.key => machineEvents[j].object.uid = f.object.uid
    BY <2>1 DEF History, HookedBehind
  <2>3. machineCache'[f.key].uid = f.object.uid
    <3>1. CASE f.key = e.key
      <4>1. machineEvents[1].object.uid = f.object.uid
        BY <1>1, <2>2, <3>1
      <4>2. QED
        BY <1>1, <3>1, <4>1
    <3>2. CASE f.key # e.key
      BY <1>1, <2>1, <2>2, <3>2
    <3>3. QED
      BY <3>1, <3>2
  <2>4. ASSUME NEW j \in 1..(i - 1), machineEvents'[j].key = f.key
        PROVE  machineEvents'[j].object.uid = f.object.uid
    <3>1. machineEvents'[j] = machineEvents[j + 1] /\ j + 1 \in 1..i
      BY <1>1
    <3>2. QED
      BY <2>2, <2>4, <3>1
  <2>5. QED
    BY <2>1, <2>3, <2>4
<1>7. ASSUME NEW o \in Ordinals, MachineInformer!Fresh(o)
      PROVE  MachineInformer!Fresh(o)'
  BY <1>1, <1>7 DEF MachineInformer!Fresh
<1>8. QED
  BY <1>0, <1>3, <1>4, <1>5, <1>6, <1>7, DeliverAgree DEF History

\* A step that leaves Machines alone, and in which the reconcile lists what there is.
LEMMA QuietHistory ==
  ASSUME TypeOK, History, UNCHANGED machineVars, nextUID' = nextUID, ListsViews
  PROVE  /\ History'
         /\ \A o \in Ordinals : Views(o)' \subseteq Views(o) /\ Copies(o)' = Copies(o)
<1>1. \A o \in Ordinals : Copies(o)' = Copies(o)
  BY DEF machineVars, Copies
<1>2. \A o \in Ordinals : Views(o)' \subseteq Views(o)
  BY <1>1 DEF Views, ListsViews
<1>3. Sound' /\ Unique' /\ HookKept'
  BY <1>2, FewerViews DEF History, machineVars
<1>4. Hooked' /\ HookedBehind'
  BY <1>1 DEF History, Hooked, HookedBehind, machineVars
<1>5. MachineInformer!Agree'
  BY DEF History, machineVars, MachineInformer!Agree, MachineInformer!Fresh
<1>6. QED
  BY <1>1, <1>2, <1>3, <1>4, <1>5 DEF History

-----------------------------------------------------------------------------
(* Steps of the environment.                                               *)

\* A reconcile past the scale-down, or none, has nothing left to keep.
LEMMA Rests ==
  ASSUME work'.step \in {"idle", "bootstrap", "upgrade", "upgrading", "status"}
  PROVE  Vacant' /\ Current' /\ Targeted' /\ Allowed'
BY DEF Vacant, Current, Targeted, Allowed

\* A step that leaves Machines and the reconcile alone.
LEMMA QuietInv ==
  ASSUME TypeOK, Inv, UNCHANGED <<machineVars, work, nextUID>>
  PROVE  /\ History' /\ Vacant' /\ Current'
         /\ UNCHANGED <<members, learners>> => Inv'
<1>1. ListsViews
  BY CopiesType DEF ListsViews
<1>2. History' /\ \A o \in Ordinals : Views(o)' = Views(o)
  <2>1. History'
    BY <1>1, QuietHistory DEF Inv
  <2>2. \A o \in Ordinals : Views(o)' = Views(o)
    BY DEF machineVars, Views, Copies
  <2>3. QED
    BY <2>1, <2>2
<1>3. Vacant'
  BY <1>2 DEF Inv, Vacant
<1>4. Current'
  BY DEF Inv, Current, Target, machineVars, MachineInformer!Fresh
<1>5. ASSUME UNCHANGED <<members, learners>>
      PROVE  Targeted' /\ Guarded' /\ Allowed'
  BY <1>5 DEF Inv, Targeted, Target, Guarded, Allowed, machineVars, ObservedUIDs, Listed
<1>6. QED
  BY <1>2, <1>3, <1>4, <1>5 DEF Inv

\* A write of somebody else: it takes a Machine that has no hook away, or keeps its
\* uid and the hook.
LEMMA OthersInv ==
  ASSUME TypeOK, Inv, NEW k \in Ordinals, NEW x \in Machine, OthersWriteMachine(k, x),
         UNCHANGED <<members, learners, nextUID>>,
         \/ x = NoMachine /\ ~machines[k].hook
         \/ /\ x.uid = machines[k].uid /\ x.present = machines[k].present
            /\ x.hook = machines[k].hook /\ x.memberID = machines[k].memberID
            /\ machines[k].deleting => x.deleting
            /\ x.deleting => x.present
            /\ x.by \in {machines[k].by, "user"}
  PROVE  Inv'
<1>0. /\ MachinesOK /\ WorkOK /\ nextUID \in Nat /\ History
      /\ MachineInformer!Write(k, x)
      /\ machines[k] \in Views(k) /\ machines[k] \in Machine
      /\ machines[k].uid \in Nat /\ SoundCopy(machines[k])
      /\ nextUID # 0
  <2>1. nextUID # 0
    BY ReplicasAssumption DEF TypeOK
  <2>2. QED
    BY <2>1, TypeParts, Counts, CopiesType, MachineEdits DEF OthersWriteMachine, Inv, History,
       Sound
<1>1. /\ work'.step = work.step
      /\ work # Idle => /\ work'.list = work.list /\ work'.target = work.target
                        /\ work'.healthy = work.healthy
                        /\ work'.fresh => work.fresh /\ work.target # k
      /\ work' # Idle => work # Idle
  <2>1. CASE work # Idle /\ work.target = k /\ work' = [work EXCEPT !.fresh = FALSE]
    <3>1. work \in Work
      BY <1>0, <2>1 DEF WorkOK
    <3>2. QED
      BY <2>1, <3>1 DEF Work
  <2>2. CASE ~(work # Idle /\ work.target = k) /\ work' = work
    BY <2>2
  <2>3. QED
    BY <2>1, <2>2 DEF OthersWriteMachine
<1>2. Lists(k, x)
  BY <1>1, CopiesType DEF Lists
<1>3. /\ x.uid \in {0, machines[k].uid} /\ x.uid < nextUID
      /\ x.present <=> x.uid # 0
      /\ x.hook \/ x.deleting => x.present
      /\ x.memberID \in {0, x.uid}
      /\ x.hook => x.uid = machines[k].uid /\ machines[k].hook
  BY <1>0 DEF SoundCopy, NoMachine
<1>4. \A v \in Views(k) : v.hook => ~x.present \/ (x.uid = v.uid /\ (x.hook \/ x.deleting))
  BY <1>0, <1>3 DEF History, HookKept, NoMachine
<1>5. /\ History'
      /\ \A o \in Ordinals : Views(o)' \subseteq Views(o) \union (IF o = k THEN {x} ELSE {})
  <2>1. nextUID' \in Nat /\ nextUID <= nextUID' /\ x.uid < nextUID'
    BY <1>0, <1>3
  <2>2. QED
    BY <1>0, <1>2, <1>3, <1>4, <2>1, WriteHistory
<1>6. /\ machines'[k] = x /\ \A o \in Ordinals \ {k} : machines'[o] = machines[o]
      /\ \A o \in Ordinals \ {k} : MachineInformer!Fresh(o) => MachineInformer!Fresh(o)'
  <2>1. /\ machines' = [machines EXCEPT ![k] = x]
        /\ machineEvents' = Append(machineEvents, [key |-> k, object |-> x])
    BY <1>0 DEF MachineInformer!Write
  <2>2. \A i \in 1..Len(machineEvents') :
          \/ i \in 1..Len(machineEvents) /\ machineEvents'[i] = machineEvents[i]
          \/ machineEvents'[i] = [key |-> k, object |-> x]
    BY <1>0, <2>1 DEF MachinesOK
  <2>3. QED
    BY <1>0, <2>1, <2>2 DEF MachinesOK, MachineInformer!Fresh
<1>7. Vacant'
  <2> SUFFICES ASSUME work.step \in {"ensure", "created"}, NEW o \in Ordinals,
                      ~work.list[o].present, NEW v \in Views(o)', v.hook
               PROVE  FALSE
    BY <1>1 DEF Vacant, Idle
  <2>1. \A w \in Views(o) : ~w.hook
    BY DEF Inv, Vacant
  <2>2. v \in Views(o) \/ (o = k /\ v = x)
    BY <1>5
  <2>3. QED
    BY <1>0, <1>3, <2>1, <2>2
<1>8. Current'
  <2>1. ASSUME NEW t, work.step \in Steps, t = work.target, work'.fresh,
               Target = machines[t], MachineInformer!Fresh(t)
        PROVE  Target' = machines'[t] /\ MachineInformer!Fresh(t)' /\ t = work'.target
    <3>1. work # Idle /\ t \in Ordinals
      BY <1>0, <2>1, InFlight
    <3>2. t \in Ordinals \ {k} /\ t = work'.target /\ work'.list[t] = work.list[t]
      BY <1>1, <2>1, <3>1
    <3>3. machines'[t] = machines[t] /\ MachineInformer!Fresh(t)'
      BY <1>6, <2>1, <3>2
    <3>4. QED
      BY <2>1, <3>2, <3>3 DEF Target
  <2>2. CASE work.step \in {"hook", "annotated", "unhook", "observe", "annotate"} /\ work'.fresh
    <3>1. work.step \in Steps
      BY <2>2 DEF Steps
    <3>2. work # Idle
      BY <1>0, <3>1, InFlight
    <3>3. PICK t : t = work.target
      OBVIOUS
    <3>4. Target = machines[t] /\ MachineInformer!Fresh(t)
      BY <1>1, <2>2, <3>2, <3>3 DEF Inv, Current
    <3>5. Target' = machines'[t] /\ MachineInformer!Fresh(t)' /\ t = work'.target
      BY <2>1, <2>2, <3>1, <3>3, <3>4
    <3>6. QED
      BY <3>5 DEF Current
  <2>3. QED
    BY <1>1, <2>2 DEF Current
<1>9. Targeted' /\ Allowed'
  <2>1. CASE work = Idle
    BY <1>1, <2>1, Rests DEF Idle
  <2>2. CASE work # Idle
    <3>1. Target' = Target /\ ObservedUIDs' = ObservedUIDs
      BY <1>1, <2>2 DEF Target, ObservedUIDs, Listed
    <3>2. Targeted'
      BY <1>1, <2>2, <3>1 DEF Inv, Targeted
    <3>3. Allowed'
      BY <1>1, <2>2, <3>1 DEF Inv, Allowed
    <3>4. QED
      BY <3>2, <3>3
  <2>3. QED
    BY <2>1, <2>2
<1>10. Guarded'
  <2> SUFFICES ASSUME NEW o \in Ordinals, machines'[o].by = "scaleDown"
               PROVE  /\ o # 0 /\ machines'[o].deleting
                      /\ machines'[o].hook \/ machines'[o].uid \notin members
    BY DEF Guarded
  <2>1. CASE o = k
    BY <1>6, <2>1 DEF Inv, Guarded, NoMachine
  <2>2. CASE o # k
    BY <1>6, <2>2 DEF Inv, Guarded
  <2>3. QED
    BY <2>1, <2>2
<1>11. QED
  BY <1>5, <1>7, <1>8, <1>9, <1>10 DEF Inv

\* A delivery.
LEMMA DeliverInv ==
  ASSUME TypeOK, Inv, DeliverMachine
  PROVE  Inv'
<1>1. /\ MachineInformer!Deliver /\ machines' = machines
      /\ UNCHANGED <<work, nextUID, members, learners>>
  BY DEF DeliverMachine, MachineInformer!Deliver, etcdVars, counters
<1>2. /\ History'
      /\ \A o \in Ordinals : Views(o)' \subseteq Views(o)
      /\ \A o \in Ordinals : MachineInformer!Fresh(o) => MachineInformer!Fresh(o)'
  BY <1>1, DeliverHistory DEF Inv
<1>3. Vacant'
  BY <1>1, <1>2 DEF Inv, Vacant
<1>4. Current'
  <2>1. CASE work.step \in {"hook", "annotated", "unhook", "observe", "annotate"} /\ work.fresh
    <3>1. PICK t : t = work.target
      OBVIOUS
    <3>2. t \in Ordinals
      BY <2>1, <3>1, TypeParts, InFlight DEF Steps
    <3>3. Target = machines[t] /\ MachineInformer!Fresh(t)
      BY <2>1, <3>1 DEF Inv, Current
    <3>4. Target' = machines'[t] /\ MachineInformer!Fresh(t)' /\ t = work'.target
      BY <1>1, <1>2, <3>1, <3>2, <3>3 DEF Target
    <3>5. QED
      BY <3>4 DEF Current
  <2>2. QED
    BY <1>1, <2>1 DEF Current
<1>5. Targeted' /\ Guarded' /\ Allowed'
  BY <1>1 DEF Inv, Targeted, Target, Guarded, Allowed, ObservedUIDs, Listed
<1>6. QED
  BY <1>2, <1>3, <1>4, <1>5 DEF Inv

\* A node joins etcd: none of a Machine that is being deleted.
LEMMA JoinInv ==
  ASSUME TypeOK, Inv, NEW u \in UIDs, JoinEtcd(u)
  PROVE  Inv'
<1>1. /\ UNCHANGED <<machineVars, work, nextUID>> /\ machines' = machines
      /\ members' = members \union {u} /\ learners' = {u} /\ u \notin members
  BY DEF JoinEtcd, counters, machineVars
<1>2. PICK p \in Ordinals : machines[p].uid = u /\ ~machines[p].deleting
  BY DEF JoinEtcd
<1>3. u # 0
  BY DEF UIDs
<1>4. ASSUME NEW o \in Ordinals, machines[o].deleting
      PROVE  machines[o].uid # u
  <2>1. machines[o] \in Views(o) /\ machines[p] \in Views(p)
    BY CopiesType
  <2>2. machines[o].uid = u => o = p
    BY <1>2, <1>3, <2>1 DEF Inv, History, Unique
  <2>3. QED
    BY <1>2, <1>4, <2>2
<1>5. History' /\ Vacant' /\ Current'
  BY <1>1, QuietInv
<1>6. Guarded'
  BY <1>1, <1>4 DEF Inv, Guarded
<1>7. Targeted'
  <2>1. ASSUME work.step = "unhook", work.fresh
        PROVE  Target.uid # u
    <3>1. Target = machines[work.target] /\ work.target \in Ordinals /\ Target.deleting
      BY <2>1, TypeParts, InFlight DEF Inv, Current, Targeted, Steps
    <3>2. QED
      BY <1>4, <3>1
  <2>2. Target' = Target
    BY <1>1 DEF Target
  <2>3. QED
    BY <1>1, <2>1, <2>2 DEF Inv, Targeted
<1>8. Allowed'
  BY <1>1 DEF Inv, Allowed, Target, ObservedUIDs, Listed
<1>9. QED
  BY <1>5, <1>6, <1>7, <1>8 DEF Inv

\* Users, Cluster API, nodes and watches keep the invariant.
LEMMA EnvironmentInv ==
  ASSUME TypeOK, Inv,
         \/ DeliverMachine \/ DeliverControlPlane \/ NodeStep
         \/ \E o \in Ordinals : CAPIStep(o) \/ UserDeletesMachine(o)
         \/ \E n \in 0..MaxReplicas : ScaleControlPlane(n)
         \/ \E u \in UIDs : NodeSickens(u)
  PROVE  Inv'
<1>1. ASSUME UNCHANGED <<machineVars, work, nextUID, members, learners>>
      PROVE  Inv'
  BY <1>1, QuietInv
<1>2. CASE DeliverControlPlane
  BY <1>1, <1>2 DEF DeliverControlPlane, etcdVars, counters
<1>3. ASSUME NEW o \in Ordinals, CAPIStep(o) \/ UserDeletesMachine(o)
      PROVE  Inv'
  <2>0. machines[o] \in Machine /\ SoundCopy(machines[o])
    BY CopiesType DEF Inv, History, Sound
  <2>1. CASE CAPIWaitsForHook(o)
    <3>1. PICK x : x = [machines[o] EXCEPT !.waiting = TRUE]
      OBVIOUS
    <3>2. x \in Machine
      BY <2>0, <3>1, MachineEdits
    <3>3. /\ x.uid = machines[o].uid /\ x.present = machines[o].present
          /\ x.hook = machines[o].hook /\ x.memberID = machines[o].memberID
          /\ x.deleting = machines[o].deleting /\ x.by = machines[o].by
      BY <2>0, <3>1 DEF Machine
    <3>4. x.deleting => x.present
      BY <2>0, <3>3 DEF SoundCopy
    <3>5. OthersWriteMachine(o, x) /\ UNCHANGED <<members, learners, nextUID>>
      BY <2>1, <3>1 DEF CAPIWaitsForHook, etcdVars, counters
    <3>6. QED
      BY <3>2, <3>3, <3>4, <3>5, OthersInv
  <2>2. CASE CAPIDeletesInfrastructure(o)
    <3>1. CASE machines[o].waiting
      <4>1. PICK x : x = [machines[o] EXCEPT !.waiting = FALSE]
        OBVIOUS
      <4>2. x \in Machine
        BY <2>0, <4>1, MachineEdits
      <4>3. /\ x.uid = machines[o].uid /\ x.present = machines[o].present
            /\ x.hook = machines[o].hook /\ x.memberID = machines[o].memberID
            /\ x.deleting = machines[o].deleting /\ x.by = machines[o].by
        BY <2>0, <4>1 DEF Machine
      <4>4. x.deleting => x.present
        BY <2>0, <4>3 DEF SoundCopy
      <4>5. OthersWriteMachine(o, x) /\ UNCHANGED <<members, learners, nextUID>>
        BY <2>2, <3>1, <4>1 DEF CAPIDeletesInfrastructure, etcdVars, counters
      <4>6. QED
        BY <4>2, <4>3, <4>4, <4>5, OthersInv
    <3>2. CASE ~machines[o].waiting
      BY <1>1, <2>2, <3>2 DEF CAPIDeletesInfrastructure, etcdVars, counters
    <3>3. QED
      BY <3>1, <3>2
  <2>3. CASE CAPIRemovesMachine(o)
    <3>1. /\ OthersWriteMachine(o, NoMachine) /\ ~machines[o].hook
          /\ UNCHANGED <<members, learners, nextUID>>
      BY <2>3 DEF CAPIRemovesMachine, etcdVars, counters
    <3>2. QED
      BY <3>1, MachineEdits, OthersInv
  <2>4. CASE UserDeletesMachine(o)
    <3>1. PICK x : x = [machines[o] EXCEPT !.deleting = TRUE, !.by = "user"]
      OBVIOUS
    <3>2. x \in Machine
      BY <2>0, <3>1, MachineEdits
    <3>3. /\ x.uid = machines[o].uid /\ x.present = machines[o].present
          /\ x.hook = machines[o].hook /\ x.memberID = machines[o].memberID
          /\ x.deleting /\ x.by = "user"
      BY <2>0, <3>1 DEF Machine
    <3>4. x.present
      BY <2>4, <3>3 DEF UserDeletesMachine
    <3>5. OthersWriteMachine(o, x) /\ UNCHANGED <<members, learners, nextUID>>
      BY <2>4, <3>1 DEF UserDeletesMachine, etcdVars
    <3>6. QED
      BY <3>2, <3>3, <3>4, <3>5, OthersInv
  <2>5. QED
    BY <1>3, <2>1, <2>2, <2>3, <2>4 DEF CAPIStep
<1>4. CASE NodeStep
  <2>1. ASSUME NEW o \in Ordinals, NodeBoots(o)
        PROVE  Inv'
    BY <1>1, <2>1 DEF NodeBoots, etcdVars, counters
  <2>2. ASSUME NEW u \in UIDs, PromoteLearner(u)
        PROVE  Inv'
    <3>1. /\ UNCHANGED <<machineVars, work, nextUID, members>> /\ machines' = machines
          /\ learners' \subseteq learners
      BY <2>2 DEF PromoteLearner, counters, machineVars
    <3>2. History' /\ Vacant' /\ Current'
      BY <3>1, QuietInv
    <3>3. Targeted' /\ Guarded' /\ Allowed'
      BY <3>1 DEF Inv, Targeted, Target, Guarded, Allowed, ObservedUIDs, Listed
    <3>4. QED
      BY <3>2, <3>3 DEF Inv
  <2>3. ASSUME NEW u \in UIDs, NodeRecovers(u)
        PROVE  Inv'
    BY <1>1, <2>3 DEF NodeRecovers, etcdVars, counters
  <2>4. QED
    BY <1>4, <2>1, <2>2, <2>3, JoinInv DEF NodeStep
<1>5. ASSUME NEW n \in 0..MaxReplicas, ScaleControlPlane(n)
      PROVE  Inv'
  BY <1>1, <1>5 DEF ScaleControlPlane, etcdVars
<1>6. ASSUME NEW u \in UIDs, NodeSickens(u)
      PROVE  Inv'
  BY <1>1, <1>6 DEF NodeSickens, etcdVars
<1>7. QED
  BY <1>2, <1>3, <1>4, <1>5, <1>6, DeliverInv

-----------------------------------------------------------------------------
(* Steps of the controller.                                                *)

\* The reconcile goes on with what it has listed.
GoesOn(s) ==
  /\ work'.step = s /\ work'.list = work.list /\ work'.target = work.target
  /\ work'.fresh = work.fresh /\ work'.healthy = work.healthy

\* It ends, or is past the scale-down.
Resting == {"bootstrap", "upgrade", "upgrading", "status"}
Settles == work' = Idle \/ \E s \in Resting : GoesOn(s)

\* The edits of a reconcile, field by field.
LEMMA Fields ==
  ASSUME WorkOK, work.step \in Steps, NEW s \in Steps
  PROVE  /\ work' = [work EXCEPT !.step = s] => GoesOn(s)
         /\ work' = [work EXCEPT !.step = s, !.pending = TRUE] => GoesOn(s)
         /\ \A b : work' = [work EXCEPT !.step = s, !.initialized = b] => GoesOn(s)
         /\ Pending => GoesOn("bootstrap")
<1>1. work \in Work
  BY InFlight
<1>2. QED
  BY <1>1 DEF Work, GoesOn, Pending

\* A reconcile that goes on without a write lists what there is.
LEMMA GoesOnHistory ==
  ASSUME TypeOK, Inv, UNCHANGED <<machineVars, nextUID>>,
         work' = Idle \/ (work.step \in Steps /\ work'.list = work.list)
  PROVE  /\ History'
         /\ \A o \in Ordinals : Views(o)' \subseteq Views(o)
<1>1. ListsViews
  BY CopiesType, TypeParts, InFlight DEF ListsViews
<1>2. QED
  BY <1>1, QuietHistory DEF Inv

\* It settles, and Machines and members stay.
LEMMA SettlesInv ==
  ASSUME TypeOK, Inv, UNCHANGED <<machineVars, nextUID>>, work' = Idle \/ work.step \in Steps,
         Settles, members' \subseteq members
  PROVE  Inv'
<1>1. History'
  BY GoesOnHistory DEF Settles, GoesOn
<1>2. Vacant' /\ Current' /\ Targeted' /\ Allowed'
  BY Rests DEF Settles, GoesOn, Resting, Idle
<1>3. Guarded'
  BY DEF Inv, Guarded, machineVars
<1>4. QED
  BY <1>1, <1>2, <1>3 DEF Inv

\* Of a Machine that is not cached no copy has the hook.
LEMMA NotCached ==
  ASSUME TypeOK, History, NEW o \in Ordinals, ~machineCache[o].present
  PROVE  \A v \in Copies(o) : ~v.hook
<1>0. /\ MachinesOK
      /\ \A v \in Copies(o) : v.hook => v.uid # 0
      /\ machineCache[o].uid = 0 /\ machineCache[o] \in Copies(o)
  BY TypeParts, CopiesType DEF History, Sound, SoundCopy
<1>1. SUFFICES ASSUME NEW v \in Copies(o), v.hook PROVE FALSE
  OBVIOUS
<1>2. CASE v = machines[o]
  BY <1>0, <1>1, <1>2 DEF History, Hooked
<1>3. CASE v = machineCache[o]
  BY <1>0, <1>1, <1>3
<1>4. ASSUME NEW i \in 1..Len(machineEvents), machineEvents[i].key = o, v = machineEvents[i].object
      PROVE  FALSE
  <2>1. machineCache[o].uid = v.uid
    BY <1>1, <1>4 DEF History, HookedBehind
  <2>2. QED
    BY <1>0, <1>1, <2>1
<1>5. QED
  BY <1>1, <1>2, <1>3, <1>4 DEF Copies

\* A reconcile begins: what it does not list has no copy with the hook.
LEMMA BeginInv ==
  ASSUME TypeOK, Inv, BeginReconcile
  PROVE  Inv'
<1>1. /\ UNCHANGED <<machineVars, nextUID, members>> /\ machineCache' = machineCache
      /\ work'.step = "ensure" /\ work'.list = machineCache
  BY DEF BeginReconcile, etcdVars, counters, machineVars
<1>2. ListsViews
  BY <1>1, CopiesType DEF ListsViews
<1>3. History' /\ \A o \in Ordinals : Copies(o)' = Copies(o)
  BY <1>1, <1>2, QuietHistory DEF Inv
<1>4. Vacant'
  <2> SUFFICES ASSUME NEW o \in Ordinals, ~machineCache[o].present, NEW v \in Views(o)'
               PROVE  ~v.hook
    BY <1>1 DEF Vacant
  <2>1. v \in Copies(o)
    BY <1>1, <1>3, CopiesType DEF Views
  <2>2. QED
    BY <2>1, NotCached DEF Inv
<1>5. Current' /\ Targeted' /\ Allowed'
  BY <1>1 DEF Current, Targeted, Allowed
<1>6. Guarded'
  BY <1>1 DEF Inv, Guarded, machineVars
<1>7. QED
  BY <1>3, <1>4, <1>5, <1>6 DEF Inv

\* A Machine is created, of which no copy has the hook.
LEMMA CreateInv ==
  ASSUME TypeOK, Inv, CreateMachine
  PROVE  Inv'
<1> DEFINE k == First(Missing)
<1>0. MachinesOK /\ WorkOK /\ nextUID \in Nat /\ nextUID # 0
  BY TypeParts, Counts, ReplicasAssumption DEF TypeOK
<1>1. /\ work.step = "ensure" /\ work.step \in Steps /\ work # Idle /\ work \in Work
      /\ UNCHANGED <<members, learners>>
  BY <1>0, InFlight DEF CreateMachine, Busy, Steps, etcdVars
<1>2. k \in Ordinals /\ ~work.list[k].present
  BY <1>0, <1>1, MissingType DEF CreateMachine
<1>3. work'.step = "created" /\ work'.list = work.list
  BY <1>1 DEF CreateMachine, Work
<1>4. \A v \in Views(k) : ~v.hook
  BY <1>1, <1>2 DEF Inv, Vacant
<1>5. Current' /\ Targeted' /\ Allowed'
  BY <1>3 DEF Current, Targeted, Allowed
<1>6. CASE UNCHANGED <<machineVars, nextUID>>
  <2>1. History' /\ \A o \in Ordinals : Views(o)' \subseteq Views(o)
    BY <1>1, <1>3, <1>6, GoesOnHistory
  <2>2. Vacant'
    BY <1>1, <1>3, <2>1 DEF Inv, Vacant
  <2>3. Guarded'
    BY <1>1, <1>6 DEF Inv, Guarded, machineVars
  <2>4. QED
    BY <1>5, <2>1, <2>2, <2>3 DEF Inv
<1>7. CASE nextUID <= MaxUID /\ MachineInformer!Write(k, NewMachine(nextUID)) /\ nextUID' = nextUID + 1
  <2>1. PICK x : x = NewMachine(nextUID)
    OBVIOUS
  <2>2. x \in Machine /\ MachineInformer!Write(k, x)
    BY <1>0, <1>7, <2>1, TypeParts, Counts, MachineEdits
  <2>3. /\ x.uid = nextUID /\ x.present /\ ~x.hook /\ ~x.deleting /\ x.memberID = 0
        /\ x.by = "nobody"
    BY <2>1 DEF NewMachine, NoMachine
  <2>4. Lists(k, x)
    BY <1>1, <1>3, CopiesType DEF Lists
  <2>5. nextUID' \in Nat /\ nextUID <= nextUID' /\ x.uid < nextUID'
    BY <1>0, <1>7, <2>3
  <2>6. /\ History'
        /\ \A o \in Ordinals : Views(o)' \subseteq Views(o) \union (IF o = k THEN {x} ELSE {})
    <3> HIDE DEF k
    <3>1. QED
      BY <1>0, <1>2, <1>4, <2>2, <2>3, <2>4, <2>5, WriteHistory DEF Inv
  <2>7. Vacant'
    <3> SUFFICES ASSUME NEW o \in Ordinals, ~work.list[o].present, NEW v \in Views(o)', v.hook
                 PROVE  FALSE
      BY <1>3 DEF Vacant
    <3>1. v \in Views(o) \/ v = x
      BY <2>6
    <3>2. QED
      BY <1>1, <2>3, <3>1 DEF Inv, Vacant
  <2>8. Guarded'
    <3>1. machines'[k] = x /\ \A o \in Ordinals \ {k} : machines'[o] = machines[o]
      BY <1>0, <1>2, <2>2 DEF MachineInformer!Write, MachinesOK
    <3>2. QED
      BY <1>1, <2>3, <3>1 DEF Inv, Guarded
  <2>9. QED
    BY <1>5, <2>6, <2>7, <2>8 DEF Inv
<1>8. QED
  BY <1>6, <1>7 DEF CreateMachine

\* The Get after a creation.
LEMMA GetInv ==
  ASSUME TypeOK, Inv, GetCreatedMachine
  PROVE  Inv'
<1>0. /\ work.step = "created" /\ work # Idle /\ work \in Work /\ work.target \in Ordinals
      /\ UNCHANGED <<machineVars, nextUID, members>> /\ machines' = machines
  BY TypeParts, InFlight DEF GetCreatedMachine, Busy, Steps, etcdVars, counters, machineVars
<1>1. CASE work' = Idle
  BY <1>0, <1>1, SettlesInv DEF Settles
<1>2. CASE /\ machineCache[work.target].present
           /\ work' = [work EXCEPT !.step = "ensure", !.list[work.target] = machineCache[work.target]]
  <2>1. /\ work'.step = "ensure"
        /\ work'.list = [work.list EXCEPT ![work.target] = machineCache[work.target]]
    BY <1>0, <1>2 DEF Work
  <2>2. \A o \in Ordinals : work'.list[o] = IF o = work.target THEN machineCache[o] ELSE work.list[o]
    BY <1>0, <2>1 DEF Work
  <2>3. ListsViews
    BY <1>0, <2>2, CopiesType DEF ListsViews
  <2>4. History' /\ \A o \in Ordinals : Views(o)' \subseteq Views(o)
    BY <1>0, <2>3, QuietHistory DEF Inv
  <2>5. Vacant'
    <3> SUFFICES ASSUME NEW o \in Ordinals, ~work'.list[o].present, NEW v \in Views(o)'
                 PROVE  ~v.hook
      BY DEF Vacant
    <3>1. ~work.list[o].present
      BY <1>2, <2>2
    <3>2. QED
      BY <1>0, <2>4, <3>1 DEF Inv, Vacant
  <2>6. Current' /\ Targeted' /\ Allowed'
    BY <2>1 DEF Current, Targeted, Allowed
  <2>7. Guarded'
    BY <1>0 DEF Inv, Guarded
  <2>8. QED
    BY <2>4, <2>5, <2>6, <2>7 DEF Inv
<1>3. QED
  BY <1>1, <1>2 DEF GetCreatedMachine

\* A second list, and the target of a scale-down in it.
LEMMA RefreshInv ==
  ASSUME TypeOK, Inv, RefreshList
  PROVE  Inv'
<1>0. /\ work.step = "ensure" /\ work # Idle /\ work \in Work /\ work.desired \in Nat \ {0}
      /\ UNCHANGED <<machineVars, nextUID, members>> /\ machines' = machines
      /\ machineCache \in [Ordinals -> Machine]
  <2>1. work.step \in Steps
    BY DEF RefreshList, Busy, Steps
  <2>2. work.desired \in 1..MaxReplicas
    BY <2>1, TypeParts, InFlight, WorkEdits
  <2>3. work.desired \in Nat \ {0}
    BY <2>2, ReplicasAssumption
  <2>4. QED
    BY <2>1, <2>3, TypeParts, InFlight DEF RefreshList, Busy, etcdVars, counters, machineVars,
       TypeOK
<1>1. work'.list = machineCache
  BY <1>0 DEF RefreshList, Work
<1>2. ListsViews
  BY <1>1, CopiesType DEF ListsViews
<1>3. History'
  BY <1>0, <1>2, QuietHistory DEF Inv
<1>4. Guarded'
  BY <1>0 DEF Inv, Guarded
<1>5. CASE Cardinality(Listed(machineCache)) <= work.desired
  <2>1. work'.step = "bootstrap"
    BY <1>0, <1>5 DEF RefreshList, Work
  <2>2. QED
    BY <1>3, <1>4, <2>1, Rests DEF Inv
<1>6. CASE ~(Cardinality(Listed(machineCache)) <= work.desired)
  <2>0. Cardinality(Listed(machineCache)) > work.desired
    <3>1. IsFiniteSet(Ordinals)
      BY ReplicasAssumption, FS_Interval DEF Ordinals
    <3>2. Listed(machineCache) \in SUBSET Ordinals
      BY DEF Listed
    <3>3. Cardinality(Listed(machineCache)) \in Nat
      BY <3>1, <3>2, FS_Subset, FS_CardinalityType
    <3>4. QED
      BY <1>0, <1>6, <3>3
  <2>1. PICK t : t = ScaleDownTarget(machineCache)
    OBVIOUS
  <2>2. /\ t \in Ordinals /\ machineCache[t].present
        /\ ~machineCache[t].deleting => t # 0
    BY <1>0, <2>0, <2>1, ScaleDownTargetType
  <2>3. /\ work'.step = ScaleDownStep(machineCache[t]) /\ work'.target = t
        /\ work'.fresh = MachineInformer!Fresh(t)
    BY <1>0, <1>6, <2>1 DEF RefreshList, Work
  <2>4. Target' = machineCache[t]
    BY <1>1, <2>3 DEF Target
  <2>5. Current'
    <3>1. ASSUME MachineInformer!Fresh(t)
          PROVE  machineCache[t] = machines[t] /\ MachineInformer!Fresh(t)'
      <4>1. machineCache[t] = machines[t]
        BY <2>2, <3>1 DEF Inv, History, MachineInformer!Agree, TypeOK
      <4>2. MachineInformer!Fresh(t)'
        BY <1>0, <3>1 DEF machineVars, MachineInformer!Fresh
      <4>3. QED
        BY <4>1, <4>2
    <3>2. QED
      BY <1>0, <2>3, <2>4, <3>1 DEF Current
  <2>6. Vacant' /\ Allowed'
    BY <2>3 DEF Vacant, Allowed, ScaleDownStep
  <2>7. Targeted'
    BY <2>2, <2>3, <2>4 DEF Targeted, ScaleDownStep
  <2>8. QED
    BY <1>3, <1>4, <2>5, <2>6, <2>7 DEF Inv
<1>7. QED
  BY <1>5, <1>6

\* An optimistic lock on the target ends the reconcile, or writes the target as it is
\* stored but for the edit.
LEMMA LockedForms ==
  ASSUME TypeOK, Inv, work.step \in {"hook", "unhook", "annotate"}, NEW x, NEW s \in Steps,
         NEW n, n \in {[work EXCEPT !.step = s], [work EXCEPT !.step = s, !.pending = TRUE]},
         LockedPatch(x, n), NEW k, k = work.target
  PROVE  \/ work' = Idle /\ UNCHANGED machineVars
         \/ /\ MachineInformer!Write(k, x) /\ work' # Idle
            /\ work'.step = s /\ work'.target = k /\ work'.list = [work.list EXCEPT ![k] = x]
            /\ Target = machines[k] /\ MachineInformer!Fresh(k) /\ work.fresh
            /\ k \in Ordinals /\ Target \in Machine /\ Target.present
            /\ SoundCopy(Target) /\ Target \in Views(k)
<1>0. work \in Work /\ work # Idle /\ k \in Ordinals /\ Target \in Machine
  BY TypeParts, InFlight DEF Steps
<1>1. CASE work' = Idle /\ UNCHANGED machineVars
  BY <1>1
<1>2. CASE work.fresh /\ MachineInformer!Write(k, x) /\ work' = [n EXCEPT !.list[k] = x]
  <2>1. /\ work'.step = s /\ work'.target = k /\ work'.list = [work.list EXCEPT ![k] = x]
    BY <1>0, <1>2 DEF Work
  <2>2. Target = machines[k] /\ MachineInformer!Fresh(k)
    BY <1>2 DEF Inv, Current
  <2>3. Target.present
    BY DEF Inv, Targeted
  <2>4. Target \in Views(k) /\ SoundCopy(Target)
    BY <1>0, CopiesType DEF Inv, History, Sound, Target
  <2>5. work' # Idle
    BY <2>1 DEF Idle, Steps
  <2>6. QED
    BY <1>0, <1>2, <2>1, <2>2, <2>3, <2>4, <2>5
<1>3. QED
  BY <1>1, <1>2 DEF LockedPatch

\* What such a write keeps, if it keeps the Machine that is there and takes the hook
\* only of one that is being deleted.
LEMMA LockedHistory ==
  ASSUME TypeOK, Inv, work # Idle, NEW k \in Ordinals, NEW x \in Machine,
         MachineInformer!Write(k, x), nextUID' = nextUID, members' = members,
         work'.list = [work.list EXCEPT ![k] = x],
         MachineInformer!Fresh(k), machines[k].present,
         x.uid = machines[k].uid, x.present, x.memberID \in {0, x.uid},
         x.hook \/ x.deleting, x.by = machines[k].by,
         machines[k].deleting => x.deleting,
         machines[k].by = "scaleDown" => x.hook \/ x.uid \notin members
  PROVE  History' /\ Guarded'
<1>0. /\ MachinesOK /\ nextUID \in Nat /\ nextUID # 0 /\ History
      /\ SoundCopy(machines[k]) /\ machines[k].uid \in Nat
  <2>1. MachinesOK /\ nextUID \in Nat /\ nextUID # 0
    BY TypeParts, Counts, ReplicasAssumption DEF TypeOK
  <2>2. machines[k] \in Views(k) /\ machines[k] \in Machine
    BY CopiesType
  <2>3. QED
    BY <2>1, <2>2, MachineEdits DEF Inv, History, Sound
<1>1. Lists(k, x)
  <2>1. work.list \in [Ordinals -> Machine]
    BY TypeParts DEF WorkOK, Work
  <2>2. \A o \in Ordinals : work'.list[o] = IF o = k THEN x ELSE work.list[o]
    BY <2>1
  <2>3. QED
    BY <2>2, CopiesType DEF Lists
<1>2. \A v \in Views(k) : v.hook => x.uid = v.uid
  BY DEF Inv, History, HookKept
<1>3. x.uid < nextUID' /\ x.uid # 0 /\ nextUID' \in Nat /\ nextUID <= nextUID'
  BY <1>0 DEF SoundCopy
<1>4. History'
  BY <1>0, <1>1, <1>2, <1>3, WriteHistory
<1>5. Guarded'
  <2>1. machines'[k] = x /\ \A o \in Ordinals \ {k} : machines'[o] = machines[o]
    BY <1>0 DEF MachineInformer!Write, MachinesOK
  <2>2. QED
    BY <2>1 DEF Inv, Guarded
<1>6. QED
  BY <1>4, <1>5

\* The hook is set.
LEMMA HookInv ==
  ASSUME TypeOK, Inv, EnsureEtcdDeleteHook
  PROVE  Inv'
<1>1. PICK k, x : k = work.target /\ x = [Target EXCEPT !.hook = TRUE]
  OBVIOUS
<1>2. PICK s \in Steps :
        /\ \/ LockedPatch(x, [work EXCEPT !.step = s])
           \/ LockedPatch(x, [work EXCEPT !.step = s, !.pending = TRUE])
        /\ (s = "bootstrap" /\ Target.deleting) \/ (s = "delete" /\ ~Target.deleting)
  <2>1. CASE Target.deleting
    <3>1. LockedPatch(x, [work EXCEPT !.step = "bootstrap", !.pending = TRUE])
      BY <1>1, <2>1 DEF EnsureEtcdDeleteHook
    <3>2. QED
      BY <2>1, <3>1 DEF Steps
  <2>2. CASE ~Target.deleting
    <3>1. LockedPatch(x, [work EXCEPT !.step = "delete"])
      BY <1>1, <2>2 DEF EnsureEtcdDeleteHook
    <3>2. QED
      BY <2>2, <3>1 DEF Steps
  <2>3. QED
    BY <2>1, <2>2
<1>3. work.step = "hook" /\ work.step \in Steps /\ UNCHANGED <<nextUID, members>>
  BY DEF EnsureEtcdDeleteHook, Busy, Steps, etcdVars, counters
<1>4. CASE work' = Idle /\ UNCHANGED machineVars
  BY <1>3, <1>4, SettlesInv DEF Settles
<1>5. CASE /\ MachineInformer!Write(k, x) /\ work' # Idle
           /\ work'.step = s /\ work'.target = k /\ work'.list = [work.list EXCEPT ![k] = x]
           /\ Target = machines[k] /\ MachineInformer!Fresh(k) /\ work.fresh
           /\ k \in Ordinals /\ Target \in Machine /\ Target.present
           /\ SoundCopy(Target) /\ Target \in Views(k)
  <2>1. /\ x \in Machine /\ x.hook /\ x.uid = Target.uid /\ x.present = Target.present
        /\ x.memberID = Target.memberID /\ x.by = Target.by /\ x.deleting = Target.deleting
    BY <1>1, <1>5 DEF Machine
  <2>2. History' /\ Guarded'
    BY <1>3, <1>5, <2>1, TypeParts, InFlight, LockedHistory DEF SoundCopy
  <2>3. Target' = x
    BY <1>3, <1>5, TypeParts, InFlight DEF Target
  <2>4. Vacant' /\ Current' /\ Allowed'
    BY <1>2, <1>5 DEF Vacant, Current, Allowed
  <2>5. Targeted'
    BY <1>1, <1>2, <1>3, <1>5, <2>1, <2>3 DEF Inv, Targeted
  <2>6. QED
    BY <2>2, <2>4, <2>5 DEF Inv
<1>6. work.step \in {"hook", "unhook", "annotate"}
  BY <1>3
<1>7. CASE LockedPatch(x, [work EXCEPT !.step = s])
  BY <1>1, <1>4, <1>5, <1>6, <1>7, LockedForms
<1>8. CASE LockedPatch(x, [work EXCEPT !.step = s, !.pending = TRUE])
  BY <1>1, <1>4, <1>5, <1>6, <1>8, LockedForms
<1>9. QED
  BY <1>2, <1>7, <1>8

\* The hook is removed: the member is not in the list that was read, and does not come
\* back.
LEMMA UnhookInv ==
  ASSUME TypeOK, Inv, RemoveEtcdDeleteHook
  PROVE  Inv'
<1>1. PICK k, x : k = work.target /\ x = [Target EXCEPT !.hook = FALSE, !.memberID = 0]
  OBVIOUS
<1>2. work.step = "unhook" /\ work.step \in Steps /\ UNCHANGED <<nextUID, members>>
  BY DEF RemoveEtcdDeleteHook, Busy, Steps, etcdVars, counters
<1>3. LockedPatch(x, [work EXCEPT !.step = "bootstrap"]) /\ "bootstrap" \in Steps
  BY <1>1 DEF RemoveEtcdDeleteHook, Steps
<1>4. CASE work' = Idle /\ UNCHANGED machineVars
  BY <1>2, <1>4, SettlesInv DEF Settles
<1>5. CASE /\ MachineInformer!Write(k, x) /\ work' # Idle
           /\ work'.step = "bootstrap" /\ work'.target = k /\ work'.list = [work.list EXCEPT ![k] = x]
           /\ Target = machines[k] /\ MachineInformer!Fresh(k) /\ work.fresh
           /\ k \in Ordinals /\ Target \in Machine /\ Target.present
           /\ SoundCopy(Target) /\ Target \in Views(k)
  <2>1. /\ x \in Machine /\ x.uid = Target.uid /\ x.present = Target.present
        /\ x.memberID = 0 /\ x.by = Target.by /\ x.deleting = Target.deleting
    <3>1. x \in Machine
      BY <1>1, <1>5, MachineEdits
    <3>2. QED
      BY <1>1, <1>5, <3>1 DEF Machine
  <2>2. Target.deleting /\ Target.uid \notin members
    BY <1>2, <1>5 DEF Inv, Targeted
  <2>3. History' /\ Guarded'
    BY <1>2, <1>5, <2>1, <2>2, TypeParts, InFlight, LockedHistory
  <2>4. QED
    BY <1>5, <2>3, Rests DEF Inv
<1>6. QED
  BY <1>1, <1>2, <1>3, <1>4, <1>5, LockedForms

\* The member ID is annotated.
LEMMA AnnotateInv ==
  ASSUME TypeOK, Inv, AnnotateEtcdMemberID
  PROVE  Inv'
<1>1. PICK k, x : k = work.target /\ x = [Target EXCEPT !.memberID = Target.uid]
  OBVIOUS
<1>2. work.step = "annotate" /\ work.step \in Steps /\ UNCHANGED <<nextUID, members>>
  BY DEF AnnotateEtcdMemberID, Busy, Steps, etcdVars, counters
<1>3. LockedPatch(x, [work EXCEPT !.step = "members"]) /\ "members" \in Steps
  BY <1>1 DEF AnnotateEtcdMemberID, Steps
<1>4. CASE work' = Idle /\ UNCHANGED machineVars
  BY <1>2, <1>4, SettlesInv DEF Settles
<1>5. CASE /\ MachineInformer!Write(k, x) /\ work' # Idle
           /\ work'.step = "members" /\ work'.target = k /\ work'.list = [work.list EXCEPT ![k] = x]
           /\ Target = machines[k] /\ MachineInformer!Fresh(k) /\ work.fresh
           /\ k \in Ordinals /\ Target \in Machine /\ Target.present
           /\ SoundCopy(Target) /\ Target \in Views(k)
  <2>1. /\ x \in Machine /\ x.uid = Target.uid /\ x.present = Target.present
        /\ x.hook = Target.hook /\ x.memberID = x.uid /\ x.by = Target.by
        /\ x.deleting = Target.deleting
    <3>1. x \in Machine
      BY <1>1, <1>5, MachineEdits
    <3>2. QED
      BY <1>1, <1>5, <3>1 DEF Machine
  <2>2. Target.deleting
    BY <1>2 DEF Inv, Targeted
  <2>3. History' /\ Guarded'
    <3>1. machines[k].by = "scaleDown" => machines[k].hook \/ machines[k].uid \notin members
      BY <1>5 DEF Inv, Guarded
    <3>2. QED
      BY <1>2, <1>5, <2>1, <2>2, <3>1, TypeParts, InFlight, LockedHistory
  <2>4. Target' = x
    BY <1>2, <1>5, TypeParts, InFlight DEF Target
  <2>5. Vacant' /\ Current' /\ Allowed' /\ Targeted'
    BY <1>5, <2>1, <2>4 DEF Vacant, Current, Allowed, Targeted
  <2>6. QED
    BY <2>3, <2>5 DEF Inv
<1>6. QED
  BY <1>1, <1>2, <1>3, <1>4, <1>5, LockedForms

\* The Delete: whatever the version that is stored, it has the hook that was read, and
\* it is not the first Machine.
LEMMA DeleteInv ==
  ASSUME TypeOK, Inv, DeleteMachine
  PROVE  Inv'
<1>1. /\ work.step = "delete" /\ work.step \in Steps /\ GoesOn("bootstrap")
      /\ UNCHANGED <<nextUID, members>>
  BY TypeParts, Fields DEF DeleteMachine, Busy, Steps, etcdVars, counters
<1>2. work # Idle /\ work.target \in Ordinals
  BY <1>1, TypeParts, InFlight
<1>3. PICK k \in Ordinals : k = work.target
  BY <1>2
<1>4. CASE UNCHANGED machineVars
  <2>1. UNCHANGED <<machineVars, nextUID>> /\ members' \subseteq members /\ Settles
    BY <1>1, <1>4 DEF Settles, Resting
  <2>2. QED
    BY <1>1, <2>1, SettlesInv
<1>5. CASE /\ machines[k].present /\ ~machines[k].deleting
           /\ MachineInformer!Write(k, [machines[k] EXCEPT !.deleting = TRUE, !.by = "scaleDown"])
  <2>0. /\ MachinesOK /\ nextUID \in Nat /\ nextUID # 0 /\ History
        /\ machines[k] \in Machine /\ SoundCopy(machines[k])
        /\ work.list[k] \in Views(k)
    <3>1. MachinesOK /\ nextUID \in Nat /\ nextUID # 0
      BY TypeParts, Counts, ReplicasAssumption DEF TypeOK
    <3>2. QED
      BY <1>2, <3>1, CopiesType DEF Inv, History, Sound
  <2>1. PICK x : x = [machines[k] EXCEPT !.deleting = TRUE, !.by = "scaleDown"]
    OBVIOUS
  <2>2. x \in Machine /\ MachineInformer!Write(k, x)
    BY <1>5, <2>0, <2>1, MachineEdits
  <2>3. /\ x.uid = machines[k].uid /\ x.present /\ x.hook = machines[k].hook
        /\ x.memberID = machines[k].memberID /\ x.deleting /\ x.by = "scaleDown"
    BY <1>5, <2>0, <2>1 DEF Machine
  <2>4. k # 0 /\ work.list[k].hook
    BY <1>1, <1>3 DEF Inv, Targeted, Target
  <2>5. x.hook
    BY <1>5, <2>0, <2>3, <2>4 DEF History, HookKept
  <2>6. Lists(k, x)
    BY <1>1, <1>2, CopiesType DEF Lists, GoesOn
  <2>7. /\ x.uid < nextUID' /\ nextUID' \in Nat /\ nextUID <= nextUID'
        /\ x.present <=> x.uid # 0
        /\ x.memberID \in {0, x.uid}
    BY <1>1, <1>5, <2>0, <2>3 DEF SoundCopy
  <2>8. \A v \in Views(k) : v.hook => x.uid = v.uid
    BY <1>5, <2>0, <2>3 DEF History, HookKept
  <2>9. History'
    BY <2>0, <2>2, <2>3, <2>5, <2>6, <2>7, <2>8, WriteHistory
  <2>10. Guarded'
    <3>1. machines'[k] = x /\ \A o \in Ordinals \ {k} : machines'[o] = machines[o]
      BY <2>0, <2>2 DEF MachineInformer!Write, MachinesOK
    <3>2. QED
      BY <1>1, <2>3, <2>4, <2>5, <3>1 DEF Inv, Guarded
  <2>11. QED
    BY <1>1, <2>9, <2>10, Rests DEF Inv, GoesOn
<1>6. QED
  BY <1>3, <1>4, <1>5 DEF DeleteMachine

\* A step of the scale-down that writes nothing keeps what is known of the Machines.
LEMMA ReadingInv ==
  ASSUME TypeOK, Inv, UNCHANGED <<machineVars, members, nextUID>>, work.step \in Steps,
         work'.list = work.list
  PROVE  History' /\ Guarded'
<1>1. History'
  BY GoesOnHistory
<1>2. Guarded'
  BY DEF Inv, Guarded, machineVars
<1>3. QED
  BY <1>1, <1>2

\* The annotated member is looked for in the list of members.
LEMMA AnnotatedInv ==
  ASSUME TypeOK, Inv, ReconcileAnnotatedEtcdMember
  PROVE  Inv'
<1>1. /\ work.step = "annotated" /\ work.step \in Steps
      /\ UNCHANGED <<machineVars, nextUID, members>> /\ machines' = machines
  BY DEF ReconcileAnnotatedEtcdMember, Busy, Steps, etcdVars, counters, machineVars
<1>2. CASE GoesOn("bootstrap")
  <2>1. UNCHANGED <<machineVars, nextUID>> /\ members' \subseteq members /\ Settles
    BY <1>1, <1>2 DEF Settles, Resting
  <2>2. QED
    BY <1>1, <2>1, SettlesInv
<1>3. CASE GoesOn("unhook") /\ Target.memberID \notin members
  <2>1. History' /\ Guarded'
    BY <1>1, <1>3, ReadingInv DEF GoesOn
  <2>2. Target' = Target
    BY <1>3 DEF GoesOn, Target
  <2>3. /\ Target.present /\ Target.memberID # 0 /\ Target.deleting
        /\ work.fresh => Target = machines[work.target] /\ MachineInformer!Fresh(work.target)
    BY <1>1 DEF Inv, Targeted, Current
  <2>4. Target.uid \notin members
    <3>1. work # Idle /\ work.target \in Ordinals
      BY <1>1, TypeParts, InFlight
    <3>2. SoundCopy(Target)
      BY <3>1, CopiesType DEF Inv, History, Sound, Target
    <3>3. QED
      BY <1>3, <2>3, <3>2 DEF SoundCopy
  <2>5. Targeted'
    BY <1>1, <1>3, <2>2, <2>3, <2>4 DEF Targeted, GoesOn
  <2>6. Current'
    <3>1. PICK t : t = work.target
      OBVIOUS
    <3>2. MachineInformer!Fresh(t) => MachineInformer!Fresh(t)'
      BY <1>1 DEF MachineInformer!Fresh, machineVars
    <3>3. QED
      BY <1>1, <1>3, <2>2, <2>3, <3>1, <3>2 DEF Current, GoesOn
  <2>7. Vacant' /\ Allowed'
    BY <1>3 DEF Vacant, Allowed, GoesOn
  <2>8. QED
    BY <2>1, <2>5, <2>6, <2>7 DEF Inv
<1>4. GoesOn("bootstrap") \/ (GoesOn("unhook") /\ Target.memberID \notin members)
  <2>1. /\ work' = [work EXCEPT !.step = "bootstrap"] => GoesOn("bootstrap")
        /\ work' = [work EXCEPT !.step = "unhook"] => GoesOn("unhook")
        /\ Pending => GoesOn("bootstrap")
    BY <1>1, TypeParts, Fields DEF Steps
  <2>2. \/ Pending
        \/ work' = IF Target.memberID \in members
                   THEN [work EXCEPT !.step = "bootstrap"]
                   ELSE [work EXCEPT !.step = "unhook"]
    BY DEF ReconcileAnnotatedEtcdMember
  <2>3. QED
    BY <2>1, <2>2
<1>5. QED
  BY <1>2, <1>3, <1>4

\* The etcd members of the listed Machines are observed, one after the other.
LEMMA ObserveInv ==
  ASSUME TypeOK, Inv, ObserveEtcdMachine
  PROVE  Inv'
<1>1. /\ work.step = "observe" /\ work.step \in Steps
      /\ UNCHANGED <<machineVars, nextUID, members>> /\ machines' = machines
  BY DEF ObserveEtcdMachine, Busy, Steps, etcdVars, counters, machineVars
<1>2. CASE Pending
  <2>1. GoesOn("bootstrap")
    BY <1>1, <1>2, TypeParts, Fields DEF Steps
  <2>2. UNCHANGED <<machineVars, nextUID>> /\ members' \subseteq members /\ Settles
    BY <1>1, <2>1 DEF Settles, Resting
  <2>3. QED
    BY <1>1, <2>2, SettlesInv
<1>3. CASE /\ work'.step \in {"observe", "annotate"} /\ work'.list = work.list
           /\ work'.target = work.target /\ work'.fresh = work.fresh
  <2>1. History' /\ Guarded'
    BY <1>1, <1>3, ReadingInv
  <2>2. Target' = Target
    BY <1>3 DEF Target
  <2>3. /\ Target.present /\ Target.deleting
        /\ work.fresh => Target = machines[work.target] /\ MachineInformer!Fresh(work.target)
    BY <1>1 DEF Inv, Targeted, Current
  <2>4. Targeted'
    BY <1>3, <2>2, <2>3 DEF Targeted
  <2>5. Current'
    <3>1. PICK t : t = work.target
      OBVIOUS
    <3>2. MachineInformer!Fresh(t) => MachineInformer!Fresh(t)'
      BY <1>1 DEF MachineInformer!Fresh, machineVars
    <3>3. QED
      BY <1>1, <1>3, <2>2, <2>3, <3>1, <3>2 DEF Current
  <2>6. Vacant' /\ Allowed'
    BY <1>3 DEF Vacant, Allowed
  <2>7. QED
    BY <2>1, <2>4, <2>5, <2>6 DEF Inv
<1>4. work \in Work
  BY <1>1, TypeParts, InFlight
<1>5. QED
  BY <1>2, <1>3, <1>4 DEF ObserveEtcdMachine, Work

\* The list of members allows the removal, or does not.
LEMMA MembersInv ==
  ASSUME TypeOK, Inv, ObserveEtcdMembers
  PROVE  Inv'
<1>1. /\ work.step = "members" /\ work.step \in Steps
      /\ UNCHANGED <<machineVars, nextUID, members, learners>> /\ machines' = machines
  BY DEF ObserveEtcdMembers, Busy, Steps, etcdVars, counters, machineVars
<1>2. CASE GoesOn("bootstrap")
  <2>1. UNCHANGED <<machineVars, nextUID>> /\ members' \subseteq members /\ Settles
    BY <1>1, <1>2 DEF Settles, Resting
  <2>2. QED
    BY <1>1, <2>1, SettlesInv
<1>3. CASE GoesOn("remove") /\ CanRemoveObservedEtcdMember
  <2>1. History' /\ Guarded'
    BY <1>1, <1>3, ReadingInv DEF GoesOn
  <2>2. Target' = Target /\ ObservedUIDs' = ObservedUIDs /\ work'.healthy = work.healthy
    BY <1>3 DEF GoesOn, Target, ObservedUIDs, Listed
  <2>3. Target.present
    BY <1>1 DEF Inv, Targeted
  <2>4. Allowed'
    BY <1>1, <1>3, <2>2 DEF Allowed, CanRemoveObservedEtcdMember
  <2>5. Vacant' /\ Current' /\ Targeted'
    BY <1>3, <2>2, <2>3 DEF Vacant, Current, Targeted, GoesOn
  <2>6. QED
    BY <2>1, <2>4, <2>5 DEF Inv
<1>4. GoesOn("bootstrap") \/ (GoesOn("remove") /\ CanRemoveObservedEtcdMember)
  <2>1. /\ work' = [work EXCEPT !.step = "remove"] => GoesOn("remove")
        /\ Pending => GoesOn("bootstrap")
    BY <1>1, TypeParts, Fields DEF Steps
  <2>2. QED
    BY <2>1 DEF ObserveEtcdMembers
<1>5. QED
  BY <1>2, <1>3, <1>4

\* The bootstrap of etcd on the first Machine: its node is that of no Machine that is
\* scaled down.
LEMMA BootstrapInv ==
  ASSUME TypeOK, Inv, ReconcileFirstControlPlane
  PROVE  Inv'
<1>1. /\ work.step = "bootstrap" /\ work.step \in Steps /\ work # Idle
      /\ UNCHANGED <<machineVars, nextUID>> /\ machines' = machines
  BY DEF ReconcileFirstControlPlane, Busy, Steps, machineVars, Idle
<1>2. PICK s \in Resting : GoesOn(s)
  <2>1. Bootstrapped(TRUE) \/ Bootstrapped(FALSE)
    BY DEF ReconcileFirstControlPlane
  <2>2. PICK s \in {"upgrade", "status"}, b \in BOOLEAN :
          work' = [work EXCEPT !.step = s, !.initialized = b]
    BY <2>1 DEF Bootstrapped
  <2>3. s \in Steps /\ s \in Resting
    BY DEF Steps, Resting
  <2>4. GoesOn(s)
    BY <1>1, <2>2, <2>3, TypeParts, Fields
  <2>5. QED
    BY <2>3, <2>4
<1>3. CASE members' \subseteq members
  BY <1>1, <1>2, <1>3, SettlesInv DEF Settles
<1>4. CASE Answers(0) /\ members' = {work.list[0].uid}
  <2>1. 0 \in Ordinals /\ work.list[0].uid # 0
    BY <1>4, ReplicasAssumption DEF Ordinals, Answers
  <2>2. History'
    <3>1. work'.list = work.list
      BY <1>2 DEF GoesOn
    <3>2. QED
      BY <1>1, <3>1, GoesOnHistory
  <2>3. Guarded'
    <3> SUFFICES ASSUME NEW o \in Ordinals, machines[o].by = "scaleDown"
                 PROVE  o # 0 /\ machines[o].deleting /\ machines[o].uid \notin members'
      BY <1>1 DEF Guarded
    <3>1. o # 0 /\ machines[o].deleting
      BY DEF Inv, Guarded
    <3>2. machines[o] \in Views(o) /\ work.list[0] \in Views(0)
      BY <1>1, <2>1, CopiesType
    <3>3. machines[o].uid # work.list[0].uid
      BY <2>1, <3>1, <3>2 DEF Inv, History, Unique
    <3>4. QED
      BY <1>4, <3>1, <3>3
  <2>4. QED
    BY <1>2, <2>2, <2>3, Rests DEF Inv, GoesOn, Resting
<1>5. QED
  BY <1>3, <1>4 DEF ReconcileFirstControlPlane, etcdVars

\* The controller keeps the invariant.
LEMMA ControllerInv ==
  ASSUME TypeOK, Inv, ControllerStep \/ StartKubernetesUpgrade \/ ScaleDownCallFails \/ Crash
  PROVE  Inv'
<1>1. CASE ReportInvalidReplicas
  BY <1>1, QuietInv DEF ReportInvalidReplicas, vars, etcdVars, counters
<1>2. CASE RemoveObservedEtcdMember \/ ScaleDownCallFails \/ ScaleDownCallUnanswered
  <2>1. /\ work.step \in Steps /\ UNCHANGED <<machineVars, nextUID>>
        /\ members' \subseteq members /\ Pending
    BY <1>2 DEF RemoveObservedEtcdMember, ScaleDownCallFails, ScaleDownCallUnanswered, Busy,
                Steps, etcdVars, counters
  <2>2. Settles
    BY <2>1, TypeParts, Fields DEF Settles, Resting, Steps
  <2>3. QED
    BY <2>1, <2>2, SettlesInv
<1>3. CASE StartKubernetesUpgrade \/ EndKubernetesUpgrade
  <2>1. /\ work.step \in Steps /\ UNCHANGED <<machineVars, nextUID, members>>
        /\ \E s \in {"upgrading", "status"} : work' = [work EXCEPT !.step = s]
    BY <1>3 DEF StartKubernetesUpgrade, EndKubernetesUpgrade, Busy, Steps, etcdVars, counters
  <2>2. PICK s \in {"upgrading", "status"} : work' = [work EXCEPT !.step = s]
    BY <2>1
  <2>3. s \in Steps /\ s \in Resting
    BY DEF Steps, Resting
  <2>4. GoesOn(s)
    BY <2>1, <2>2, <2>3, TypeParts, Fields
  <2>5. QED
    BY <2>1, <2>3, <2>4, SettlesInv DEF Settles
<1>4. CASE PatchStatus \/ Crash
  <2>1. UNCHANGED <<machineVars, nextUID, members>> /\ work' = Idle
    BY <1>4 DEF PatchStatus, Crash, etcdVars, counters
  <2>2. QED
    BY <2>1, SettlesInv DEF Settles
<1>5. QED
  BY <1>1, <1>2, <1>3, <1>4, BeginInv, CreateInv, GetInv, RefreshInv, HookInv, UnhookInv,
     AnnotateInv, DeleteInv, AnnotatedInv, ObserveInv, MembersInv, BootstrapInv
  DEF ControllerStep

-----------------------------------------------------------------------------
(* The invariant, and what follows from it.                                *)

\* A new control plane and a formed one begin with it.
LEMMA InvInit == Init \/ InitFormed => Inv
<1> SUFFICES ASSUME Init \/ InitFormed PROVE Inv
  OBVIOUS
<1>1. /\ machineCache = machines /\ machineEvents = <<>> /\ work = Idle
      /\ TypeOK /\ nextUID \in Nat /\ nextUID > 0
      /\ DOMAIN machines = Ordinals
  <2>1. TypeOK
    BY InitialType
  <2>2. nextUID \in Nat /\ nextUID > 0
    <3>1. nextUID = 1 \/ nextUID = MaxReplicas + 1
      BY DEF Init, InitFormed
    <3>2. QED
      BY <3>1, ReplicasAssumption
  <2>3. QED
    BY <2>1, <2>2 DEF Init, InitFormed, TypeOK
<1>2. \A o \in Ordinals : Views(o) = {machines[o]} /\ Copies(o) = {machines[o]}
  BY <1>1 DEF Views, Copies
<1>3. \A o \in Ordinals : /\ machines[o].present <=> machines[o].uid # 0
                          /\ machines[o].uid \in {0, o + 1} /\ machines[o].uid < nextUID
                          /\ ~machines[o].hook /\ ~machines[o].deleting
                          /\ machines[o].by = "nobody" /\ machines[o].memberID = 0
  <2>1. CASE Init
    BY <2>1 DEF Init, NoMachine
  <2>2. CASE InitFormed
    <3>1. \A o \in Ordinals : o + 1 # 0 /\ o + 1 < MaxReplicas + 1
      BY ReplicasAssumption DEF Ordinals
    <3>2. nextUID = MaxReplicas + 1 /\ \A o \in Ordinals : machines[o] = NewMachine(o + 1)
      BY <2>2 DEF InitFormed
    <3>3. \A u : /\ NewMachine(u).present /\ NewMachine(u).uid = u /\ ~NewMachine(u).hook
               /\ ~NewMachine(u).deleting /\ NewMachine(u).by = "nobody"
               /\ NewMachine(u).memberID = 0
      BY DEF NewMachine, NoMachine
    <3>4. QED
      BY <3>1, <3>2, <3>3
  <2>3. QED
    BY <2>1, <2>2
<1>4. Sound /\ Hooked /\ HookKept
  BY <1>2, <1>3 DEF Sound, SoundCopy, Hooked, HookKept
<1>5. Unique
  <2>1. \A o, p \in Ordinals : o + 1 = p + 1 => o = p
    BY ReplicasAssumption DEF Ordinals
  <2>2. QED
    BY <1>2, <1>3, <2>1 DEF Unique
<1>6. MachineInformer!Agree /\ HookedBehind
  BY <1>1 DEF MachineInformer!Agree, HookedBehind
<1>7. Guarded
  BY <1>3 DEF Guarded
<1>8. Vacant /\ Current /\ Targeted /\ Allowed
  BY <1>1 DEF Vacant, Current, Targeted, Allowed, Idle
<1>9. QED
  BY <1>4, <1>5, <1>6, <1>7, <1>8 DEF Inv, History

\* And every step keeps it.
LEMMA InvStep == TypeOK /\ Inv /\ [Next]_vars => Inv'
<1> SUFFICES ASSUME TypeOK, Inv, [Next]_vars PROVE Inv'
  OBVIOUS
<1>1. CASE UNCHANGED vars
  BY <1>1, QuietInv DEF vars, etcdVars, counters
<1>2. CASE Next
  BY <1>2, EnvironmentInv, ControllerInv DEF Next
<1>3. QED
  BY <1>1, <1>2

\* So it holds of every behaviour.
LEMMA Invariant == Spec \/ FormedSpec => [](TypeOK /\ Inv)
<1>1. TypeOK /\ Inv /\ [Next]_vars => (TypeOK /\ Inv)'
  BY TypeStep, InvStep
<1>2. Init \/ InitFormed => TypeOK /\ Inv
  BY InitialType, InvInit
<1>3. QED
  BY <1>1, <1>2, PTL DEF Spec, FormedSpec

\* HookHoldsUntilRemoved, for any number of Machines, deletions by users, crashes and
\* lagging lists: only CAPI takes a node down, that of a Machine that is being deleted
\* and has no hook; and Guarded leaves no such Machine of a scale-down in etcd.
THEOREM HookHolds == Spec \/ FormedSpec => HookHoldsUntilRemoved
<1>1. TypeOK /\ Inv /\ [Next]_vars =>
        [\A o \in Ordinals :
           LET m == machines[o]
           IN m.by = "scaleDown" /\ node[m.uid] # "off" /\ node'[m.uid] = "off"
                => m.uid \notin members]_vars
  <2> SUFFICES ASSUME TypeOK, Inv, [Next]_vars, NEW o \in Ordinals,
                      machines[o].by = "scaleDown",
                      node[machines[o].uid] # "off", node'[machines[o].uid] = "off"
               PROVE  machines[o].uid \notin members
    OBVIOUS
  <2>1. PICK p \in Ordinals : CAPIDeletesInfrastructure(p)
    <3>1. ASSUME node' = node
          PROVE  FALSE
      BY <3>1
    <3>2. ASSUME NEW u, NEW s \in {"ok", "sick"}, node' = [node EXCEPT ![u] = s]
          PROVE  FALSE
      BY <3>2 DEF TypeOK
    <3>3. CASE ControllerStep \/ StartKubernetesUpgrade \/ ScaleDownCallFails \/ Crash
      BY <3>1, <3>3 DEF ControllerStep, StartKubernetesUpgrade, ScaleDownCallFails, Crash,
         ReportInvalidReplicas, vars, BeginReconcile, CreateMachine, GetCreatedMachine,
         RefreshList, EnsureEtcdDeleteHook, DeleteMachine, ReconcileAnnotatedEtcdMember,
         RemoveEtcdDeleteHook, ObserveEtcdMachine, AnnotateEtcdMemberID, ObserveEtcdMembers,
         RemoveObservedEtcdMember, ScaleDownCallUnanswered, ReconcileFirstControlPlane,
         EndKubernetesUpgrade, PatchStatus
    <3>4. CASE UNCHANGED vars \/ DeliverMachine \/ DeliverControlPlane
      BY <3>1, <3>4 DEF vars, DeliverMachine, DeliverControlPlane
    <3>5. CASE NodeStep
      <4>1. ASSUME NEW p \in Ordinals, NodeBoots(p)
            PROVE  FALSE
        BY <3>2, <4>1 DEF NodeBoots
      <4>2. ASSUME NEW u \in UIDs, JoinEtcd(u) \/ PromoteLearner(u) \/ NodeRecovers(u)
            PROVE  FALSE
        BY <3>1, <3>2, <4>2 DEF JoinEtcd, PromoteLearner, NodeRecovers
      <4>3. QED
        BY <3>5, <4>1, <4>2 DEF NodeStep
    <3>6. ASSUME NEW p \in Ordinals, CAPIStep(p) \/ UserDeletesMachine(p)
          PROVE  CAPIDeletesInfrastructure(p)
      BY <3>1, <3>6 DEF CAPIStep, CAPIWaitsForHook, CAPIRemovesMachine, UserDeletesMachine
    <3>7. ASSUME NEW n \in 0..MaxReplicas, ScaleControlPlane(n)
          PROVE  FALSE
      BY <3>1, <3>7 DEF ScaleControlPlane
    <3>8. ASSUME NEW u \in UIDs, NodeSickens(u)
          PROVE  FALSE
      BY <3>2, <3>8 DEF NodeSickens
    <3>9. QED
      BY <3>3, <3>4, <3>5, <3>6, <3>7, <3>8 DEF Next
  <2>2. machines[p].deleting /\ ~machines[p].hook /\ node' = [node EXCEPT ![machines[p].uid] = "off"]
    BY <2>1 DEF CAPIDeletesInfrastructure
  <2>3. machines[p].uid = machines[o].uid
    BY <2>2 DEF TypeOK
  <2>4. machines[o] \in Views(o) /\ machines[p] \in Views(p) /\ SoundCopy(machines[p])
    BY CopiesType DEF Inv, History, Sound
  <2>5. o = p
    BY <2>2, <2>3, <2>4 DEF Inv, History, Unique, SoundCopy
  <2>6. QED
    BY <2>2, <2>5 DEF Inv, Guarded
<1>2. QED
  BY <1>1, Invariant, PTL DEF Spec, FormedSpec, HookHoldsUntilRemoved

\* While a removal is allowed, only that removal and nodes that join change the members.
LEMMA MembersChange ==
  ASSUME TypeOK, [Next]_vars, members' # members, Busy("remove")
  PROVE  \/ \E u \in UIDs : JoinEtcd(u)
         \/ /\ members' = members \ {Target.uid} /\ learners' = learners \ {Target.uid}
            /\ node' = node
<1>1. ASSUME UNCHANGED members
      PROVE  FALSE
  BY <1>1
<1>2. CASE RemoveObservedEtcdMember \/ ScaleDownCallFails
  BY <1>2 DEF RemoveObservedEtcdMember, ScaleDownCallFails
<1>3. CASE \/ ControllerStep /\ ~RemoveObservedEtcdMember
           \/ StartKubernetesUpgrade \/ Crash
  BY <1>1, <1>3 DEF Busy, ControllerStep, StartKubernetesUpgrade, Crash, ReportInvalidReplicas,
     vars, etcdVars, BeginReconcile, CreateMachine, GetCreatedMachine, RefreshList,
     EnsureEtcdDeleteHook, DeleteMachine, ReconcileAnnotatedEtcdMember, RemoveEtcdDeleteHook,
     ObserveEtcdMachine, AnnotateEtcdMemberID, ObserveEtcdMembers, ScaleDownCallUnanswered,
     ReconcileFirstControlPlane, EndKubernetesUpgrade, PatchStatus
<1>4. CASE UNCHANGED vars \/ DeliverMachine \/ DeliverControlPlane
  BY <1>1, <1>4 DEF vars, etcdVars, DeliverMachine, DeliverControlPlane
<1>5. CASE NodeStep
  <2>1. ASSUME NEW o \in Ordinals, NodeBoots(o)
        PROVE  FALSE
    BY <1>1, <2>1 DEF NodeBoots, etcdVars
  <2>2. ASSUME NEW u \in UIDs, PromoteLearner(u) \/ NodeRecovers(u)
        PROVE  FALSE
    BY <1>1, <2>2 DEF PromoteLearner, NodeRecovers, etcdVars
  <2>3. QED
    BY <1>5, <2>1, <2>2 DEF NodeStep
<1>6. ASSUME NEW o \in Ordinals, CAPIStep(o) \/ UserDeletesMachine(o)
      PROVE  FALSE
  BY <1>1, <1>6 DEF CAPIStep, CAPIWaitsForHook, CAPIDeletesInfrastructure, CAPIRemovesMachine,
     UserDeletesMachine, etcdVars
<1>7. ASSUME NEW n \in 0..MaxReplicas, ScaleControlPlane(n)
      PROVE  FALSE
  BY <1>1, <1>7 DEF ScaleControlPlane, etcdVars
<1>8. ASSUME NEW u \in UIDs, NodeSickens(u)
      PROVE  FALSE
  BY <1>1, <1>8 DEF NodeSickens, etcdVars
<1>9. QED
  BY <1>2, <1>3, <1>4, <1>5, <1>6, <1>7, <1>8 DEF Next

\* A node that joins as a learner costs no quorum.
LEMMA JoinKeepsQuorum ==
  ASSUME NEW u, JoinEtcd(u)
  PROVE  Working'
<1>1. /\ Working /\ u \notin members /\ learners = {} /\ node' = node
      /\ members' = members \union {u} /\ learners' = {u}
  BY DEF JoinEtcd
<1>2. /\ Healthy' \ learners' = Healthy \ learners
      /\ members' \ learners' = members \ learners /\ members' # {}
  BY <1>1 DEF Healthy
<1>3. QED
  BY <1>1, <1>2 DEF Working, HasQuorum

\* Nor does the removal of a member that CanRemoveMember allows, counted on the members
\* as they are and on nodes observed healthy that are healthy still.
LEMMA RemovalKeepsWorking ==
  ASSUME TypeOK, Inv, Busy("remove"), work.healthy \subseteq Healthy, members = ObservedUIDs,
         members' = members \ {Target.uid}, learners' = learners \ {Target.uid}, node' = node
  PROVE  Working'
<1>1. PICK t : t = Target.uid
  OBVIOUS
<1>2. /\ learners = {}
      /\ CanRemoveMember([members |-> Cardinality(members),
                          healthy |-> Cardinality(work.healthy),
                          targetHealthy |-> t \in work.healthy,
                          targetObserved |-> TRUE])
  BY <1>1 DEF Busy, Inv, Allowed, TypeOK
<1>3. t \in members
  <2>1. Target.present /\ work.target \in Ordinals
    BY TypeParts, InFlight DEF Busy, Inv, Targeted, Steps
  <2>2. QED
    BY <1>1, <2>1 DEF ObservedUIDs, Listed, Target
<1>4. /\ IsFiniteSet(members) /\ IsFiniteSet(Healthy)
      /\ Cardinality(members) \in Nat /\ Cardinality(Healthy) \in Nat
      /\ Cardinality(work.healthy) \in Nat /\ Cardinality(work.healthy) <= Cardinality(Healthy)
  <2>1. IsFiniteSet(UIDs)
    BY ReplicasAssumption, FS_Interval DEF UIDs
  <2>2. members \in SUBSET UIDs /\ Healthy \in SUBSET members /\ work.healthy \in SUBSET Healthy
    BY DEF TypeOK, Healthy
  <2>3. IsFiniteSet(members)
    BY <2>1, <2>2, FS_Subset
  <2>4. IsFiniteSet(Healthy)
    BY <2>2, <2>3, FS_Subset
  <2>5. IsFiniteSet(work.healthy) /\ Cardinality(work.healthy) <= Cardinality(Healthy)
    BY <2>2, <2>4, FS_Subset
  <2>6. QED
    BY <2>3, <2>4, <2>5, FS_CardinalityType
<1>5. /\ Cardinality(members) >= 2
      /\ t \in work.healthy => Cardinality(work.healthy) - 1 >= QuorumSize(Cardinality(members) - 1)
      /\ t \notin work.healthy => Cardinality(work.healthy) >= QuorumSize(Cardinality(members) - 1)
  BY <1>2 DEF CanRemoveMember
<1>6. /\ Healthy' = Healthy \ {t} /\ learners' = {} /\ members' = members \ {t}
  BY <1>1, <1>2 DEF Healthy
<1>7. Cardinality(members \ {t}) = Cardinality(members) - 1 /\ members \ {t} # {}
  <2>1. Cardinality(members \ {t}) = Cardinality(members) - 1
    BY <1>3, <1>4, FS_RemoveElement
  <2>2. Cardinality(members \ {t}) # 0
    BY <1>4, <1>5, <2>1
  <2>3. QED
    BY <2>1, <2>2, FS_EmptySet
<1>8. Cardinality(Healthy \ {t}) >= QuorumSize(Cardinality(members) - 1)
  <2>0. QuorumSize(Cardinality(members) - 1) \in Int
    BY <1>4 DEF QuorumSize
  <2>1. CASE t \in work.healthy
    <3>1. Cardinality(Healthy \ {t}) = Cardinality(Healthy) - 1
      BY <1>4, <2>1, FS_RemoveElement
    <3>2. QED
      BY <1>4, <1>5, <2>0, <2>1, <3>1
  <2>2. CASE t \notin work.healthy
    <3>1. work.healthy \in SUBSET (Healthy \ {t})
      BY <2>2
    <3>2. IsFiniteSet(Healthy \ {t})
      BY <1>4, FS_Subset
    <3>3. /\ Cardinality(work.healthy) <= Cardinality(Healthy \ {t})
          /\ Cardinality(Healthy \ {t}) \in Nat
      BY <3>1, <3>2, FS_Subset, FS_CardinalityType
    <3>4. QED
      BY <1>4, <1>5, <2>0, <2>2, <3>3
  <2>3. QED
    BY <2>1, <2>2
<1>9. Healthy' \ learners' = Healthy \ {t} /\ members' \ learners' = members \ {t}
  BY <1>6
<1>10. QED
  BY <1>6, <1>7, <1>8, <1>9 DEF Working, HasQuorum

\* RemovalKeepsQuorum, for any number of members: whatever happened between the
\* observations, the list of members and the removal, the quorum is lost only when a
\* node fell sick or the members changed in between.
THEOREM RemovalKeeps == Spec \/ FormedSpec => RemovalKeepsQuorum
<1>1. TypeOK /\ Inv /\ [Next]_vars =>
        [members' # members /\ Busy("remove")
           => (work.healthy \subseteq Healthy /\ members = ObservedUIDs => Working')]_vars
  <2> SUFFICES ASSUME TypeOK, Inv, [Next]_vars, members' # members, Busy("remove"),
                      work.healthy \subseteq Healthy, members = ObservedUIDs
               PROVE  Working'
    OBVIOUS
  <2>1. QED
    BY MembersChange, JoinKeepsQuorum, RemovalKeepsWorking
<1>2. QED
  BY <1>1, Invariant, PTL DEF Spec, FormedSpec, RemovalKeepsQuorum

-----------------------------------------------------------------------------
(* No second cluster.                                                      *)

\* The status says initialized wherever it is read before the bootstrap step.
Initialized ==
  /\ cp.initialized = "true" /\ cpCache.initialized = "true" /\ ~split
  /\ work.step \in Steps => work.base = "true"

\* The steps around the controller leave it so.
LEMMA EnvironmentInitialized ==
  ASSUME TypeOK, Initialized,
         \/ DeliverMachine \/ DeliverControlPlane \/ NodeStep
         \/ \E o \in Ordinals : CAPIStep(o) \/ UserDeletesMachine(o)
         \/ \E n \in 0..MaxReplicas : ScaleControlPlane(n)
         \/ \E u \in UIDs : NodeSickens(u)
  PROVE  Initialized'
<1>1. ASSUME UNCHANGED <<cp, split>>, cpCache' = cpCache \/ cpCache' = cp, work' = work
      PROVE  Initialized'
  BY <1>1 DEF Initialized
<1>2. CASE DeliverMachine \/ DeliverControlPlane
  BY <1>1, <1>2 DEF DeliverMachine, DeliverControlPlane, etcdVars
<1>3. CASE NodeStep
  <2>1. UNCHANGED <<cp, cpCache, split, work>>
    BY <1>3 DEF NodeStep, NodeBoots, JoinEtcd, PromoteLearner, NodeRecovers, etcdVars
  <2>2. QED
    BY <1>1, <2>1
<1>4. ASSUME NEW o \in Ordinals, CAPIStep(o) \/ UserDeletesMachine(o)
      PROVE  Initialized'
  <2>1. /\ UNCHANGED <<cp, cpCache, split>>
        /\ work' = work \/ (work # Idle /\ work' = [work EXCEPT !.fresh = FALSE])
    BY <1>4 DEF CAPIStep, CAPIWaitsForHook, CAPIDeletesInfrastructure, CAPIRemovesMachine,
                UserDeletesMachine, OthersWriteMachine, etcdVars
  <2>2. CASE work # Idle /\ work' = [work EXCEPT !.fresh = FALSE]
    <3>1. work \in Work
      BY <2>2, TypeParts DEF WorkOK
    <3>2. work'.step = work.step /\ work'.base = work.base
      BY <2>2, <3>1 DEF Work
    <3>3. QED
      BY <2>1, <3>2 DEF Initialized
  <2>3. QED
    BY <1>1, <2>1, <2>2
<1>5. ASSUME NEW n \in 0..MaxReplicas, ScaleControlPlane(n)
      PROVE  Initialized'
  <2>1. cp'.initialized = cp.initialized /\ UNCHANGED <<cpCache, split, work>>
    BY <1>5 DEF ScaleControlPlane, etcdVars, TypeOK
  <2>2. QED
    BY <2>1 DEF Initialized
<1>6. ASSUME NEW u \in UIDs, NodeSickens(u)
      PROVE  Initialized'
  BY <1>1, <1>6 DEF NodeSickens, etcdVars
<1>7. QED
  BY <1>2, <1>3, <1>4, <1>5, <1>6

\* So does the controller: a reconcile reads it when it begins, bootstraps nothing, and
\* stores what it observed only where that says more.
LEMMA ControllerInitialized ==
  ASSUME TypeOK, Initialized,
         ControllerStep \/ StartKubernetesUpgrade \/ ScaleDownCallFails \/ Crash
  PROVE  Initialized'
<1>0. WorkOK
  BY TypeParts
<1>1. ASSUME UNCHANGED <<cp, cpCache, split>>, work' = Idle
      PROVE  Initialized'
  BY <1>1 DEF Initialized, Idle, Steps
<1>2. ASSUME UNCHANGED <<cp, cpCache, split>>, work'.base = work.base,
             work.step \in Steps
      PROVE  Initialized'
  BY <1>2 DEF Initialized
<1>3. CASE ReportInvalidReplicas
  BY <1>3 DEF ReportInvalidReplicas, vars, etcdVars, Initialized
<1>4. CASE BeginReconcile
  BY <1>4 DEF BeginReconcile, etcdVars, Initialized
<1>5. CASE \/ CreateMachine \/ GetCreatedMachine \/ RefreshList \/ EnsureEtcdDeleteHook
           \/ DeleteMachine \/ ReconcileAnnotatedEtcdMember \/ RemoveEtcdDeleteHook
           \/ ObserveEtcdMachine \/ AnnotateEtcdMemberID \/ ObserveEtcdMembers
           \/ RemoveObservedEtcdMember \/ ScaleDownCallFails \/ ScaleDownCallUnanswered
  <2>1. /\ work.step \in Steps
        /\ UNCHANGED <<cp, cpCache, split>>
    BY <1>5 DEF CreateMachine, GetCreatedMachine, RefreshList, EnsureEtcdDeleteHook,
       DeleteMachine, ReconcileAnnotatedEtcdMember, RemoveEtcdDeleteHook, ObserveEtcdMachine,
       AnnotateEtcdMemberID, ObserveEtcdMembers, RemoveObservedEtcdMember, ScaleDownCallFails,
       ScaleDownCallUnanswered, Busy, Steps, etcdVars
  <2>2. work \in Work
    BY <1>0, <2>1, InFlight
  <2>3. ASSUME NEW x, NEW s \in Steps, NEW n,
               n \in {[work EXCEPT !.step = s], [work EXCEPT !.step = s, !.pending = TRUE]},
               LockedPatch(x, n)
        PROVE  work' = Idle \/ work'.base = work.base
    BY <2>2, <2>3 DEF LockedPatch, Work
  <2>4. CASE EnsureEtcdDeleteHook
    <3>1. PICK x : x = [Target EXCEPT !.hook = TRUE]
      OBVIOUS
    <3>2. CASE Target.deleting
      <4>1. LockedPatch(x, [work EXCEPT !.step = "bootstrap", !.pending = TRUE]) /\ "bootstrap" \in Steps
        BY <2>4, <3>1, <3>2 DEF EnsureEtcdDeleteHook, Steps
      <4>2. QED
        BY <1>1, <1>2, <2>1, <2>3, <4>1
    <3>3. CASE ~Target.deleting
      <4>1. LockedPatch(x, [work EXCEPT !.step = "delete"]) /\ "delete" \in Steps
        BY <2>4, <3>1, <3>3 DEF EnsureEtcdDeleteHook, Steps
      <4>2. QED
        BY <1>1, <1>2, <2>1, <2>3, <4>1
    <3>4. QED
      BY <3>2, <3>3
  <2>5. CASE RemoveEtcdDeleteHook \/ AnnotateEtcdMemberID
    <3>1. \E x : \E s \in {"bootstrap", "members"} : LockedPatch(x, [work EXCEPT !.step = s])
      BY <2>5 DEF RemoveEtcdDeleteHook, AnnotateEtcdMemberID
    <3>2. PICK x, s : s \in {"bootstrap", "members"} /\ LockedPatch(x, [work EXCEPT !.step = s])
      BY <3>1
    <3>3. s \in Steps
      BY <3>2 DEF Steps
    <3>4. work' = Idle \/ work'.base = work.base
      BY <2>3, <3>2, <3>3
    <3>5. QED
      BY <1>1, <1>2, <2>1, <3>4
  <2>6. CASE CreateMachine \/ GetCreatedMachine \/ RefreshList
    <3>1. work' = Idle \/ work'.base = work.base
      BY <2>2, <2>6 DEF CreateMachine, GetCreatedMachine, RefreshList, Work
    <3>2. QED
      BY <1>1, <1>2, <2>1, <3>1
  <2>7. CASE \/ DeleteMachine \/ ReconcileAnnotatedEtcdMember \/ ObserveEtcdMachine
             \/ ObserveEtcdMembers \/ RemoveObservedEtcdMember \/ ScaleDownCallFails
             \/ ScaleDownCallUnanswered
    <3>1. work'.base = work.base
      <4>1. Pending => work'.base = work.base
        BY <2>2 DEF Pending, Work
      <4>2. QED
        BY <2>2, <2>7, <4>1 DEF DeleteMachine, ReconcileAnnotatedEtcdMember,
           ObserveEtcdMachine, ObserveEtcdMembers, RemoveObservedEtcdMember,
           ScaleDownCallFails, ScaleDownCallUnanswered, Work
    <3>2. QED
      BY <1>2, <2>1, <3>1
  <2>8. QED
    BY <1>5, <2>4, <2>5, <2>6, <2>7
<1>6. CASE ReconcileFirstControlPlane
  <2>1. work.step = "bootstrap" /\ work.step \in Steps /\ UNCHANGED <<cp, cpCache>>
    BY <1>6 DEF ReconcileFirstControlPlane, Busy, Steps
  <2>2. work.base = "true" /\ ~split
    BY <2>1 DEF Initialized
  <2>3. ~split'
    BY <1>6, <2>2 DEF ReconcileFirstControlPlane, etcdVars
  <2>4. work'.base = work.base
    <3>1. Bootstrapped(TRUE) \/ Bootstrapped(FALSE)
      BY <1>6 DEF ReconcileFirstControlPlane
    <3>2. QED
      BY <1>0, <2>1, <3>1, InFlight DEF Bootstrapped, Work
  <2>5. QED
    BY <2>1, <2>2, <2>3, <2>4 DEF Initialized
<1>7. CASE StartKubernetesUpgrade \/ EndKubernetesUpgrade
  <2>1. work.step \in Steps /\ UNCHANGED <<cp, cpCache, split>>
    BY <1>7 DEF StartKubernetesUpgrade, EndKubernetesUpgrade, Busy, Steps, etcdVars
  <2>2. work'.base = work.base
    BY <1>0, <1>7, <2>1, InFlight DEF StartKubernetesUpgrade, EndKubernetesUpgrade, Work
  <2>3. QED
    BY <1>2, <2>1, <2>2
<1>8. CASE PatchStatus
  <2>1. work.base = "true"
    BY <1>8 DEF PatchStatus, Busy, Initialized, Steps
  <2>2. cp' = cp /\ work' = Idle /\ UNCHANGED <<cpCache, split>>
    BY <1>8, <2>1 DEF PatchStatus, ReportedInitialization, etcdVars
  <2>3. QED
    BY <2>2 DEF Initialized, Idle, Steps
<1>9. CASE Crash
  BY <1>1, <1>9 DEF Crash, etcdVars
<1>10. QED
  BY <1>3, <1>4, <1>5, <1>6, <1>7, <1>8, <1>9 DEF ControllerStep

\* NoSecondCluster of a control plane that is initialized, for any number of replacements
\* of its first Machine, crashes and failing nodes: no reconcile that has read the
\* initialization takes it back, so that every reconcile that reaches the bootstrap step has read it.
THEOREM OneCluster == FormedSpec => []NoSecondCluster
<1>1. InitFormed => Initialized
  BY DEF InitFormed, Initialized, Idle, Steps
<1>2. TypeOK /\ Initialized /\ [Next]_vars => Initialized'
  <2> SUFFICES ASSUME TypeOK, Initialized, [Next]_vars PROVE Initialized'
    OBVIOUS
  <2>1. CASE UNCHANGED vars
    BY <2>1 DEF vars, etcdVars, Initialized
  <2>2. CASE Next
    BY <2>2, EnvironmentInitialized, ControllerInitialized DEF Next
  <2>3. QED
    BY <2>1, <2>2
<1>3. Initialized => NoSecondCluster
  BY DEF Initialized, NoSecondCluster
<1>4. QED
  BY <1>1, <1>2, <1>3, TypeCorrect, PTL DEF FormedSpec

=============================================================================
