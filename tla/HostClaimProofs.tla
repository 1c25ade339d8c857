--------------------------- MODULE HostClaimProofs ---------------------------
(***************************************************************************)
(* Type correctness of HostClaim; the invariant behind its compare-and-    *)
(* swap writes, and that it implements HostBinding; and, from an invariant *)
(* on all copies of hosts and machines there are, who holds which host and *)
(* what the published names say.                                           *)
(***************************************************************************)
EXTENDS HostClaim, SequenceTheorems, TLAPS

HostsOK ==
  /\ hosts \in [Hosts -> TartHost] /\ hostCache \in [Hosts -> TartHost]
  /\ hostEvents \in Seq([key: Hosts, object: TartHost])

MachinesOK ==
  /\ machines \in [Machines -> TartMachine]
  /\ machineCache \in [Machines -> TartMachine]
  /\ machineEvents \in Seq([key: Machines, object: TartMachine])

\* A reconcile in flight has a host, except on its way to remove the machine's
\* finalizer, and reads it again only while attempts are left.
WorkOK ==
  /\ work \in Work \union {Idle}
  /\ work # Idle =>
       /\ work.step # "removeFinalizer" => work.h \in Hosts
       /\ work.step \in {"refreshClaim", "refreshRetain"}
            => work.attempt < claimAttempts

RestOK ==
  /\ capi \in [Machines -> [providerID: Nat, drained: BOOLEAN]]
  /\ nextHostID \in Nat /\ edits \in Nat

\* The type invariant with what makes it inductive.
TypeInv == HostsOK /\ MachinesOK /\ WorkOK /\ RestOK

\* The records written whole are of their types.
LEMMA RecordTypes ==
  /\ \A i \in Identities, fd \in FailureDomains : NewHost(i, fd) \in TartHost
  /\ NoHost \in TartHost
  /\ NoMachine \in TartMachine
  /\ [NoMachine EXCEPT !.phase = "gone"] \in TartMachine
<1>1. \A i \in Identities, fd \in FailureDomains : NewHost(i, fd) \in TartHost
  BY ReuseModesAssumption
     DEF NewHost, TartHost, NoReuse, NoDeletionApproval, MaybeMachine
<1>2. NoHost \in TartHost
  <2> DEFINE i == CHOOSE i \in Identities : TRUE
             fd == CHOOSE d \in FailureDomains : TRUE
  <2>1. i \in Identities /\ fd \in FailureDomains
    BY DomainsAssumption
  <2>2. NewHost(i, fd) \in TartHost
    BY <1>1, <2>1
  <2>3. QED
    BY <2>2 DEF NoHost, TartHost
<1>3. NoMachine \in TartMachine
  BY DEF NoMachine, TartMachine, MaybeHost
<1>4. QED
  BY <1>1, <1>2, <1>3 DEF TartMachine

\* The edits made to a host and to a machine keep their types.
LEMMA HostEdits ==
  ASSUME NEW x \in TartHost
  PROVE  /\ \A b \in BOOLEAN : [x EXCEPT !.deleting = b] \in TartHost
         /\ \A b \in BOOLEAN : [x EXCEPT !.finalizer = b] \in TartHost
         /\ \A n \in Nat : [x EXCEPT !.hostID = n] \in TartHost
         /\ \A fd \in FailureDomains : [x EXCEPT !.failureDomain = fd] \in TartHost
         /\ \A i \in Identities : [x EXCEPT !.identity = i, !.reidentified = TRUE] \in TartHost
         /\ \A m \in Machines : [x EXCEPT !.consumer = m] \in TartHost
         /\ \A m \in Machines :
              [x EXCEPT !.consumer = None, !.previous = m] \in TartHost
         /\ \A u \in MaybeMachine, mode \in ReuseModes :
              [x EXCEPT !.reuse = [uid |-> u, mode |-> mode]] \in TartHost
         /\ [x EXCEPT !.deletionApproval =
               [consumer |-> x.consumer, previous |-> x.previous]] \in TartHost
BY DEF TartHost, MaybeMachine

\* So do those made to a machine.
LEMMA MachineEdits ==
  ASSUME NEW x \in TartMachine
  PROVE  /\ [x EXCEPT !.phase = "deleting"] \in TartMachine
         /\ [x EXCEPT !.finalizer = TRUE] \in TartMachine
         /\ \A n \in Nat : [x EXCEPT !.providerID = n] \in TartMachine
         /\ \A h \in Hosts : [x EXCEPT !.hostRef = h] \in TartMachine
BY DEF TartMachine, MaybeHost

\* A write of a typed object and a delivery keep the three views typed.
LEMMA HostWriteType ==
  ASSUME HostsOK, NEW h \in Hosts, NEW host \in TartHost,
         HostInformer!Write(h, host)
  PROVE  HostsOK'
BY DEF HostsOK, HostInformer!Write

\* A delivery of a host event keeps the types of the host informer.
LEMMA HostDeliverType ==
  ASSUME HostsOK, HostInformer!Deliver
  PROVE  HostsOK'
<1>1. Head(hostEvents) \in [key: Hosts, object: TartHost]
      /\ Tail(hostEvents) \in Seq([key: Hosts, object: TartHost])
  BY HeadTailProperties DEF HostsOK, HostInformer!Deliver
<1>2. QED
  BY <1>1 DEF HostsOK, HostInformer!Deliver

\* A write of a machine keeps the types of the machine informer.
LEMMA MachineWriteType ==
  ASSUME MachinesOK, NEW m \in Machines, NEW machine \in TartMachine,
         MachineInformer!Write(m, machine)
  PROVE  MachinesOK'
BY DEF MachinesOK, MachineInformer!Write

\* So does the delivery of a machine event.
LEMMA MachineDeliverType ==
  ASSUME MachinesOK, MachineInformer!Deliver
  PROVE  MachinesOK'
<1>1. Head(machineEvents) \in [key: Machines, object: TartMachine]
      /\ Tail(machineEvents) \in Seq([key: Machines, object: TartMachine])
  BY HeadTailProperties DEF MachinesOK, MachineInformer!Deliver
<1>2. QED
  BY <1>1 DEF MachinesOK, MachineInformer!Deliver

\* The edits made to the reconcile in flight keep its type.
LEMMA WorkEdits ==
  ASSUME WorkOK, work # Idle
  PROVE  /\ work \in Work
         /\ \A s \in Steps : [work EXCEPT !.step = s] \in Work
         /\ \A b \in BOOLEAN : [work EXCEPT !.hostFresh = b] \in Work
         /\ \A b \in BOOLEAN : [work EXCEPT !.machineFresh = b] \in Work
         /\ \A s \in Steps, host \in TartHost :
              [work EXCEPT !.step = s, !.host = host] \in Work
         /\ \A s \in Steps, machine \in TartMachine :
              [work EXCEPT !.step = s, !.machine = machine] \in Work
<1> SUFFICES work \in Work
  BY DEF Work
<1> QED
  BY DEF WorkOK

\* Another writer of hosts keeps the types.
LEMMA OthersWriteHostType ==
  ASSUME HostsOK, WorkOK, NEW h \in Hosts, NEW host \in TartHost,
         OthersWriteHost(h, host)
  PROVE  HostsOK' /\ WorkOK'
<1>1. HostsOK'
  BY HostWriteType DEF OthersWriteHost
<1>2. WorkOK'
  BY WorkEdits DEF OthersWriteHost, WorkOK, Work, Idle
<1>3. QED
  BY <1>1, <1>2

\* Another writer of machines keeps the types.
LEMMA OthersWriteMachineType ==
  ASSUME MachinesOK, WorkOK, NEW m \in Machines, NEW machine \in TartMachine,
         OthersWriteMachine(m, machine)
  PROVE  MachinesOK' /\ WorkOK'
<1>1. MachinesOK'
  BY MachineWriteType DEF OthersWriteMachine
<1>2. WorkOK'
  BY WorkEdits DEF OthersWriteMachine, WorkOK, Work, Idle
<1>3. QED
  BY <1>1, <1>2

\* The steps of users and of the TartHost controller.
LEMMA UserStepType ==
  ASSUME TypeInv, UserStep
  PROVE  TypeInv'
<1>1. ASSUME NEW h \in Hosts, NEW host \in TartHost, EditHost(h, host)
      PROVE  TypeInv'
  <2>1. HostsOK' /\ WorkOK'
    BY <1>1, OthersWriteHostType DEF TypeInv, EditHost
  <2>2. QED
    BY <1>1, <2>1 DEF TypeInv, EditHost, Edit, machineVars, HostsOK, MachinesOK, WorkOK, RestOK
<1>2. ASSUME NEW h \in Hosts, NEW i \in Identities, NEW fd \in FailureDomains,
             RegisterHost(h, i, fd)
      PROVE  TypeInv'
  <2>1. HostsOK' /\ WorkOK'
    BY <1>2, OthersWriteHostType, RecordTypes DEF TypeInv, RegisterHost
  <2>2. QED
    BY <1>2, <2>1 DEF TypeInv, RegisterHost, Edit, machineVars, HostsOK, MachinesOK, WorkOK, RestOK
<1>3. ASSUME NEW h \in Hosts, NEW fd \in FailureDomains, Relabel(h, fd)
      PROVE  TypeInv'
  <2>1. [hosts[h] EXCEPT !.failureDomain = fd] \in TartHost
    BY HostEdits DEF TypeInv, HostsOK
  <2>2. QED
    BY <1>1, <1>3, <2>1 DEF Relabel
<1>4. ASSUME NEW h \in Hosts, NEW mode \in ReuseModes, ApproveReuse(h, mode)
      PROVE  TypeInv'
  <2>1. PICK uid \in {hosts[h].consumer, hosts[h].previous} \ {None} :
          EditHost(h, [hosts[h] EXCEPT !.reuse = [uid |-> uid, mode |-> mode]])
    BY <1>4 DEF ApproveReuse
  <2>2. hosts[h] \in TartHost /\ uid \in MaybeMachine
    BY DEF TypeInv, HostsOK, TartHost
  <2>3. [hosts[h] EXCEPT !.reuse = [uid |-> uid, mode |-> mode]] \in TartHost
    BY <2>2, HostEdits
  <2>4. QED
    BY <1>1, <2>1, <2>3
<1>5. ASSUME NEW h \in Hosts, ApproveHostDeletion(h)
      PROVE  TypeInv'
  <2>1. [hosts[h] EXCEPT !.deletionApproval =
           [consumer |-> hosts[h].consumer, previous |-> hosts[h].previous]]
          \in TartHost
    BY HostEdits DEF TypeInv, HostsOK
  <2>2. QED
    BY <1>1, <1>5, <2>1 DEF ApproveHostDeletion
<1>6. ASSUME NEW h \in Hosts, DeleteHost(h)
      PROVE  TypeInv'
  <2>1. [hosts[h] EXCEPT !.deleting = TRUE] \in TartHost
    BY HostEdits DEF TypeInv, HostsOK
  <2>2. QED
    BY <1>1, <1>6, <2>1, RecordTypes DEF DeleteHost
<1>7. ASSUME NEW m \in Machines, NEW ref \in HostRefs, NEW fd \in Placements,
             CreateMachine(m, ref, fd)
      PROVE  TypeInv'
  <2>1. [NoMachine EXCEPT !.phase = "live", !.specHostRef = ref,
           !.failureDomain = fd] \in TartMachine
    BY HostsAssumption DEF NoMachine, TartMachine, MaybeHost
  <2>2. MachinesOK' /\ WorkOK'
    BY <1>7, <2>1, OthersWriteMachineType DEF TypeInv, CreateMachine
  <2>3. QED
    BY <1>7, <2>2 DEF TypeInv, CreateMachine, Edit, hostVars, HostsOK, MachinesOK, WorkOK, RestOK
<1>8. ASSUME NEW m \in Machines, DeleteMachine(m)
      PROVE  TypeInv'
  <2>1. [machines[m] EXCEPT !.phase = "deleting"] \in TartMachine
    BY MachineEdits DEF TypeInv, MachinesOK
  <2>2. MachinesOK' /\ WorkOK'
    BY <1>8, <2>1, OthersWriteMachineType, RecordTypes DEF TypeInv, DeleteMachine
  <2>3. QED
    BY <1>8, <2>2 DEF TypeInv, DeleteMachine, Edit, hostVars, HostsOK, MachinesOK, WorkOK, RestOK
<1>9. ASSUME NEW m \in Machines, CAPIDrained(m)
      PROVE  TypeInv'
  BY <1>9 DEF TypeInv, CAPIDrained, hostVars, machineVars, HostsOK, MachinesOK, WorkOK, RestOK
<1>10. ASSUME NEW h \in Hosts, NEW i \in Identities, Reidentify(h, i)
      PROVE  TypeInv'
  <2>1. [hosts[h] EXCEPT !.identity = i, !.reidentified = TRUE] \in TartHost
    BY HostEdits DEF TypeInv, HostsOK
  <2>2. QED
    BY <1>1, <1>10, <2>1 DEF Reidentify
<1>11. QED
  BY <1>2, <1>3, <1>4, <1>5, <1>6, <1>7, <1>8, <1>9, <1>10 DEF UserStep

\* The TartHost controller's steps keep the types.
LEMMA TartHostStepType ==
  ASSUME TypeInv, TartHostStep
  PROVE  TypeInv'
<1>0. \A h \in Hosts : hostCache[h] \in TartHost /\ hosts[h] \in TartHost
  BY DEF TypeInv, HostsOK
<1>1. ASSUME NEW h \in Hosts, AssignHostID(h)
      PROVE  TypeInv'
  <2>1. [hostCache[h] EXCEPT !.hostID = nextHostID] \in TartHost
    BY <1>0, HostEdits DEF TypeInv, RestOK
  <2>2. HostsOK' /\ WorkOK'
    BY <1>1, <2>1, OthersWriteHostType DEF TypeInv, AssignHostID, HostLocked
  <2>3. QED
    BY <1>1, <2>2 DEF TypeInv, AssignHostID, machineVars, HostsOK, MachinesOK, WorkOK, RestOK
<1>2. ASSUME NEW h \in Hosts, AddHostFinalizer(h)
      PROVE  TypeInv'
  <2>1. [hostCache[h] EXCEPT !.finalizer = TRUE] \in TartHost
    BY <1>0, HostEdits
  <2>2. HostsOK' /\ WorkOK'
    BY <1>2, <2>1, OthersWriteHostType DEF TypeInv, AddHostFinalizer, HostLocked
  <2>3. QED
    BY <1>2, <2>2 DEF TypeInv, AddHostFinalizer, machineVars, HostsOK, MachinesOK, WorkOK, RestOK
<1>3. ASSUME NEW h \in Hosts, PatchHostStatus(h)
      PROVE  TypeInv'
  <2>1. HostsOK' /\ WorkOK'
    BY <1>0, <1>3, OthersWriteHostType DEF TypeInv, PatchHostStatus
  <2>2. QED
    BY <1>3, <2>1 DEF TypeInv, PatchHostStatus, Edit, machineVars, HostsOK, MachinesOK, WorkOK, RestOK
<1>4. ASSUME NEW h \in Hosts, FinalizeHost(h)
      PROVE  TypeInv'
  <2>1. HostsOK' /\ WorkOK'
    BY <1>4, RecordTypes, OthersWriteHostType DEF TypeInv, FinalizeHost, HostLocked
  <2>2. QED
    BY <1>4, <2>1 DEF TypeInv, FinalizeHost, machineVars, HostsOK, MachinesOK, WorkOK, RestOK
<1>5. QED
  BY <1>1, <1>2, <1>3, <1>4 DEF TartHostStep

\* The work of a reconcile that provisions.
LEMMA ProvisioningWorkType ==
  ASSUME TypeInv, NEW step \in {"get", "claim"}, NEW m \in Machines, NEW machine \in TartMachine,
         NEW f \in BOOLEAN, NEW h \in Hosts
  PROVE  LET w == ProvisioningWork(step, m, machine, f, h)
         IN /\ w \in Work /\ w # Idle /\ w.step = step /\ w.m = m /\ w.machine = machine
            /\ w.machineFresh = f /\ w.h = h /\ w.host = hostCache[h]
            /\ w.hostFresh = (hostCache[h].present /\ HostInformer!Fresh(h))
            /\ w.mode = ClaimModeForSelectedHost(machine, h)
            /\ w.expectedHostID = hostCache[h].hostID
<1>1. hostCache[h] \in TartHost /\ hostCache[h].hostID \in Nat /\ hostCache[h].present \in BOOLEAN
  BY DEF TypeInv, HostsOK, TartHost
<1>2. ClaimModeForSelectedHost(machine, h) \in ClaimModes
  BY DEF ClaimModeForSelectedHost, ClaimModes
<1>3. (hostCache[h].present /\ HostInformer!Fresh(h)) \in BOOLEAN
  OBVIOUS
<1>4. QED
  BY <1>1, <1>2, <1>3 DEF ProvisioningWork, Work, Steps, MaybeHost, Idle

\* What begins a reconcile that provisions.
LEMMA BeginProvisions ==
  ASSUME TypeInv, NEW m \in Machines, BeginProvisioning(m)
  PROVE  \E step \in {"get", "claim"}, h \in Hosts :
           /\ work' = ProvisioningWork(step, m, machineCache[m], MachineInformer!Fresh(m), h)
           /\ step = "claim" => /\ h \in ListedHost(m, machineCache[m])
                                /\ Claimable(machineCache[m], h)
           /\ step = "get" => h \in NamedHost(m, machineCache[m])
<1>1. machineCache[m] \in TartMachine
  BY DEF TypeInv, MachinesOK
<1>2. machineCache[m].specHostRef \in MaybeHost /\ machineCache[m].hostRef \in MaybeHost
  BY <1>1 DEF TartMachine
<1>3. ListedHost(m, machineCache[m]) \subseteq Hosts
  BY DEF ListedHost, Claimed, SelectFresh
<1>4. NamedHost(m, machineCache[m]) \subseteq Hosts
  BY <1>2 DEF NamedHost, MaybeHost
<1>5. QED
  BY <1>3, <1>4 DEF BeginProvisioning

\* The steps of the TartMachine controller.
LEMMA BeginType ==
  ASSUME TypeInv, NEW m \in Machines, BeginProvisioning(m) \/ BeginDeletion(m)
  PROVE  TypeInv'
<1>0. /\ machineCache[m] \in TartMachine
      /\ \A h \in Hosts : hostCache[h] \in TartHost
      /\ \A h \in Hosts : hostCache[h].hostID \in Nat
  BY DEF TypeInv, MachinesOK, HostsOK, TartHost
<1>1. CASE BeginProvisioning(m)
  <2>1. PICK step \in {"get", "claim"}, h \in Hosts :
          work' = ProvisioningWork(step, m, machineCache[m], MachineInformer!Fresh(m), h)
    BY <1>1, BeginProvisions
  <2>4. MachineInformer!Fresh(m) \in BOOLEAN
    BY DEF MachineInformer!Fresh
  <2>5. work' \in Work /\ work'.h \in Hosts /\ work'.step \in {"get", "claim"}
    BY <1>0, <2>1, <2>4, ProvisioningWorkType
  <2>6. WorkOK'
    BY <2>5 DEF WorkOK
  <2>7. QED
    BY <1>1, <2>6 DEF BeginProvisioning, TypeInv, HostsOK, MachinesOK, RestOK,
                      hostVars, machineVars
<1>2. CASE BeginDeletion(m)
  <2>1. PICK step \in {"stop", "removeFinalizer"}, h \in MaybeHost :
          /\ work' = DeletionWork(m, step, h)
          /\ step = "stop" => h \in Hosts
    BY <1>2 DEF BeginDeletion, HostToRelease, MaybeHost
  <2>2. MachineInformer!Fresh(m) \in BOOLEAN
        /\ (h # None /\ HostInformer!Fresh(h)) \in BOOLEAN
    BY DEF MachineInformer!Fresh, HostInformer!Fresh
  <2>3. (IF h = None THEN NoHost ELSE hostCache[h]) \in TartHost
    BY <1>0, RecordTypes DEF MaybeHost
  <2>4. work' \in Work /\ work'.step = step /\ work'.h = h
    BY <1>0, <2>1, <2>2, <2>3 DEF DeletionWork, Work, Steps, ClaimModes
  <2>5. WorkOK'
    BY <2>1, <2>4 DEF WorkOK
  <2>6. QED
    BY <1>2, <2>5 DEF BeginDeletion, TypeInv, HostsOK, MachinesOK, RestOK,
                      hostVars, machineVars
<1>3. QED
  BY <1>1, <1>2

\* The two outcomes of an Update of the host copy.
LEMMA UpdateType ==
  ASSUME TypeInv, work # Idle, work.h \in Hosts, NEW host \in TartHost,
         NEW done \in {"publish", "removeFinalizer"},
         NEW again \in {"refreshClaim", "refreshRetain"},
         UpdateAccepted(host, done) \/ UpdateRejected(again)
  PROVE  HostsOK' /\ WorkOK'
<1>1. CASE UpdateAccepted(host, done)
  <2>1. HostsOK'
    BY <1>1, HostWriteType DEF UpdateAccepted, TypeInv
  <2>2. work' \in Work /\ work'.h = work.h /\ work'.step = done
    <3>1. work \in Work /\ done \in Steps
      BY WorkEdits DEF TypeInv, Steps
    <3>2. work' = [work EXCEPT !.step = done, !.host = host]
      BY <1>1 DEF UpdateAccepted
    <3>3. QED
      BY <3>1, <3>2 DEF Work
  <2>3. QED
    BY <2>1, <2>2 DEF WorkOK
<1>2. CASE UpdateRejected(again)
  <2>1. HostsOK'
    BY <1>2 DEF UpdateRejected, hostVars, HostsOK, TypeInv
  <2>2. \/ work' = Idle
        \/ /\ work' \in Work /\ work'.h = work.h /\ work'.step = again
           /\ work'.attempt = work.attempt /\ work.attempt < claimAttempts
    BY <1>2, WorkEdits DEF UpdateRejected, TypeInv, Work, Steps
  <2>3. QED
    BY <2>1, <2>2 DEF WorkOK
<1>3. QED
  BY <1>1, <1>2

\* The TartMachine controller's steps keep the types.
LEMMA TartMachineStepType ==
  ASSUME TypeInv, TartMachineStep
  PROVE  TypeInv'
<1> USE DEF Steps
<1>0. /\ \A m \in Machines : machineCache[m] \in TartMachine
      /\ \A m \in Machines : machines[m] \in TartMachine
      /\ \A h \in Hosts : hostCache[h] \in TartHost
  BY DEF TypeInv, MachinesOK, HostsOK
<1>1. ASSUME NEW m \in Machines, AddMachineFinalizer(m)
      PROVE  TypeInv'
  <2>1. MachinesOK'
    BY <1>0, <1>1, MachineEdits, MachineWriteType DEF AddMachineFinalizer, TypeInv
  <2>2. QED
    BY <1>1, <2>1 DEF AddMachineFinalizer, TypeInv, HostsOK, WorkOK, RestOK, hostVars
<1>2. ASSUME work # Idle
      PROVE  /\ work \in Work
             /\ work.host \in TartHost /\ work.host.hostID \in Nat
             /\ work.machine \in TartMachine
             /\ work.m \in Machines
             /\ work.step # "removeFinalizer" => work.h \in Hosts
  <2>1. work \in Work
    BY <1>2, WorkEdits DEF TypeInv
  <2>2. work.host \in TartHost /\ work.machine \in TartMachine /\ work.m \in Machines
    BY <2>1 DEF Work
  <2>3. QED
    BY <1>2, <2>1, <2>2 DEF TypeInv, WorkOK, TartHost
<1>3. CASE ClaimHostWithRequest
  <2>1. work # Idle /\ work.step = "claim"
    BY <1>3 DEF ClaimHostWithRequest, Busy, Idle
  <2>2. [work.host EXCEPT !.consumer = work.m] \in TartHost
    BY <1>2, <2>1, HostEdits
  <2>3. HostsOK' /\ WorkOK'
    <3>1. CASE work' = Idle /\ UNCHANGED hostVars
      BY <3>1 DEF TypeInv, HostsOK, WorkOK, hostVars
    <3>2. CASE work' = [work EXCEPT !.step = "publish"] /\ UNCHANGED hostVars
      BY <1>2, <2>1, <3>2 DEF TypeInv, HostsOK, WorkOK, hostVars, Work, Idle
    <3>3. CASE \/ UpdateAccepted([work.host EXCEPT !.consumer = work.m], "publish")
               \/ UpdateRejected("refreshClaim")
      BY <1>2, <2>1, <2>2, <3>3, UpdateType
    <3>4. QED
      BY <1>3, <3>1, <3>2, <3>3 DEF ClaimHostWithRequest
  <2>4. QED
    BY <1>3, <2>3 DEF ClaimHostWithRequest, TypeInv, MachinesOK, RestOK, machineVars
<1>4. ASSUME NEW from \in {"refreshClaim", "refreshRetain"},
             NEW to \in {"claim", "retain"}, RefreshHost(from, to)
      PROVE  TypeInv'
  <2>1. work # Idle /\ work.step = from
    BY <1>4 DEF RefreshHost, Busy, Idle
  <2>2. work.h \in Hosts /\ work.attempt < claimAttempts
    BY <1>2, <2>1 DEF TypeInv, WorkOK
  <2>3. HostInformer!Fresh(work.h) \in BOOLEAN
    BY DEF HostInformer!Fresh
  <2>4. CASE hostCache[work.h].present
    <3>1. work' = [work EXCEPT !.step = to, !.host = hostCache[work.h],
                               !.hostFresh = HostInformer!Fresh(work.h),
                               !.attempt = work.attempt + 1]
      BY <1>4, <2>4 DEF RefreshHost
    <3>2. work' \in Work /\ work'.h = work.h /\ work'.step = to
      <4>1. work \in Work /\ work.attempt \in 1..3
        BY <1>2, <2>1 DEF Work
      <4>2. work.attempt + 1 \in 1..3
        BY <2>2, <4>1 DEF claimAttempts
      <4>3. hostCache[work.h] \in TartHost /\ to \in Steps
        BY <1>0, <2>2
      <4>4. QED
        BY <2>3, <3>1, <4>1, <4>2, <4>3 DEF Work
    <3>3. QED
      BY <1>4, <2>2, <3>2 DEF WorkOK, RefreshHost, TypeInv, HostsOK, MachinesOK,
                              RestOK, hostVars, machineVars
  <2>5. CASE ~hostCache[work.h].present
    BY <1>4, <2>5 DEF WorkOK, RefreshHost, TypeInv, HostsOK, MachinesOK,
                      RestOK, hostVars, machineVars
  <2>6. QED
    BY <2>4, <2>5
<1>5. CASE PublishProviderID
  <2> DEFINE published == [work.machine EXCEPT !.providerID = work.host.hostID]
  <2>1. work # Idle /\ work.step = "publish"
    BY <1>5 DEF PublishProviderID, Busy, Idle
  <2>2. published \in TartMachine
    BY <1>2, <2>1, MachineEdits
  <2>3. MachinesOK'
    <3>1. CASE UNCHANGED machineVars
      BY <3>1 DEF TypeInv, MachinesOK, machineVars
    <3>2. CASE MachineInformer!Write(work.m, published)
      BY <1>2, <2>1, <2>2, <3>2, MachineWriteType DEF TypeInv
    <3>3. QED
      BY <1>5, <3>1, <3>2 DEF PublishProviderID
  <2>4. WorkOK'
    <3>1. CASE work' = Idle
      BY <3>1 DEF WorkOK
    <3>2. CASE work' = [work EXCEPT !.step = "sync"]
      BY <1>2, <2>1, <3>2 DEF WorkOK, Work, Idle
    <3>3. CASE work' = [work EXCEPT !.step = "sync", !.machine = published]
      <4>1. work' \in Work /\ work'.h = work.h /\ work'.step = "sync"
        BY <1>2, <2>1, <2>2, <3>3 DEF Work
      <4>2. QED
        BY <1>2, <2>1, <4>1 DEF WorkOK
    <3>4. QED
      BY <1>5, <3>1, <3>2, <3>3 DEF PublishProviderID
  <2>5. QED
    BY <1>5, <2>3, <2>4 DEF PublishProviderID, TypeInv, HostsOK, RestOK, hostVars
<1>6. CASE SyncCAPIProviderID
  <2>1. work # Idle /\ work.step = "sync"
    BY <1>6 DEF SyncCAPIProviderID, Busy, Idle
  <2>2. WorkOK'
    <3>1. CASE work' = Idle
      BY <3>1 DEF WorkOK
    <3>2. CASE work' = [work EXCEPT !.step = "status"]
      BY <1>2, <2>1, <3>2 DEF WorkOK, Work, Idle
    <3>3. QED
      BY <1>6, <3>1, <3>2 DEF SyncCAPIProviderID
  <2>3. RestOK'
    BY <1>2, <1>6, <2>1 DEF SyncCAPIProviderID, TypeInv, RestOK
  <2>4. QED
    BY <1>6, <2>2, <2>3 DEF SyncCAPIProviderID, TypeInv, HostsOK, MachinesOK,
                            hostVars, machineVars
<1>7. CASE PublishStatus
  <2>1. work # Idle /\ work.step = "status"
    BY <1>7 DEF PublishStatus, Busy, Idle
  <2>2. [machines[work.m] EXCEPT !.hostRef = work.h] \in TartMachine
    BY <1>0, <1>2, <2>1, MachineEdits
  <2>3. MachinesOK'
    BY <1>2, <1>7, <2>1, <2>2, MachineWriteType
       DEF PublishStatus, TypeInv, MachinesOK, machineVars
  <2>4. QED
    BY <1>7, <2>3 DEF PublishStatus, TypeInv, HostsOK, WorkOK, RestOK, hostVars
<1>8. CASE ObserveHostStopped
  <2>1. work # Idle /\ work.step = "stop"
    BY <1>8 DEF ObserveHostStopped, Busy, Idle
  <2>2. WorkOK'
    BY <1>2, <1>8, <2>1 DEF ObserveHostStopped, WorkOK, Work, Idle
  <2>3. QED
    BY <1>8, <2>2 DEF ObserveHostStopped, TypeInv, HostsOK, MachinesOK, RestOK,
                      hostVars, machineVars
<1>9. CASE RetainHost
  <2>1. work # Idle /\ work.step = "retain"
    BY <1>9 DEF RetainHost, Busy, Idle
  <2>2. [work.host EXCEPT !.consumer = None, !.previous = work.m] \in TartHost
    BY <1>2, <2>1, HostEdits
  <2>3. HostsOK' /\ WorkOK'
    <3>1. CASE work' = Idle /\ UNCHANGED hostVars
      BY <3>1 DEF TypeInv, HostsOK, WorkOK, hostVars
    <3>2. CASE work' = [work EXCEPT !.step = "removeFinalizer"] /\ UNCHANGED hostVars
      BY <1>2, <2>1, <3>2 DEF TypeInv, HostsOK, WorkOK, hostVars, Work, Idle
    <3>3. CASE \/ UpdateAccepted([work.host EXCEPT !.consumer = None,
                                    !.previous = work.m], "removeFinalizer")
               \/ UpdateRejected("refreshRetain")
      BY <1>2, <2>1, <2>2, <3>3, UpdateType
    <3>4. QED
      BY <1>9, <3>1, <3>2, <3>3 DEF RetainHost
  <2>4. QED
    BY <1>9, <2>3 DEF RetainHost, TypeInv, MachinesOK, RestOK, machineVars
<1>10. CASE RemoveMachineFinalizer
  <2>1. work # Idle
    BY <1>10 DEF RemoveMachineFinalizer, Busy, Idle
  <2>2. MachinesOK'
    BY <1>2, <1>10, <2>1, RecordTypes, MachineWriteType
       DEF RemoveMachineFinalizer, TypeInv, MachinesOK, machineVars
  <2>3. QED
    BY <1>10, <2>2 DEF RemoveMachineFinalizer, TypeInv, HostsOK, WorkOK, RestOK, hostVars
<1>11. CASE Abort
  BY <1>11 DEF Abort, TypeInv, HostsOK, MachinesOK, WorkOK, RestOK,
               hostVars, machineVars
<1>12. CASE GetNamedHost
  <2>1. work # Idle /\ work.step = "get"
    BY <1>12 DEF GetNamedHost, Busy, Idle
  <2>2. work.machineFresh \in BOOLEAN /\ work.h \in Hosts
    BY <1>2, <2>1 DEF Work
  <2>3. \/ work' = Idle
        \/ work' = ProvisioningWork("claim", work.m, work.machine, work.machineFresh, work.h)
    BY <1>12 DEF GetNamedHost
  <2>4. work' = Idle \/ (work' \in Work /\ work'.h \in Hosts /\ work'.step = "claim")
    BY <1>2, <2>1, <2>2, <2>3, ProvisioningWorkType
  <2>5. QED
    BY <1>12, <2>4 DEF GetNamedHost, WorkOK, TypeInv, HostsOK, MachinesOK, RestOK,
                      hostVars, machineVars
<1>13. QED
  BY <1>1, <1>3, <1>4, <1>5, <1>6, <1>7, <1>8, <1>9, <1>10, <1>11, <1>12, BeginType
     DEF TartMachineStep

\* Every step keeps the types.
LEMMA TypeStep ==
  ASSUME TypeInv, [Next]_vars
  PROVE  TypeInv'
<1>1. CASE UserStep
  BY <1>1, UserStepType
<1>2. CASE TartHostStep
  BY <1>2, TartHostStepType
<1>3. CASE TartMachineStep
  BY <1>3, TartMachineStepType
<1>4. CASE DeliverHost
  BY <1>4, HostDeliverType DEF DeliverHost, TypeInv, MachinesOK, WorkOK, RestOK,
                               machineVars
<1>5. CASE DeliverMachine
  BY <1>5, MachineDeliverType DEF DeliverMachine, TypeInv, HostsOK, WorkOK, RestOK,
                                  hostVars
<1>6. CASE UNCHANGED vars
  BY <1>6 DEF vars, hostVars, machineVars, TypeInv, HostsOK, MachinesOK, WorkOK, RestOK
<1>7. QED
  BY <1>1, <1>2, <1>3, <1>4, <1>5, <1>6 DEF Next

\* Every behaviour of HostClaim is type-correct, in particular a reconcile in
\* flight always holds copies of an existing host and machine name and stays
\* within the three attempts of ClaimHostWithRequest and RetainHost.
THEOREM TypeCorrect == Spec => []TypeOK
<1>1. Init => TypeInv
  BY RecordTypes DEF Init, TypeInv, HostsOK, MachinesOK, WorkOK, RestOK
<1>2. TypeInv /\ [Next]_vars => TypeInv'
  BY TypeStep
<1>3. TypeInv => TypeOK
  BY DEF TypeInv, HostsOK, MachinesOK, WorkOK, RestOK, TypeOK
<1>4. QED
  BY <1>1, <1>2, <1>3, PTL DEF Spec
-----------------------------------------------------------------------------
(* The invariant behind the compare-and-swap: the version a reconcile      *)
(* holds, as long as no write has made it stale, is the stored object.     *)

HostCopyCurrent ==
  work # Idle /\ work.h \in Hosts /\ work.hostFresh
    => work.host = hosts[work.h] /\ work.host.present

CopyInv == TypeInv /\ HostInformer!Agree /\ HostCopyCurrent

\* Informer!Agree, of any objects: stored S, cached C, on their way E.
AgreeIn(S, C, E) ==
  /\ \A i \in 1..Len(E) :
       (\A j \in (i + 1)..Len(E) : E[j].key # E[i].key) => E[i].object = S[E[i].key]
  /\ \A k \in DOMAIN S : (\A i \in 1..Len(E) : E[i].key # k) => C[k] = S[k]

\* A write keeps the last event of every object equal to the stored object.
LEMMA AppendAgrees ==
  ASSUME NEW K, NEW V, NEW S \in [K -> V], NEW C \in [K -> V],
         NEW E \in Seq([key: K, object: V]), AgreeIn(S, C, E), NEW h \in K, NEW x \in V
  PROVE  AgreeIn([S EXCEPT ![h] = x], C, Append(E, [key |-> h, object |-> x]))
<1> DEFINE e == [key |-> h, object |-> x]
           n == Len(E)
           F == Append(E, e)
           T == [S EXCEPT ![h] = x]
<1>2. /\ n \in Nat /\ Len(F) = n + 1 /\ F[n + 1] = e
      /\ \A i \in 1..n : F[i] = E[i]
  OBVIOUS
<1>3. ASSUME NEW i \in 1..n PROVE E[i].key \in K
  <2>1. E[i] \in [key: K, object: V]
    BY <1>2, ElementOfSeq
  <2>2. QED
    BY <2>1
<1> HIDE DEF F
<1>4. ASSUME NEW i \in 1..(n + 1), \A j \in (i + 1)..(n + 1) : F[j].key # F[i].key
      PROVE  F[i].object = T[F[i].key]
  <2>1. CASE i = n + 1
    BY <1>2, <2>1
  <2>2. CASE i \in 1..n
    <3>1. F[i] = E[i] /\ E[i].key # h
      BY <1>2, <1>4, <2>2
    <3>2. \A j \in (i + 1)..n : E[j].key # E[i].key
      BY <1>2, <1>4, <2>2
    <3>3. E[i].object = S[E[i].key]
      BY <2>2, <3>2 DEF AgreeIn
    <3>4. QED
      BY <1>3, <2>2, <3>1, <3>3
  <2>3. QED
    BY <1>2, <2>1, <2>2
<1>5. ASSUME NEW k \in K, \A i \in 1..(n + 1) : F[i].key # k
      PROVE  C[k] = T[k]
  <2>1. k # h /\ \A i \in 1..n : E[i].key # k
    BY <1>2, <1>5
  <2>2. C[k] = S[k]
    BY <2>1 DEF AgreeIn
  <2>3. QED
    BY <2>1, <2>2
<1>6. DOMAIN T = K
  OBVIOUS
<1> HIDE DEF T
<1>7. AgreeIn(T, C, F)
  BY <1>2, <1>4, <1>5, <1>6 DEF AgreeIn
<1>8. QED
  BY <1>7 DEF T, F

\* So does a delivery, which moves the first event into the cache.
LEMMA TailAgrees ==
  ASSUME NEW K, NEW V, NEW S \in [K -> V], NEW C \in [K -> V],
         NEW E \in Seq([key: K, object: V]), AgreeIn(S, C, E), E # <<>>
  PROVE  AgreeIn(S, [C EXCEPT ![Head(E).key] = Head(E).object], Tail(E))
<1> DEFINE n == Len(E)
           e == Head(E)
           F == Tail(E)
           D == [C EXCEPT ![e.key] = e.object]
<1>2. /\ n \in Nat \ {0} /\ Len(F) = n - 1 /\ e = E[1]
      /\ \A i \in 1..(n - 1) : F[i] = E[i + 1]
  BY HeadTailProperties
<1>3. ASSUME NEW i \in 1..n PROVE E[i].key \in K
  <2>1. E[i] \in [key: K, object: V]
    BY <1>2, ElementOfSeq
  <2>2. QED
    BY <2>1
<1> HIDE DEF F
<1>4. ASSUME NEW i \in 1..(n - 1), \A j \in (i + 1)..(n - 1) : F[j].key # F[i].key
      PROVE  F[i].object = S[F[i].key]
  <2>1. i + 1 \in 1..n /\ F[i] = E[i + 1]
    BY <1>2
  <2>2. ASSUME NEW j \in (i + 2)..n
        PROVE  E[j].key # E[i + 1].key
    <3>1. j - 1 \in (i + 1)..(n - 1) /\ F[j - 1] = E[j]
      BY <1>2, <2>2
    <3>2. QED
      BY <1>4, <2>1, <3>1
  <2>3. E[i + 1].object = S[E[i + 1].key]
    BY <2>1, <2>2 DEF AgreeIn
  <2>4. QED
    BY <2>1, <2>3
<1>5. ASSUME NEW k \in K, \A i \in 1..(n - 1) : F[i].key # k
      PROVE  D[k] = S[k]
  <2>1. ASSUME NEW j \in 2..n
        PROVE  E[j].key # k
    <3>1. j - 1 \in 1..(n - 1) /\ F[j - 1] = E[j]
      BY <1>2, <2>1
    <3>2. QED
      BY <1>5, <3>1
  <2>2. CASE e.key = k
    <3>1. E[1].object = S[k]
      BY <1>2, <2>1, <2>2 DEF AgreeIn
    <3>2. QED
      BY <1>2, <2>2, <3>1
  <2>3. CASE e.key # k
    <3>1. \A i \in 1..n : E[i].key # k
      BY <1>2, <2>1, <2>3
    <3>2. C[k] = S[k]
      BY <3>1 DEF AgreeIn
    <3>3. QED
      BY <2>3, <3>2
  <2>4. QED
    BY <2>2, <2>3
<1> HIDE DEF D
<1>6. AgreeIn(S, D, F)
  BY <1>2, <1>4, <1>5 DEF AgreeIn
<1>7. QED
  BY <1>6 DEF D, F

\* The two for hosts,
LEMMA WriteAgree ==
  ASSUME HostsOK, HostInformer!Agree, NEW h \in Hosts, NEW host \in TartHost,
         HostInformer!Write(h, host)
  PROVE  HostInformer!Agree'
<1>1. AgreeIn(hosts, hostCache, hostEvents)
  BY DEF AgreeIn, HostInformer!Agree, HostInformer!Fresh
<1>2. AgreeIn(hosts', hostCache', hostEvents')
  BY <1>1, AppendAgrees DEF HostsOK, HostInformer!Write
<1>3. QED
  BY <1>2 DEF AgreeIn, HostInformer!Agree, HostInformer!Fresh

\* whose events are delivered,
LEMMA DeliverAgree ==
  ASSUME HostsOK, HostInformer!Agree, HostInformer!Deliver
  PROVE  HostInformer!Agree'
<1>1. AgreeIn(hosts, hostCache, hostEvents)
  BY DEF AgreeIn, HostInformer!Agree, HostInformer!Fresh
<1>2. AgreeIn(hosts', hostCache', hostEvents')
  BY <1>1, TailAgrees DEF HostsOK, HostInformer!Deliver
<1>3. QED
  BY <1>2 DEF AgreeIn, HostInformer!Agree, HostInformer!Fresh

\* and for machines.
LEMMA MachineWriteAgree ==
  ASSUME MachinesOK, MachineInformer!Agree, NEW m \in Machines, NEW x \in TartMachine,
         MachineInformer!Write(m, x)
  PROVE  MachineInformer!Agree'
<1>1. AgreeIn(machines, machineCache, machineEvents)
  BY DEF AgreeIn, MachineInformer!Agree, MachineInformer!Fresh
<1>2. AgreeIn(machines', machineCache', machineEvents')
  BY <1>1, AppendAgrees DEF MachinesOK, MachineInformer!Write
<1>3. QED
  BY <1>2 DEF AgreeIn, MachineInformer!Agree, MachineInformer!Fresh

\* A machine's event is delivered.
LEMMA MachineDeliverAgree ==
  ASSUME MachinesOK, MachineInformer!Agree, MachineInformer!Deliver
  PROVE  MachineInformer!Agree'
<1>1. AgreeIn(machines, machineCache, machineEvents)
  BY DEF AgreeIn, MachineInformer!Agree, MachineInformer!Fresh
<1>2. AgreeIn(machines', machineCache', machineEvents')
  BY <1>1, TailAgrees DEF MachinesOK, MachineInformer!Deliver
<1>3. QED
  BY <1>2 DEF AgreeIn, MachineInformer!Agree, MachineInformer!Fresh

-----------------------------------------------------------------------------
(* Every step keeps the invariant and is a step of HostBinding.            *)

StepOK == /\ HostInformer!Agree' /\ HostCopyCurrent'
          /\ Binding!Next \/ bindings' = bindings

\* A write changes the binding of its host only, to that of what is written.
LEMMA WriteBinding ==
  ASSUME HostsOK, NEW h \in Hosts, NEW host \in TartHost,
         HostInformer!Write(h, host)
  PROVE  bindings' = [bindings EXCEPT ![h] = BindingOf(host)]
BY DEF HostsOK, HostInformer!Write, bindings

\* A step that leaves the hosts alone, and in which the reconcile keeps its
\* copy or drops it.
LEMMA HostsUnchanged ==
  ASSUME CopyInv, UNCHANGED hostVars,
         \/ work' = work
         \/ work' = Idle
         \/ /\ work # Idle /\ work'.h = work.h /\ work'.host = work.host
            /\ work'.hostFresh = work.hostFresh
  PROVE  StepOK
<1>1. HostInformer!Agree' /\ bindings' = bindings
  BY DEF CopyInv, hostVars, HostInformer!Agree, HostInformer!Fresh, bindings
<1>2. HostCopyCurrent'
  BY DEF CopyInv, HostCopyCurrent, hostVars
<1>3. QED
  BY <1>1, <1>2 DEF StepOK

\* A write of somebody else: the reconcile's copy of that host becomes stale.
LEMMA OthersWriteStep ==
  ASSUME CopyInv, NEW h \in Hosts, NEW host \in TartHost, OthersWriteHost(h, host)
  PROVE  /\ HostInformer!Agree' /\ HostCopyCurrent'
         /\ bindings' = [bindings EXCEPT ![h] = BindingOf(host)]
<1>1. HostInformer!Agree'
  BY WriteAgree DEF CopyInv, TypeInv, OthersWriteHost
<1>2. bindings' = [bindings EXCEPT ![h] = BindingOf(host)]
  BY WriteBinding DEF CopyInv, TypeInv, OthersWriteHost
<1>3. hosts' = [hosts EXCEPT ![h] = host]
  BY DEF OthersWriteHost, HostInformer!Write
<1>4. HostCopyCurrent'
  <2>1. CASE work = Idle \/ work.h # h
    <3>1. work' = work
      BY <2>1 DEF OthersWriteHost
    <3>2. QED
      BY <1>3, <2>1, <3>1 DEF HostCopyCurrent, CopyInv, TypeInv, HostsOK
  <2>2. CASE work # Idle /\ work.h = h
    <3>1. work \in Work /\ work' = [work EXCEPT !.hostFresh = FALSE]
      BY <2>2, WorkEdits DEF OthersWriteHost, CopyInv, TypeInv
    <3>2. ~work'.hostFresh
      BY <3>1 DEF Work
    <3>3. QED
      BY <3>2 DEF HostCopyCurrent
  <2>3. QED
    BY <2>1, <2>2
<1>5. QED
  BY <1>1, <1>2, <1>4

\* A fresh cached object is the stored one.
LEMMA FreshIsStored ==
  ASSUME CopyInv, NEW h \in Hosts, HostInformer!Fresh(h)
  PROVE  hostCache[h] = hosts[h]
BY DEF CopyInv, TypeInv, HostsOK, HostInformer!Agree

\* Users' steps keep the copies current and map to the binding.
LEMMA UserStepCopy ==
  ASSUME CopyInv, UserStep
  PROVE  StepOK
<1>0. \A h \in Hosts : hosts[h] \in TartHost
  BY DEF CopyInv, TypeInv, HostsOK
<1>1. ASSUME NEW h \in Hosts, NEW host \in TartHost, EditHost(h, host),
             BindingOf(host) = BindingOf(hosts[h]) \/ Binding!Next
      PROVE  StepOK
  <2>1. /\ HostInformer!Agree' /\ HostCopyCurrent'
        /\ bindings' = [bindings EXCEPT ![h] = BindingOf(host)]
    BY <1>1, OthersWriteStep DEF EditHost
  <2>2. CASE BindingOf(host) = BindingOf(hosts[h])
    BY <2>1, <2>2 DEF StepOK, bindings
  <2>3. QED
    BY <1>1, <2>1, <2>2 DEF StepOK
<1>2. ASSUME NEW h \in Hosts, NEW i \in Identities, NEW fd \in FailureDomains,
             RegisterHost(h, i, fd)
      PROVE  StepOK
  <2>1. NewHost(i, fd) \in TartHost
    BY RecordTypes
  <2>2. /\ HostInformer!Agree' /\ HostCopyCurrent'
        /\ bindings' = [bindings EXCEPT ![h] = BindingOf(NewHost(i, fd))]
    BY <1>2, <2>1, OthersWriteStep DEF RegisterHost
  <2>3. BindingOf(NewHost(i, fd)) = Binding!Registered
    BY DEF BindingOf, NewHost, NoReuse, Binding!Registered, Binding!Unregistered
  <2>4. Binding!Register(h)
    BY <1>2, <2>2, <2>3 DEF RegisterHost, Binding!Register, Binding!Set, bindings, BindingOf
  <2>5. QED
    BY <2>2, <2>4 DEF StepOK, Binding!Next
<1>3. ASSUME NEW h \in Hosts, NEW fd \in FailureDomains, Relabel(h, fd)
      PROVE  StepOK
  <2>1. [hosts[h] EXCEPT !.failureDomain = fd] \in TartHost
    BY <1>0, HostEdits
  <2>2. BindingOf([hosts[h] EXCEPT !.failureDomain = fd]) = BindingOf(hosts[h])
    BY <1>0 DEF BindingOf, TartHost
  <2>3. QED
    BY <1>1, <1>3, <2>1, <2>2 DEF Relabel
<1>4. ASSUME NEW h \in Hosts, NEW mode \in ReuseModes, ApproveReuse(h, mode)
      PROVE  StepOK
  <2>1. PICK uid \in {hosts[h].consumer, hosts[h].previous} \ {None} :
          EditHost(h, [hosts[h] EXCEPT !.reuse = [uid |-> uid, mode |-> mode]])
    BY <1>4 DEF ApproveReuse
  <2> DEFINE host == [hosts[h] EXCEPT !.reuse = [uid |-> uid, mode |-> mode]]
  <2>2. hosts[h] \in TartHost /\ uid \in MaybeMachine /\ uid \in Machines
    BY <1>0 DEF TartHost, MaybeMachine
  <2>3. host \in TartHost
    BY <2>2, HostEdits
  <2>4. bindings' = [bindings EXCEPT ![h] = BindingOf(host)]
    BY <2>1, <2>3, OthersWriteStep DEF EditHost
  <2>5. BindingOf(host) = [BindingOf(hosts[h]) EXCEPT !.approved = uid]
    BY <2>2 DEF BindingOf, TartHost
  <2>6. /\ bindings[h] = BindingOf(hosts[h])
        /\ bindings[h].owner = hosts[h].consumer
        /\ bindings[h].last = hosts[h].previous
    BY DEF bindings, BindingOf
  <2>7. Binding!Approve(h, uid)
    BY <2>4, <2>5, <2>6 DEF Binding!Approve, Binding!Set
  <2>8. QED
    BY <1>1, <2>1, <2>2, <2>3, <2>7 DEF Binding!Next
<1>5. ASSUME NEW h \in Hosts, ApproveHostDeletion(h)
      PROVE  StepOK
  <2> DEFINE host == [hosts[h] EXCEPT !.deletionApproval =
           [consumer |-> hosts[h].consumer, previous |-> hosts[h].previous]]
  <2>1. host \in TartHost
    BY <1>0, HostEdits
  <2>2. BindingOf(host) = BindingOf(hosts[h])
    BY <1>0 DEF BindingOf, TartHost
  <2>3. QED
    BY <1>1, <1>5, <2>1, <2>2 DEF ApproveHostDeletion
<1>6. ASSUME NEW h \in Hosts, DeleteHost(h)
      PROVE  StepOK
  <2>1. CASE hosts[h].finalizer
    <3> DEFINE host == [hosts[h] EXCEPT !.deleting = TRUE]
    <3>1. host \in TartHost
      BY <1>0, HostEdits
    <3>2. BindingOf(host) = BindingOf(hosts[h])
      BY <1>0 DEF BindingOf, TartHost
    <3>3. QED
      BY <1>1, <1>6, <2>1, <3>1, <3>2 DEF DeleteHost
  <2>2. CASE ~hosts[h].finalizer
    <3>1. bindings' = [bindings EXCEPT ![h] = BindingOf(NoHost)]
      BY <1>6, <2>2, RecordTypes, OthersWriteStep DEF DeleteHost, EditHost
    <3>2. BindingOf(NoHost) = Binding!Unregistered
      BY DEF BindingOf, NoHost, NewHost, NoReuse, Binding!Unregistered
    <3>3. Binding!Forget(h)
      BY <1>6, <3>1, <3>2 DEF DeleteHost, EditHost, Binding!Forget, Binding!Set,
                              bindings, BindingOf
    <3>4. QED
      BY <1>1, <1>6, <2>2, <3>3, RecordTypes DEF DeleteHost, Binding!Next
  <2>3. QED
    BY <2>1, <2>2
<1>7. ASSUME NEW m \in Machines, NEW ref \in HostRefs, NEW fd \in Placements,
             CreateMachine(m, ref, fd)
      PROVE  StepOK
  BY <1>7, HostsUnchanged, WorkEdits
     DEF CreateMachine, OthersWriteMachine, CopyInv, TypeInv, Work
<1>8. ASSUME NEW m \in Machines, DeleteMachine(m)
      PROVE  StepOK
  BY <1>8, HostsUnchanged, WorkEdits
     DEF DeleteMachine, OthersWriteMachine, CopyInv, TypeInv, Work
<1>9. ASSUME NEW m \in Machines, CAPIDrained(m)
      PROVE  StepOK
  BY <1>9, HostsUnchanged DEF CAPIDrained
<1>10. ASSUME NEW h \in Hosts, NEW i \in Identities, Reidentify(h, i)
      PROVE  StepOK
  <2> DEFINE host == [hosts[h] EXCEPT !.identity = i, !.reidentified = TRUE]
  <2>1. host \in TartHost
    BY <1>0, HostEdits
  <2>2. BindingOf(host) = BindingOf(hosts[h])
    BY <1>0 DEF BindingOf, TartHost
  <2>3. QED
    BY <1>1, <1>10, <2>1, <2>2 DEF Reidentify
<1>11. QED
  BY <1>2, <1>3, <1>4, <1>5, <1>6, <1>7, <1>8, <1>9, <1>10 DEF UserStep

\* The TartHost controller's steps keep the copies current and map to the binding.
LEMMA TartHostStepCopy ==
  ASSUME CopyInv, TartHostStep
  PROVE  StepOK
<1>0. \A h \in Hosts : hosts[h] \in TartHost /\ bindings[h] = BindingOf(hosts[h])
  BY DEF CopyInv, TypeInv, HostsOK, bindings
<1>1. ASSUME NEW h \in Hosts, NEW host \in TartHost, OthersWriteHost(h, host),
             BindingOf(host) = BindingOf(hosts[h])
      PROVE  StepOK
  BY <1>1, OthersWriteStep DEF StepOK, bindings
<1>2. ASSUME NEW h \in Hosts, AssignHostID(h)
      PROVE  StepOK
  <2> DEFINE host == [hosts[h] EXCEPT !.hostID = nextHostID]
  <2>1. OthersWriteHost(h, host)
    BY <1>2, FreshIsStored DEF AssignHostID, HostLocked
  <2>2. host \in TartHost
    BY <1>0, HostEdits DEF CopyInv, TypeInv, RestOK
  <2>3. BindingOf(host) = BindingOf(hosts[h])
    BY <1>0 DEF BindingOf, TartHost
  <2>4. QED
    BY <1>1, <2>1, <2>2, <2>3
<1>3. ASSUME NEW h \in Hosts, AddHostFinalizer(h)
      PROVE  StepOK
  <2> DEFINE host == [hosts[h] EXCEPT !.finalizer = TRUE]
  <2>1. OthersWriteHost(h, host)
    BY <1>3, FreshIsStored DEF AddHostFinalizer, HostLocked
  <2>2. host \in TartHost
    BY <1>0, HostEdits
  <2>3. BindingOf(host) = BindingOf(hosts[h])
    BY <1>0 DEF BindingOf, TartHost
  <2>4. QED
    BY <1>1, <2>1, <2>2, <2>3
<1>4. ASSUME NEW h \in Hosts, PatchHostStatus(h)
      PROVE  StepOK
  BY <1>0, <1>1, <1>4 DEF PatchHostStatus
<1>5. ASSUME NEW h \in Hosts, FinalizeHost(h)
      PROVE  StepOK
  <2>1. OthersWriteHost(h, NoHost) /\ hosts[h].present
    BY <1>5, FreshIsStored DEF FinalizeHost, HostLocked
  <2>2. /\ HostInformer!Agree' /\ HostCopyCurrent'
        /\ bindings' = [bindings EXCEPT ![h] = BindingOf(NoHost)]
    BY <2>1, RecordTypes, OthersWriteStep
  <2>3. BindingOf(NoHost) = Binding!Unregistered
    BY DEF BindingOf, NoHost, NewHost, NoReuse, Binding!Unregistered
  <2>4. Binding!Forget(h)
    BY <2>1, <2>2, <2>3 DEF Binding!Forget, Binding!Set, bindings, BindingOf
  <2>5. QED
    BY <2>2, <2>4 DEF StepOK, Binding!Next
<1>6. QED
  BY <1>2, <1>3, <1>4, <1>5 DEF TartHostStep

\* An Update of the reconcile's own copy: rejected, or made to the version
\* the copy was taken from.
LEMMA UpdateCopy ==
  ASSUME CopyInv, work # Idle, work.h \in Hosts,
         NEW host \in TartHost, host.present, NEW step \in Steps,
         UpdateAccepted(host, step)
  PROVE  /\ HostInformer!Agree' /\ HostCopyCurrent'
         /\ work.host = hosts[work.h]
         /\ bindings' = [bindings EXCEPT ![work.h] = BindingOf(host)]
<1>1. work \in Work
  BY WorkEdits DEF CopyInv, TypeInv
<1>2. /\ work.hostFresh /\ HostInformer!Write(work.h, host)
      /\ work' = [work EXCEPT !.step = step, !.host = host]
  BY DEF UpdateAccepted
<1>3. work'.host = host /\ work'.h = work.h
  BY <1>1, <1>2 DEF Work
<1>4. hosts'[work.h] = host
  BY <1>2 DEF HostInformer!Write, CopyInv, TypeInv, HostsOK
<1>5. HostCopyCurrent'
  BY <1>3, <1>4 DEF HostCopyCurrent
<1>6. HostInformer!Agree'
  BY <1>2, WriteAgree DEF CopyInv, TypeInv
<1>7. bindings' = [bindings EXCEPT ![work.h] = BindingOf(host)]
  BY <1>2, WriteBinding DEF CopyInv, TypeInv
<1>8. work.host = hosts[work.h]
  BY <1>2 DEF CopyInv, HostCopyCurrent
<1>9. QED
  BY <1>5, <1>6, <1>7, <1>8

\* A rejected update changes no host, and the copies stay current.
LEMMA UpdateRejectedCopy ==
  ASSUME CopyInv, work # Idle, NEW step \in Steps, UpdateRejected(step)
  PROVE  StepOK
<1>1. work \in Work
  BY WorkEdits DEF CopyInv, TypeInv
<1>2. \/ work' = Idle
      \/ /\ work'.h = work.h /\ work'.host = work.host
         /\ work'.hostFresh = work.hostFresh
  BY <1>1 DEF UpdateRejected, Work
<1>3. QED
  BY <1>2, HostsUnchanged DEF UpdateRejected

\* A reconcile that begins holds a current copy, or knows that it is overtaken.
LEMMA BeginCopy ==
  ASSUME CopyInv, NEW m \in Machines, BeginProvisioning(m) \/ BeginDeletion(m)
  PROVE  StepOK
<1>1. CASE BeginProvisioning(m)
  <2>1. PICK step \in {"get", "claim"}, h \in Hosts :
          work' = ProvisioningWork(step, m, machineCache[m], MachineInformer!Fresh(m), h)
    BY <1>1, BeginProvisions DEF CopyInv
  <2>2. machineCache[m] \in TartMachine /\ MachineInformer!Fresh(m) \in BOOLEAN
    BY DEF CopyInv, TypeInv, MachinesOK, MachineInformer!Fresh
  <2>3. /\ work'.h = h /\ work'.host = hostCache[h]
        /\ work'.hostFresh = (hostCache[h].present /\ HostInformer!Fresh(h))
    BY <2>1, <2>2, ProvisioningWorkType DEF CopyInv
  <2>4. UNCHANGED hostVars
    BY <1>1 DEF BeginProvisioning
  <2>5. HostCopyCurrent'
    BY <2>3, <2>4, FreshIsStored DEF HostCopyCurrent, hostVars
  <2>6. QED
    BY <2>4, <2>5, HostsUnchanged DEF StepOK, CopyInv, hostVars, bindings,
                                      HostInformer!Agree, HostInformer!Fresh
<1>2. CASE BeginDeletion(m)
  <2>1. UNCHANGED hostVars
    BY <1>2 DEF BeginDeletion
  <2>2. HostCopyCurrent'
    <3>1. CASE work' = DeletionWork(m, "removeFinalizer", None)
      BY <3>1, HostsAssumption DEF HostCopyCurrent, DeletionWork
    <3>2. ASSUME NEW h \in HostToRelease(m, machineCache[m]),
                 work' = DeletionWork(m, "stop", h)
          PROVE  HostCopyCurrent'
      <4>1. h \in Hosts /\ h # None /\ hostCache[h].present
        BY HostsAssumption DEF HostToRelease, Claimed
      <4>2. /\ work'.h = h /\ work'.host = hostCache[h]
            /\ work'.hostFresh = (h # None /\ HostInformer!Fresh(h))
        BY <3>2, <4>1 DEF DeletionWork
      <4>3. work'.hostFresh => HostInformer!Fresh(h)
        BY <4>2
      <4>4. QED
        BY <2>1, <4>1, <4>2, <4>3, FreshIsStored DEF HostCopyCurrent, hostVars
    <3>3. QED
      BY <1>2, <3>1, <3>2 DEF BeginDeletion
  <2>3. QED
    BY <2>1, <2>2 DEF StepOK, CopyInv, hostVars, bindings,
                      HostInformer!Agree, HostInformer!Fresh
<1>3. QED
  BY <1>1, <1>2

\* The TartMachine controller's steps keep the copies current and map to the binding.
LEMMA TartMachineStepCopy ==
  ASSUME CopyInv, TartMachineStep
  PROVE  StepOK
<1> USE DEF Steps
<1>0. ASSUME work # Idle
      PROVE  /\ work \in Work /\ work.m \in Machines /\ work.host \in TartHost
             /\ work.step # "removeFinalizer" => work.h \in Hosts
  <2>1. work \in Work
    BY <1>0, WorkEdits DEF CopyInv, TypeInv
  <2>2. QED
    BY <1>0, <2>1 DEF CopyInv, TypeInv, WorkOK, Work
<1>1. ASSUME NEW s \in Steps, work # Idle, UNCHANGED hostVars,
             \/ work' = Idle
             \/ work' = [work EXCEPT !.step = s]
             \/ \E x \in TartMachine : work' = [work EXCEPT !.step = s, !.machine = x]
      PROVE  StepOK
  <2>1. \/ work' = Idle
        \/ /\ work'.h = work.h /\ work'.host = work.host
           /\ work'.hostFresh = work.hostFresh
    BY <1>0, <1>1 DEF Work
  <2>2. QED
    BY <1>1, <2>1, HostsUnchanged
<1>2. ASSUME NEW m \in Machines, AddMachineFinalizer(m)
      PROVE  StepOK
  BY <1>2, HostsUnchanged DEF AddMachineFinalizer
<1>3. CASE ClaimHostWithRequest
  <2> DEFINE host == [work.host EXCEPT !.consumer = work.m]
  <2>1. work # Idle /\ work.step = "claim" /\ work.h \in Hosts
    BY <1>0, <1>3 DEF ClaimHostWithRequest, Busy, Idle
  <2>2. CASE work' = Idle /\ UNCHANGED hostVars
    BY <1>1, <2>1, <2>2
  <2>3. CASE work' = [work EXCEPT !.step = "publish"] /\ UNCHANGED hostVars
    BY <1>1, <2>1, <2>3
  <2>4. CASE UpdateRejected("refreshClaim")
    BY <2>1, <2>4, UpdateRejectedCopy
  <2>5. CASE /\ DecideClaim(work.host, work.m) = "apply"
             /\ ValidateClaimCandidate(work.host, ClaimRequest)
             /\ UpdateAccepted(host, "publish")
    <3>1. work.hostFresh
      BY <2>5 DEF UpdateAccepted
    <3>2. work.host = hosts[work.h] /\ work.host.present
      BY <2>1, <3>1 DEF CopyInv, HostCopyCurrent
    <3>3. host \in TartHost /\ host.present
      <4>1. work.host \in TartHost /\ work.m \in Machines
        BY <1>0, <2>1
      <4>2. host \in TartHost
        BY <4>1, HostEdits
      <4>3. host.present = work.host.present
        BY <4>1 DEF TartHost
      <4>4. QED
        BY <3>2, <4>2, <4>3
    <3>4. /\ HostInformer!Agree' /\ HostCopyCurrent'
          /\ bindings' = [bindings EXCEPT ![work.h] = BindingOf(host)]
      BY <2>1, <2>5, <3>3, UpdateCopy
    <3>5. work.host.consumer = None
      BY <2>5 DEF DecideClaim
    <3>6. work.host.previous # None => work.host.reuse.uid = work.host.previous
      BY <2>5, <3>5 DEF ValidateClaimCandidate, Classify, ReuseApproved
    <3>7. BindingOf(host) = [BindingOf(hosts[work.h]) EXCEPT !.owner = work.m]
      BY <1>0, <2>1, <3>2 DEF BindingOf, TartHost
    <3>8. bindings[work.h] = BindingOf(hosts[work.h])
      BY <2>1 DEF bindings
    <3>9. /\ bindings[work.h].registered
          /\ bindings[work.h].owner = None
          /\ bindings[work.h].last # None
               => bindings[work.h].approved = bindings[work.h].last
      BY <3>2, <3>5, <3>6, <3>8 DEF BindingOf
    <3>10. Binding!Claim(work.h, work.m)
      BY <3>4, <3>7, <3>8, <3>9 DEF Binding!Claim, Binding!Set
    <3>11. QED
      BY <1>0, <2>1, <3>4, <3>10 DEF StepOK, Binding!Next
  <2>6. QED
    BY <1>3, <2>2, <2>3, <2>4, <2>5 DEF ClaimHostWithRequest
<1>4. ASSUME NEW from \in {"refreshClaim", "refreshRetain"},
             NEW to \in {"claim", "retain"}, RefreshHost(from, to)
      PROVE  StepOK
  <2>1. work # Idle /\ work.step = from /\ UNCHANGED hostVars
    BY <1>4 DEF RefreshHost, Busy, Idle
  <2>2. work \in Work /\ work.h \in Hosts
    BY <1>0, <2>1
  <2>3. CASE ~hostCache[work.h].present
    BY <1>1, <1>4, <2>1, <2>3 DEF RefreshHost
  <2>4. CASE hostCache[work.h].present
    <3>1. work' = [work EXCEPT !.step = to, !.host = hostCache[work.h],
                               !.hostFresh = HostInformer!Fresh(work.h),
                               !.attempt = work.attempt + 1]
      BY <1>4, <2>4 DEF RefreshHost
    <3>2. /\ work'.h = work.h /\ work'.host = hostCache[work.h]
          /\ work'.hostFresh = HostInformer!Fresh(work.h)
      BY <2>2, <3>1 DEF Work
    <3>3. HostCopyCurrent'
      BY <2>1, <2>2, <2>4, <3>2, FreshIsStored DEF HostCopyCurrent, hostVars
    <3>4. QED
      BY <2>1, <3>3 DEF StepOK, CopyInv, hostVars, bindings,
                        HostInformer!Agree, HostInformer!Fresh
  <2>5. QED
    BY <2>3, <2>4
<1>5. CASE PublishProviderID
  <2>1. work # Idle /\ work.step = "publish"
    BY <1>5 DEF PublishProviderID, Busy, Idle
  <2>2. work.machine \in TartMachine /\ work.host.hostID \in Nat
    BY <1>0, <2>1 DEF Work, TartHost
  <2>3. [work.machine EXCEPT !.providerID = work.host.hostID] \in TartMachine
    BY <2>2, MachineEdits
  <2>4. QED
    BY <1>1, <1>5, <2>1, <2>3 DEF PublishProviderID
<1>6. CASE SyncCAPIProviderID
  <2>1. work # Idle /\ UNCHANGED hostVars
    BY <1>6 DEF SyncCAPIProviderID, Busy, Idle
  <2>2. work' = Idle \/ work' = [work EXCEPT !.step = "status"]
    BY <1>6 DEF SyncCAPIProviderID
  <2>3. QED
    BY <1>1, <2>1, <2>2
<1>7. CASE PublishStatus
  BY <1>1, <1>7 DEF PublishStatus, Busy, Idle
<1>8. CASE ObserveHostStopped
  <2>1. work # Idle /\ UNCHANGED hostVars
    BY <1>8 DEF ObserveHostStopped, Busy, Idle
  <2>2. work' = [work EXCEPT !.step = "retain"]
    BY <1>8 DEF ObserveHostStopped
  <2>3. QED
    BY <1>1, <2>1, <2>2
<1>9. CASE RetainHost
  <2> DEFINE host == [work.host EXCEPT !.consumer = None, !.previous = work.m]
  <2>1. work # Idle /\ work.step = "retain" /\ work.h \in Hosts
    BY <1>0, <1>9 DEF RetainHost, Busy, Idle
  <2>2. CASE work' = Idle /\ UNCHANGED hostVars
    BY <1>1, <2>1, <2>2
  <2>3. CASE work' = [work EXCEPT !.step = "removeFinalizer"] /\ UNCHANGED hostVars
    BY <1>1, <2>1, <2>3
  <2>4. CASE UpdateRejected("refreshRetain")
    BY <2>1, <2>4, UpdateRejectedCopy
  <2>5. CASE /\ DecideRetention(work.host, work.m) = "apply"
             /\ UpdateAccepted(host, "removeFinalizer")
    <3>1. work.hostFresh
      BY <2>5 DEF UpdateAccepted
    <3>2. work.host = hosts[work.h] /\ work.host.present
      BY <2>1, <3>1 DEF CopyInv, HostCopyCurrent
    <3>3. host \in TartHost /\ host.present
      <4>1. work.host \in TartHost /\ work.m \in Machines
        BY <1>0, <2>1
      <4>2. host \in TartHost
        BY <4>1, HostEdits
      <4>3. host.present = work.host.present
        BY <4>1 DEF TartHost
      <4>4. QED
        BY <3>2, <4>2, <4>3
    <3>4. /\ HostInformer!Agree' /\ HostCopyCurrent'
          /\ bindings' = [bindings EXCEPT ![work.h] = BindingOf(host)]
      BY <2>1, <2>5, <3>3, UpdateCopy
    <3>5. work.host.consumer = work.m /\ work.m # None
      BY <1>0, <2>1, <2>5, NoneAssumption DEF DecideRetention
    <3>6. BindingOf(host) = [BindingOf(hosts[work.h]) EXCEPT !.owner = None,
                                                           !.last = work.m]
      <4>1. work.host \in TartHost
        BY <1>0, <2>1
      <4>2. /\ host.present = work.host.present /\ host.consumer = None
            /\ host.previous = work.m /\ host.reuse = work.host.reuse
        BY <4>1 DEF TartHost
      <4>3. BindingOf(host) = [registered |-> work.host.present, owner |-> None,
                               last |-> work.m, approved |-> work.host.reuse.uid]
        BY <4>2 DEF BindingOf
      <4> DEFINE R == [registered: BOOLEAN, owner: MaybeMachine, last: MaybeMachine,
                       approved: MaybeMachine]
                 b == BindingOf(hosts[work.h])
                 c == [b EXCEPT !.owner = None, !.last = work.m]
      <4>4. b \in R /\ work.m \in MaybeMachine /\ None \in MaybeMachine
        BY <1>0, <2>1, <3>2, <4>1 DEF BindingOf, TartHost, MaybeMachine
      <4>5. /\ b.registered = work.host.present
            /\ b.approved = work.host.reuse.uid
        BY <3>2 DEF BindingOf
      <4> HIDE DEF b
      <4>6. c \in R
        BY <4>4
      <4>7. /\ c.registered = b.registered /\ c.owner = None /\ c.last = work.m
            /\ c.approved = b.approved
        BY <4>4
      <4> HIDE DEF c
      <4>8. c = [registered |-> work.host.present, owner |-> None,
                 last |-> work.m, approved |-> work.host.reuse.uid]
        BY <4>5, <4>6, <4>7
      <4>9. QED
        BY <4>3, <4>8 DEF b, c
    <3>7. /\ bindings[work.h] = BindingOf(hosts[work.h])
          /\ bindings[work.h].owner = work.m
      BY <2>1, <3>2, <3>5 DEF bindings, BindingOf
    <3>8. Binding!Release(work.h)
      BY <3>4, <3>5, <3>6, <3>7 DEF Binding!Release, Binding!Set
    <3>9. QED
      BY <2>1, <3>4, <3>8 DEF StepOK, Binding!Next
  <2>6. QED
    BY <1>9, <2>2, <2>3, <2>4, <2>5 DEF RetainHost
<1>10. CASE RemoveMachineFinalizer
  BY <1>1, <1>10 DEF RemoveMachineFinalizer, Busy, Idle
<1>11. CASE Abort
  BY <1>1, <1>11 DEF Abort
<1>12. CASE GetNamedHost
  <2>1. work # Idle /\ UNCHANGED hostVars /\ work.step = "get"
    BY <1>12 DEF GetNamedHost, Busy, Idle
  <2>2. CASE work' = Idle
    BY <1>1, <2>1, <2>2
  <2>3. CASE work' = ProvisioningWork("claim", work.m, work.machine, work.machineFresh, work.h)
    <3>1. work.h \in Hosts /\ work.machine \in TartMachine /\ work.machineFresh \in BOOLEAN
      BY <1>0, <2>1 DEF Work
    <3>2. /\ work'.h = work.h /\ work'.host = hostCache[work.h]
          /\ work'.hostFresh = (hostCache[work.h].present /\ HostInformer!Fresh(work.h))
      BY <1>0, <2>1, <2>3, <3>1, ProvisioningWorkType DEF CopyInv
    <3>3. HostCopyCurrent'
      BY <2>1, <3>2, FreshIsStored DEF HostCopyCurrent, hostVars
    <3>4. QED
      BY <2>1, <3>3 DEF StepOK, CopyInv, hostVars, bindings, HostInformer!Agree, HostInformer!Fresh
  <2>4. QED
    BY <1>12, <2>2, <2>3 DEF GetNamedHost
<1>13. QED
  BY <1>2, <1>3, <1>4, <1>5, <1>6, <1>7, <1>8, <1>9, <1>10, <1>11, <1>12, BeginCopy
     DEF TartMachineStep

\* The copies are current at the start,
LEMMA CopyInit == Init => CopyInv
<1> SUFFICES ASSUME Init PROVE CopyInv
  OBVIOUS
<1>1. TypeInv
  BY RecordTypes DEF Init, TypeInv, HostsOK, MachinesOK, WorkOK, RestOK
<1>2. HostInformer!Agree
  BY DEF Init, HostInformer!Agree, HostInformer!Fresh
<1>3. QED
  BY <1>1, <1>2 DEF Init, CopyInv, HostCopyCurrent

\* stay so, and every step is one of the binding.
LEMMA CopyStep == CopyInv /\ [Next]_vars => CopyInv' /\ [Binding!Next]_bindings
<1> SUFFICES ASSUME CopyInv, [Next]_vars PROVE TypeInv' /\ StepOK
  BY DEF StepOK, CopyInv
<1>1. TypeInv'
  BY TypeStep DEF CopyInv
<1>2. CASE UserStep
  BY <1>1, <1>2, UserStepCopy
<1>3. CASE TartHostStep
  BY <1>1, <1>3, TartHostStepCopy
<1>4. CASE TartMachineStep
  BY <1>1, <1>4, TartMachineStepCopy
<1>5. CASE DeliverHost
  BY <1>1, <1>5, DeliverAgree
     DEF DeliverHost, CopyInv, TypeInv, StepOK, HostCopyCurrent, bindings,
         HostInformer!Deliver
<1>6. CASE DeliverMachine
  BY <1>1, <1>6, HostsUnchanged DEF DeliverMachine
<1>7. CASE UNCHANGED vars
  BY <1>1, <1>7, HostsUnchanged DEF vars
<1>8. QED
  BY <1>2, <1>3, <1>4, <1>5, <1>6, <1>7 DEF Next

\* Allocation and release, on stale caches and with retries and crashes,
\* implement the abstract binding: no schedule of ClaimHostWithRequest,
\* RetainHost and the writes of the others takes a host away from its owner
\* or hands a used host on without the approval that names its last owner.
THEOREM Implements == Spec => ImplementsHostBinding
<1>1. Init => CopyInv /\ Binding!Init
  <2> SUFFICES ASSUME Init PROVE Binding!Init
    BY CopyInit
  <2>1. BindingOf(NoHost) = Binding!Unregistered
    BY DEF BindingOf, NoHost, NewHost, NoReuse, Binding!Unregistered
  <2>2. QED
    BY <2>1 DEF Init, Binding!Init, bindings
<1>2. QED
  BY <1>1, CopyStep, PTL DEF Spec, ImplementsHostBinding, Binding!Spec

-----------------------------------------------------------------------------
(* Ownership.  What is known of all the copies of a host and of a machine  *)
(* that exist: stored, cached, on their way, in the reconcile in flight.   *)

\* Every copy of a host.
Views(h) ==
  {hosts[h], hostCache[h]}
    \union {hostEvents[i].object : i \in {j \in 1..Len(hostEvents) : hostEvents[j].key = h}}
    \union (IF work # Idle /\ work.h = h THEN {work.host} ELSE {})

\* Every copy of a machine but the reconcile's.
MachineViews(m) ==
  {machines[m], machineCache[m]}
    \union {machineEvents[i].object :
              i \in {j \in 1..Len(machineEvents) : machineEvents[j].key = m}}

\* Only registered hosts have a HostID, only named ones a consumer, and the
\* HostIDs in use have been handed out.
Sound ==
  \A h \in Hosts : \A v \in Views(h) :
    /\ v.hostID < nextHostID
    /\ v.hostID # 0 => v.present
    /\ v.consumer # None => v.hostID # 0

\* A HostID tells the host,
Unique ==
  \A h, g \in Hosts : \A v \in Views(h), u \in Views(g) :
    v.hostID # 0 /\ v.hostID = u.hostID => h = g

\* and the identity it was registered with, as long as it has that one.
Known ==
  \A h \in Hosts : \A v \in Views(h) :
    v.hostID # 0 /\ v.hostID = hosts[h].hostID /\ ~hosts[h].reidentified
      => v.identity = hosts[h].identity

\* A host that still has its registered identity has kept it.
KeepsIdentity(x, y) == ~y.reidentified => ~x.reidentified /\ y.identity = x.identity

\* Of a claimed host there is no copy from before it got its HostID.
Held ==
  \A h \in Hosts : hosts[h].consumer # None =>
    \A v \in Views(h) : v.hostID = hosts[h].hostID

\* Nor is one delivered before a copy in which it is claimed.
Behind ==
  \A i \in 1..Len(hostEvents) :
    LET e == hostEvents[i]
    IN e.object.consumer # None =>
         /\ hostCache[e.key].hostID = e.object.hostID
         /\ \A j \in 1..(i - 1) : hostEvents[j].key = e.key
              => hostEvents[j].object.hostID = e.object.hostID

HostFacts == Sound /\ Unique /\ Known /\ Held /\ Behind

\* Whatever copy shows the machine as the consumer, it still is, unless the
\* host has been registered anew.
Kept(m) ==
  \A h \in Hosts : \A v \in Views(h) :
    v.consumer = m /\ v.hostID = hosts[h].hostID => hosts[h].consumer = m

\* All copies of a host whose version the reconcile holds have one HostID.
Settled ==
  work # Idle /\ work.h \in Hosts /\ work.hostFresh
    => \A v \in Views(work.h) : v.hostID = work.host.hostID

Past(machine) == machine.phase \in {"deleting", "gone"}

\* A host is released only for a machine whose deletion has been cached.
Retained == \A m \in Machines : ~Past(machineCache[m]) => Kept(m)

\* What happens to a machine in the course of time.
Later(x, y) ==
  \/ x.phase = "absent" \/ y.phase = "gone"
  \/ /\ x.phase \in {"live", "deleting"} /\ y.phase \in {"live", "deleting"}
     /\ x.specHostRef = y.specHostRef /\ x.failureDomain = y.failureDomain
     /\ x.finalizer => y.finalizer
     /\ x.providerID # 0 => y.providerID = x.providerID
     /\ Past(x) => Past(y)

\* Stored machines are the latest, and one that a copy shows to be held by its
\* finalizer has not gone.
Latest ==
  \A m \in Machines : \A v \in MachineViews(m) :
    /\ Later(v, machines[m])
    /\ v.phase = "live" /\ v.finalizer => machines[m].phase # "gone"

\* The watch delivers no copy of a live machine after one of its deletion.
InOrder ==
  \A i \in 1..Len(machineEvents) :
    LET e == machineEvents[i]
    IN /\ Past(machineCache[e.key]) => Past(e.object)
       /\ \A j \in 1..(i - 1) : machineEvents[j].key = e.key /\ Past(machineEvents[j].object)
            => Past(e.object)

MachineCopyCurrent == work # Idle /\ work.machineFresh => work.machine = machines[work.m]

MachineFacts == MachineInformer!Agree /\ Latest /\ InOrder /\ MachineCopyCurrent

Claiming == {"claim", "refreshClaim"}
Publishing == {"publish", "sync", "status"}
Releasing == {"stop", "retain", "refreshRetain", "removeFinalizer"}

\* A reconcile that has listed the hosts and goes on to read one by its name.
Reading ==
  work.step = "get" =>
    /\ Kept(work.m)
    /\ work.machine.phase = "live" /\ work.machine.finalizer
    /\ Later(work.machine, machines[work.m]) /\ machines[work.m].phase # "gone"
    /\ work.machine.hostRef = None => work.machine.specHostRef = work.h

\* A host that the machine neither names nor has is no duplicate of a claimed one.
Distinct ==
  /\ work.machine.specHostRef # work.h /\ hosts[work.h].consumer # work.m
  /\ hosts[work.h].hostID = work.expectedHostID
  => \A g \in Hosts : hosts[g].consumer # None => ~Duplicates(work.h, g)

\* A reconcile that provisions: the host it expects is the only one it can
\* find itself to hold, and is no duplicate that the selection came upon.
Candidate ==
  work.step \in Claiming \union Publishing =>
    /\ work.expectedHostID # 0 /\ work.expectedHostID < nextHostID
    /\ \A v \in Views(work.h) : v.consumer # None => v.hostID = work.expectedHostID
    /\ Kept(work.m)
    /\ work.step \in Claiming => Distinct
    /\ work.step \in Publishing => work.host.consumer = work.m

\* Its machine is held by the finalizer, and gets the name of that host.
Tended ==
  work.step \in Claiming \union Publishing =>
    /\ work.machine.phase = "live" /\ work.machine.finalizer
    /\ Later(work.machine, machines[work.m]) /\ machines[work.m].phase # "gone"
    /\ work.machine.providerID \in {0, work.expectedHostID}
    /\ work.mode = "ExplicitReusable" => work.machine.specHostRef = work.h
    /\ work.step \in {"sync", "status"} => machines[work.m].providerID = work.expectedHostID

\* A reconcile that releases: every copy of its machine is of its deletion.
Deleting == work.step \in Releasing => \A v \in MachineViews(work.m) : Past(v)

\* What the published names say.
Names ==
  \A m \in Machines :
    /\ machines[m].providerID < nextHostID
    /\ machines[m].phase = "absent" => machines[m].providerID = 0
    /\ capi[m].providerID # 0 =>
         machines[m].phase = "gone" \/ machines[m].providerID = capi[m].providerID
    /\ machines[m].hostRef # None => machines[m].providerID # 0
    /\ machines[m].providerID # 0 => \A h \in Hosts :
         hosts[h].hostID = machines[m].providerID =>
           /\ machines[m].hostRef \in {None, h}
           /\ ~Past(machines[m]) => hosts[h].consumer = m

Ownership ==
  /\ HostFacts /\ Settled /\ Retained /\ MachineFacts
  /\ Reading /\ Candidate /\ Tended /\ Deleting /\ Names

-----------------------------------------------------------------------------
(* The copies of hosts.                                                    *)

\* Copies are typed.
LEMMA ViewsType ==
  ASSUME TypeInv, NEW h \in Hosts
  PROVE  /\ Views(h) \subseteq TartHost
         /\ hosts[h] \in Views(h) /\ hostCache[h] \in Views(h)
         /\ \A v \in Views(h) : v.hostID \in Nat
<1>1. \A i \in 1..Len(hostEvents) : hostEvents[i] \in [key: Hosts, object: TartHost]
  BY ElementOfSeq DEF TypeInv, HostsOK
<1>2. work # Idle => work.host \in TartHost
  BY DEF TypeInv, WorkOK, Work
<1>3. Views(h) \subseteq TartHost
  BY <1>1, <1>2 DEF Views, TypeInv, HostsOK
<1>4. QED
  BY <1>3 DEF Views, TartHost

\* A write adds the copy that is written,
LEMMA WriteViews ==
  ASSUME HostsOK, NEW k \in Hosts, NEW x \in TartHost, HostInformer!Write(k, x),
         \/ work' = Idle
         \/ /\ work # Idle /\ work'.h = work.h
            /\ work'.host = work.host \/ (work.h = k /\ work'.host = x),
         NEW h \in Hosts
  PROVE  Views(h)' \subseteq Views(h) \union (IF h = k THEN {x} ELSE {})
<1> DEFINE n == Len(hostEvents)
<1>1. /\ hosts' = [hosts EXCEPT ![k] = x] /\ hostCache' = hostCache
      /\ hostEvents' = Append(hostEvents, [key |-> k, object |-> x])
  BY DEF HostInformer!Write
<1>2. /\ n \in Nat /\ Len(hostEvents') = n + 1
      /\ hostEvents'[n + 1] = [key |-> k, object |-> x]
      /\ \A i \in 1..n : hostEvents'[i] = hostEvents[i]
  BY <1>1 DEF HostsOK
<1>3. hosts'[h] = IF h = k THEN x ELSE hosts[h]
  BY <1>1 DEF HostsOK
<1>4. ASSUME NEW i \in 1..(n + 1), hostEvents'[i].key = h
      PROVE  hostEvents'[i].object \in Views(h) \union (IF h = k THEN {x} ELSE {})
  <2>1. CASE i = n + 1
    BY <1>2, <1>4, <2>1
  <2>2. CASE i \in 1..n
    BY <1>2, <1>4, <2>2 DEF Views
  <2>3. QED
    BY <1>2, <2>1, <2>2
<1>5. ASSUME NEW v \in Views(h)'
      PROVE  \/ v = hosts'[h] \/ v = hostCache'[h]
             \/ \E i \in 1..(n + 1) : hostEvents'[i].key = h /\ v = hostEvents'[i].object
             \/ work' # Idle /\ work'.h = h /\ v = work'.host
  BY <1>2 DEF Views
<1>6. ASSUME work' # Idle, work'.h = h
      PROVE  work'.host \in Views(h) \union (IF h = k THEN {x} ELSE {})
  BY <1>6 DEF Views
<1>7. hosts'[h] \in Views(h) \union (IF h = k THEN {x} ELSE {}) /\ hostCache'[h] \in Views(h)
  BY <1>1, <1>3 DEF Views
<1>8. QED
  BY <1>4, <1>5, <1>6, <1>7

\* a delivery none,
LEMMA DeliverViews ==
  ASSUME HostsOK, HostInformer!Deliver, work' = work, NEW h \in Hosts
  PROVE  Views(h)' \subseteq Views(h)
<1> DEFINE n == Len(hostEvents)
           e == Head(hostEvents)
<1>1. /\ hostEvents' = Tail(hostEvents) /\ hosts' = hosts /\ hostEvents # <<>>
      /\ hostCache' = [hostCache EXCEPT ![e.key] = e.object]
  BY DEF HostInformer!Deliver
<1>2. /\ n \in Nat \ {0} /\ Len(hostEvents') = n - 1 /\ e = hostEvents[1]
      /\ \A i \in 1..(n - 1) : hostEvents'[i] = hostEvents[i + 1] /\ i + 1 \in 1..n
  BY <1>1, HeadTailProperties DEF HostsOK
<1>3. hostCache'[h] \in Views(h)
  BY <1>1, <1>2 DEF Views, HostsOK
<1>4. ASSUME NEW i \in 1..(n - 1), hostEvents'[i].key = h
      PROVE  hostEvents'[i].object \in Views(h)
  BY <1>2, <1>4 DEF Views
<1>5. ASSUME NEW v \in Views(h)'
      PROVE  \/ v = hosts'[h] \/ v = hostCache'[h]
             \/ \E i \in 1..(n - 1) : hostEvents'[i].key = h /\ v = hostEvents'[i].object
             \/ work' # Idle /\ work'.h = h /\ v = work'.host
  BY <1>2 DEF Views
<1>6. hosts'[h] \in Views(h) /\ (work' # Idle /\ work'.h = h => work'.host \in Views(h))
  BY <1>1 DEF Views
<1>7. QED
  BY <1>3, <1>4, <1>5, <1>6

\* and a reconcile only takes those there are.
LEMMA SameViews ==
  ASSUME UNCHANGED hostVars, NEW h \in Hosts,
         work' # Idle /\ work'.h = h => work'.host \in Views(h)
  PROVE  Views(h)' \subseteq Views(h)
BY DEF hostVars, Views

\* Without new copies nothing changes.
LEMMA FewerViews ==
  ASSUME TypeInv, Sound, Unique, Known, Held, hosts' = hosts, nextHostID' = nextHostID,
         \A h \in Hosts : Views(h)' \subseteq Views(h)
  PROVE  /\ Sound' /\ Unique' /\ Known' /\ Held'
         /\ \A m \in Machines : Kept(m) => Kept(m)'
<1>1. Sound'
  BY DEF Sound
<1>2. Unique'
  BY DEF Unique
<1>3. Held' /\ Known'
  BY DEF Held, Known
<1>4. \A m \in Machines : Kept(m) => Kept(m)'
  BY DEF Kept
<1>5. QED
  BY <1>1, <1>2, <1>3, <1>4

\* A write that keeps the HostID, resets it or gives a new one, and claims a
\* host only when all its copies have that HostID.
LEMMA WriteFacts ==
  ASSUME TypeInv, HostFacts, NEW k \in Hosts, NEW x \in TartHost, HostInformer!Write(k, x),
         \A h \in Hosts : Views(h)' \subseteq Views(h) \union (IF h = k THEN {x} ELSE {}),
         nextHostID' \in Nat, nextHostID <= nextHostID', x.hostID < nextHostID',
         x.hostID # 0 => x.present, x.consumer # None => x.hostID # 0,
         \/ x.hostID \in {0, nextHostID}
         \/ x.hostID = hosts[k].hostID /\ KeepsIdentity(hosts[k], x),
         x.consumer # None => \A v \in Views(k) : v.hostID = x.hostID
  PROVE  HostFacts'
<1>0. /\ \A h \in Hosts : \A v \in Views(h) : v.hostID \in Nat /\ v.hostID < nextHostID
      /\ \A h \in Hosts : hosts[h] \in Views(h)
      /\ nextHostID \in Nat /\ x.hostID \in Nat
  BY ViewsType DEF HostFacts, Sound, TypeInv, RestOK, TartHost
<1>1. /\ hosts' = [hosts EXCEPT ![k] = x] /\ hostCache' = hostCache
      /\ hostEvents' = Append(hostEvents, [key |-> k, object |-> x])
  BY DEF HostInformer!Write
<1>2. hosts'[k] = x /\ \A h \in Hosts \ {k} : hosts'[h] = hosts[h]
  BY <1>1 DEF TypeInv, HostsOK
<1>3. \A h \in Hosts : \A v \in Views(h)' : v \in Views(h) \/ (h = k /\ v = x)
  OBVIOUS
<1>4. Sound'
  <2> SUFFICES ASSUME NEW h \in Hosts, NEW v \in Views(h)'
               PROVE  /\ v.hostID < nextHostID'
                      /\ v.hostID # 0 => v.present
                      /\ v.consumer # None => v.hostID # 0
    BY DEF Sound
  <2>1. CASE v \in Views(h)
    BY <1>0, <2>1 DEF HostFacts, Sound
  <2>2. QED
    BY <1>3, <2>1
<1>5. Unique'
  <2> SUFFICES ASSUME NEW h \in Hosts, NEW g \in Hosts,
                      NEW v \in Views(h)', NEW u \in Views(g)',
                      v.hostID # 0, v.hostID = u.hostID
               PROVE  h = g
    BY DEF Unique
  <2>1. ASSUME NEW f \in Hosts, NEW w \in Views(f), w.hostID # 0, w.hostID = x.hostID
        PROVE  f = k
    <3>1. x.hostID = hosts[k].hostID
      BY <1>0, <2>1
    <3>2. QED
      BY <1>0, <2>1, <3>1 DEF HostFacts, Unique
  <2>2. CASE v \in Views(h) /\ u \in Views(g)
    BY <2>2 DEF HostFacts, Unique
  <2>3. CASE v \in Views(h) /\ g = k /\ u = x
    BY <2>1, <2>3
  <2>4. CASE h = k /\ v = x /\ u \in Views(g)
    BY <2>1, <2>4
  <2>5. QED
    BY <1>3, <2>2, <2>3, <2>4
<1>9. Known'
  <2> SUFFICES ASSUME NEW h \in Hosts, NEW v \in Views(h)', v.hostID # 0,
                      v.hostID = hosts'[h].hostID, ~hosts'[h].reidentified
               PROVE  v.identity = hosts'[h].identity
    BY DEF Known
  <2>1. CASE h # k
    BY <1>2, <1>3, <2>1 DEF HostFacts, Known
  <2>2. CASE h = k /\ v = x
    BY <1>2, <2>2
  <2>3. CASE h = k /\ v \in Views(k)
    <3>1. x.hostID = hosts[k].hostID /\ KeepsIdentity(hosts[k], x)
      BY <1>0, <1>2, <2>3
    <3>2. QED
      BY <1>2, <2>3, <3>1 DEF HostFacts, Known, KeepsIdentity
  <2>4. QED
    BY <1>3, <2>1, <2>2, <2>3
<1>6. Held'
  <2> SUFFICES ASSUME NEW h \in Hosts, hosts'[h].consumer # None, NEW v \in Views(h)'
               PROVE  v.hostID = hosts'[h].hostID
    BY DEF Held
  <2>1. CASE h = k
    BY <1>2, <1>3, <2>1
  <2>2. CASE h # k
    BY <1>2, <1>3, <2>2 DEF HostFacts, Held
  <2>3. QED
    BY <2>1, <2>2
<1>7. Behind'
  <2> DEFINE n == Len(hostEvents)
  <2>1. /\ n \in Nat /\ Len(hostEvents') = n + 1
        /\ hostEvents'[n + 1] = [key |-> k, object |-> x]
        /\ \A i \in 1..n : hostEvents'[i] = hostEvents[i]
    BY <1>1 DEF TypeInv, HostsOK
  <2>2. ASSUME NEW i \in 1..(n + 1), hostEvents'[i].object.consumer # None
        PROVE  /\ hostCache'[hostEvents'[i].key].hostID = hostEvents'[i].object.hostID
               /\ \A j \in 1..(i - 1) : hostEvents'[j].key = hostEvents'[i].key
                    => hostEvents'[j].object.hostID = hostEvents'[i].object.hostID
    <3>1. CASE i \in 1..n
      <4>1. hostEvents'[i] = hostEvents[i]
        BY <2>1, <3>1
      <4>2. \A j \in 1..(i - 1) : hostEvents'[j] = hostEvents[j]
        BY <2>1, <3>1
      <4>3. QED
        BY <1>1, <2>2, <3>1, <4>1, <4>2 DEF HostFacts, Behind
    <3>2. CASE i = n + 1
      <4>1. hostEvents'[i].key = k /\ hostEvents'[i].object = x
        BY <2>1, <3>2
      <4>2. \A v \in Views(k) : v.hostID = x.hostID
        BY <2>2, <4>1
      <4>3. hostCache'[k].hostID = x.hostID
        BY <1>1, <4>2, ViewsType
      <4>4. ASSUME NEW j \in 1..(i - 1), hostEvents'[j].key = k
            PROVE  hostEvents'[j].object.hostID = x.hostID
        <5>1. j \in 1..n /\ hostEvents'[j] = hostEvents[j]
          BY <2>1, <3>2
        <5>2. hostEvents[j].object \in Views(k)
          BY <4>4, <5>1 DEF Views
        <5>3. QED
          BY <4>2, <5>1, <5>2
      <4>5. QED
        BY <4>1, <4>3, <4>4
    <3>3. QED
      BY <2>1, <3>1, <3>2
  <2>3. QED
    BY <2>1, <2>2 DEF Behind
<1>8. QED
  BY <1>4, <1>5, <1>6, <1>7, <1>9 DEF HostFacts

\* A write that does not take the host away from m keeps what m holds.
LEMMA KeptWrite ==
  ASSUME TypeInv, HostFacts, NEW k \in Hosts, NEW x \in TartHost, HostInformer!Write(k, x),
         \A h \in Hosts : Views(h)' \subseteq Views(h) \union (IF h = k THEN {x} ELSE {}),
         NEW m \in Machines, Kept(m),
         \/ x.hostID \in {0, nextHostID}
         \/ x.hostID = hosts[k].hostID /\ (hosts[k].consumer = m => x.consumer = m)
  PROVE  Kept(m)'
<1>0. /\ \A h \in Hosts : \A v \in Views(h) : v.hostID \in Nat /\ v.hostID < nextHostID
      /\ nextHostID \in Nat /\ m # None
  BY ViewsType, NoneAssumption DEF HostFacts, Sound, TypeInv, RestOK
<1>1. hosts'[k] = x /\ \A h \in Hosts \ {k} : hosts'[h] = hosts[h]
  BY DEF TypeInv, HostsOK, HostInformer!Write
<1> SUFFICES ASSUME NEW h \in Hosts, NEW v \in Views(h)',
                    v.consumer = m, v.hostID = hosts'[h].hostID
             PROVE  hosts'[h].consumer = m
  BY DEF Kept
<1>2. CASE h = k /\ v = x
  BY <1>1, <1>2
<1>3. CASE v \in Views(h) /\ h # k
  BY <1>1, <1>3 DEF Kept
<1>4. CASE v \in Views(h) /\ h = k
  <2>1. v.hostID # 0 /\ v.hostID # nextHostID
    BY <1>0, <1>4 DEF HostFacts, Sound
  <2>2. v.hostID = hosts[k].hostID /\ (hosts[k].consumer = m => x.consumer = m)
    BY <1>1, <1>4, <2>1
  <2>3. QED
    BY <1>1, <1>4, <2>2 DEF Kept
<1>5. QED
  BY <1>2, <1>3, <1>4

\* The watch delivers an event of a host.
LEMMA DeliverFacts ==
  ASSUME TypeInv, HostFacts, HostInformer!Deliver, work' = work, nextHostID' = nextHostID
  PROVE  HostFacts' /\ \A m \in Machines : Kept(m) => Kept(m)'
<1> DEFINE n == Len(hostEvents)
           e == Head(hostEvents)
<1>1. /\ hostEvents' = Tail(hostEvents) /\ hosts' = hosts /\ hostEvents # <<>>
      /\ hostCache' = [hostCache EXCEPT ![e.key] = e.object]
  BY DEF HostInformer!Deliver
<1>2. /\ n \in Nat \ {0} /\ Len(hostEvents') = n - 1 /\ e = hostEvents[1]
      /\ \A i \in 1..(n - 1) : hostEvents'[i] = hostEvents[i + 1] /\ i + 1 \in 1..n
  BY <1>1, HeadTailProperties DEF TypeInv, HostsOK
<1>3. /\ Sound' /\ Unique' /\ Known' /\ Held'
      /\ \A m \in Machines : Kept(m) => Kept(m)'
  BY <1>1, FewerViews, DeliverViews DEF TypeInv, HostFacts
<1>4. ASSUME NEW i \in 1..(n - 1), hostEvents'[i].object.consumer # None
      PROVE  /\ hostCache'[hostEvents'[i].key].hostID = hostEvents'[i].object.hostID
             /\ \A j \in 1..(i - 1) : hostEvents'[j].key = hostEvents'[i].key
                  => hostEvents'[j].object.hostID = hostEvents'[i].object.hostID
  <2>1. i + 1 \in 1..n /\ hostEvents'[i] = hostEvents[i + 1]
    BY <1>2
  <2>2. hostEvents[i + 1].key \in Hosts
    <3>1. hostEvents[i + 1] \in [key: Hosts, object: TartHost]
      BY <1>2, <2>1, ElementOfSeq DEF TypeInv, HostsOK
    <3>2. QED
      BY <3>1
  <2>3. /\ hostCache[hostEvents[i + 1].key].hostID = hostEvents[i + 1].object.hostID
        /\ \A j \in 1..i : hostEvents[j].key = hostEvents[i + 1].key
             => hostEvents[j].object.hostID = hostEvents[i + 1].object.hostID
    BY <1>4, <2>1 DEF HostFacts, Behind
  <2>4. 1 \in 1..i
    BY <1>2
  <2>5. hostCache'[hostEvents[i + 1].key].hostID = hostEvents[i + 1].object.hostID
    <3>1. CASE e.key = hostEvents[i + 1].key
      <4>1. hostEvents[1].object.hostID = hostEvents[i + 1].object.hostID
        BY <1>2, <2>3, <2>4, <3>1
      <4>2. QED
        BY <1>1, <1>2, <2>2, <3>1, <4>1 DEF TypeInv, HostsOK
    <3>2. CASE e.key # hostEvents[i + 1].key
      BY <1>1, <2>2, <2>3, <3>2 DEF TypeInv, HostsOK
    <3>3. QED
      BY <3>1, <3>2
  <2>6. ASSUME NEW j \in 1..(i - 1), hostEvents'[j].key = hostEvents'[i].key
        PROVE  hostEvents'[j].object.hostID = hostEvents'[i].object.hostID
    <3>1. hostEvents'[j] = hostEvents[j + 1] /\ j + 1 \in 1..i
      BY <1>2
    <3>2. QED
      BY <2>1, <2>3, <2>6, <3>1
  <2>7. QED
    BY <2>1, <2>5, <2>6
<1>5. Behind'
  BY <1>2, <1>4 DEF Behind
<1>6. QED
  BY <1>3, <1>5 DEF HostFacts

-----------------------------------------------------------------------------
(* The copies of machines.                                                 *)

\* Copies are typed.
LEMMA MachineViewsType ==
  ASSUME TypeInv, NEW m \in Machines
  PROVE  /\ MachineViews(m) \subseteq TartMachine
         /\ machines[m] \in MachineViews(m) /\ machineCache[m] \in MachineViews(m)
<1>1. \A i \in 1..Len(machineEvents) :
        machineEvents[i] \in [key: Machines, object: TartMachine]
  BY ElementOfSeq DEF TypeInv, MachinesOK
<1>2. QED
  BY <1>1 DEF MachineViews, TypeInv, MachinesOK

\* Time goes one way.
LEMMA LaterTransitive ==
  ASSUME NEW x \in TartMachine, NEW y \in TartMachine, NEW z \in TartMachine,
         Later(x, y), Later(y, z)
  PROVE  Later(x, z)
BY DEF Later, Past, TartMachine

\* A write adds the copy that is written.
LEMMA MachineWriteViews ==
  ASSUME MachinesOK, NEW k \in Machines, NEW y \in TartMachine, MachineInformer!Write(k, y),
         NEW m \in Machines
  PROVE  MachineViews(m)' \subseteq MachineViews(m) \union (IF m = k THEN {y} ELSE {})
<1> DEFINE n == Len(machineEvents)
<1>1. /\ machines' = [machines EXCEPT ![k] = y] /\ machineCache' = machineCache
      /\ machineEvents' = Append(machineEvents, [key |-> k, object |-> y])
  BY DEF MachineInformer!Write
<1>2. /\ n \in Nat /\ Len(machineEvents') = n + 1
      /\ machineEvents'[n + 1] = [key |-> k, object |-> y]
      /\ \A i \in 1..n : machineEvents'[i] = machineEvents[i]
  BY <1>1 DEF MachinesOK
<1>3. machines'[m] = IF m = k THEN y ELSE machines[m]
  BY <1>1 DEF MachinesOK
<1>4. ASSUME NEW i \in 1..(n + 1), machineEvents'[i].key = m
      PROVE  machineEvents'[i].object \in MachineViews(m) \union (IF m = k THEN {y} ELSE {})
  <2>1. CASE i = n + 1
    BY <1>2, <1>4, <2>1
  <2>2. CASE i \in 1..n
    BY <1>2, <1>4, <2>2 DEF MachineViews
  <2>3. QED
    BY <1>2, <2>1, <2>2
<1>5. ASSUME NEW v \in MachineViews(m)'
      PROVE  \/ v = machines'[m] \/ v = machineCache'[m]
             \/ \E i \in 1..(n + 1) : machineEvents'[i].key = m /\ v = machineEvents'[i].object
  BY <1>2 DEF MachineViews
<1>6. /\ machines'[m] \in MachineViews(m) \union (IF m = k THEN {y} ELSE {})
      /\ machineCache'[m] \in MachineViews(m)
  BY <1>1, <1>3 DEF MachineViews
<1>7. QED
  BY <1>4, <1>5, <1>6

\* A write that moves a machine on keeps the copies in order.
LEMMA MachineWriteFacts ==
  ASSUME TypeInv, MachineInformer!Agree, Latest, InOrder,
         NEW k \in Machines, NEW y \in TartMachine, MachineInformer!Write(k, y),
         Later(machines[k], y),
         y.phase = "gone" => \A v \in MachineViews(k) : ~(v.phase = "live" /\ v.finalizer)
  PROVE  /\ MachineInformer!Agree' /\ Latest' /\ InOrder'
         /\ machineCache' = machineCache
         /\ machines'[k] = y /\ \A m \in Machines \ {k} : machines'[m] = machines[m]
<1>1. /\ machines' = [machines EXCEPT ![k] = y] /\ machineCache' = machineCache
      /\ machineEvents' = Append(machineEvents, [key |-> k, object |-> y])
  BY DEF MachineInformer!Write
<1>2. machines'[k] = y /\ \A m \in Machines \ {k} : machines'[m] = machines[m]
  BY <1>1 DEF TypeInv, MachinesOK
<1>3. MachineInformer!Agree'
  BY MachineWriteAgree DEF TypeInv
<1>4. Latest'
  <2> SUFFICES ASSUME NEW m \in Machines, NEW v \in MachineViews(m)'
               PROVE  /\ Later(v, machines'[m])
                      /\ v.phase = "live" /\ v.finalizer => machines'[m].phase # "gone"
    BY DEF Latest
  <2>1. v \in MachineViews(m) \/ (m = k /\ v = y)
    BY MachineWriteViews DEF TypeInv
  <2>2. CASE m # k
    BY <1>2, <2>1, <2>2 DEF Latest
  <2>3. CASE m = k /\ v = y
    BY <1>2, <2>3 DEF Later, Past, TartMachine
  <2>4. CASE m = k /\ v \in MachineViews(k)
    <3>1. Later(v, machines[k]) /\ v \in TartMachine /\ machines[k] \in TartMachine
      BY <2>4, MachineViewsType DEF Latest
    <3>2. Later(v, y)
      BY <3>1, LaterTransitive
    <3>3. QED
      BY <1>2, <2>4, <3>2
  <2>5. QED
    BY <2>1, <2>2, <2>3, <2>4
<1>5. InOrder'
  <2> DEFINE n == Len(machineEvents)
  <2>1. /\ n \in Nat /\ Len(machineEvents') = n + 1
        /\ machineEvents'[n + 1] = [key |-> k, object |-> y]
        /\ \A i \in 1..n : machineEvents'[i] = machineEvents[i]
    BY <1>1 DEF TypeInv, MachinesOK
  <2>2. ASSUME NEW v \in MachineViews(k), Past(v)
        PROVE  Past(y)
    <3>1. Later(v, machines[k]) /\ v \in TartMachine /\ machines[k] \in TartMachine
      BY MachineViewsType DEF Latest
    <3>2. Later(v, y)
      BY <3>1, LaterTransitive
    <3>3. QED
      BY <2>2, <3>2 DEF Later, Past
  <2>3. ASSUME NEW i \in 1..(n + 1)
        PROVE  /\ Past(machineCache'[machineEvents'[i].key]) => Past(machineEvents'[i].object)
               /\ \A j \in 1..(i - 1) :
                    /\ machineEvents'[j].key = machineEvents'[i].key
                    /\ Past(machineEvents'[j].object)
                    => Past(machineEvents'[i].object)
    <3>1. CASE i \in 1..n
      <4>1. machineEvents'[i] = machineEvents[i]
        BY <2>1, <3>1
      <4>2. \A j \in 1..(i - 1) : machineEvents'[j] = machineEvents[j]
        BY <2>1, <3>1
      <4>3. QED
        BY <1>1, <3>1, <4>1, <4>2 DEF InOrder
    <3>2. CASE i = n + 1
      <4>1. machineEvents'[i].key = k /\ machineEvents'[i].object = y
        BY <2>1, <3>2
      <4>2. Past(machineCache'[k]) => Past(y)
        BY <1>1, <2>2, MachineViewsType
      <4>3. ASSUME NEW j \in 1..(i - 1), machineEvents'[j].key = k, Past(machineEvents'[j].object)
            PROVE  Past(y)
        <5>1. j \in 1..n /\ machineEvents'[j] = machineEvents[j]
          BY <2>1, <3>2
        <5>2. machineEvents[j].object \in MachineViews(k)
          BY <4>3, <5>1 DEF MachineViews
        <5>3. QED
          BY <2>2, <4>3, <5>1, <5>2
      <4>4. QED
        BY <4>1, <4>2, <4>3
    <3>3. QED
      BY <2>1, <3>1, <3>2
  <2>4. QED
    BY <2>1, <2>3 DEF InOrder
<1>6. QED
  BY <1>1, <1>2, <1>3, <1>4, <1>5

\* So does a delivery; a deletion that is cached stays cached.
LEMMA MachineDeliverFacts ==
  ASSUME TypeInv, MachineInformer!Agree, Latest, InOrder, MachineInformer!Deliver
  PROVE  /\ MachineInformer!Agree' /\ Latest' /\ InOrder' /\ machines' = machines
         /\ \A m \in Machines : MachineViews(m)' \subseteq MachineViews(m)
         /\ \A m \in Machines : Past(machineCache[m]) => Past(machineCache'[m])
<1> DEFINE n == Len(machineEvents)
           e == Head(machineEvents)
<1>1. /\ machineEvents' = Tail(machineEvents) /\ machines' = machines /\ machineEvents # <<>>
      /\ machineCache' = [machineCache EXCEPT ![e.key] = e.object]
  BY DEF MachineInformer!Deliver
<1>2. /\ n \in Nat \ {0} /\ Len(machineEvents') = n - 1 /\ e = machineEvents[1]
      /\ \A i \in 1..(n - 1) : machineEvents'[i] = machineEvents[i + 1] /\ i + 1 \in 1..n
  BY <1>1, HeadTailProperties DEF TypeInv, MachinesOK
<1>3. 1 \in 1..n /\ n \in Nat
  BY <1>2
<1>4. \A i \in 1..n : machineEvents[i] \in [key: Machines, object: TartMachine]
  BY <1>3, ElementOfSeq DEF TypeInv, MachinesOK
<1>5. e.key \in Machines
  BY <1>2, <1>3, <1>4
<1>6. /\ machineCache'[e.key] = e.object
      /\ \A m \in Machines \ {e.key} : machineCache'[m] = machineCache[m]
  BY <1>1, <1>5 DEF TypeInv, MachinesOK
<1>7. MachineInformer!Agree'
  BY MachineDeliverAgree DEF TypeInv
<1>8. ASSUME NEW m \in Machines PROVE MachineViews(m)' \subseteq MachineViews(m)
  <2>1. machineCache'[m] \in MachineViews(m)
    BY <1>2, <1>3, <1>6 DEF MachineViews
  <2>2. ASSUME NEW i \in 1..(n - 1), machineEvents'[i].key = m
        PROVE  machineEvents'[i].object \in MachineViews(m)
    BY <1>2, <2>2 DEF MachineViews
  <2>3. ASSUME NEW v \in MachineViews(m)'
        PROVE  \/ v = machines'[m] \/ v = machineCache'[m]
               \/ \E i \in 1..(n - 1) : machineEvents'[i].key = m /\ v = machineEvents'[i].object
    BY <1>2 DEF MachineViews
  <2>4. machines'[m] \in MachineViews(m)
    BY <1>1 DEF MachineViews
  <2>5. QED
    BY <2>1, <2>2, <2>3, <2>4
<1>9. Latest'
  BY <1>1, <1>8 DEF Latest
<1>10. \A m \in Machines : Past(machineCache[m]) => Past(machineCache'[m])
  BY <1>2, <1>3, <1>6 DEF InOrder
<1>11. ASSUME NEW i \in 1..(n - 1)
       PROVE  /\ Past(machineCache'[machineEvents'[i].key]) => Past(machineEvents'[i].object)
              /\ \A j \in 1..(i - 1) :
                   /\ machineEvents'[j].key = machineEvents'[i].key
                   /\ Past(machineEvents'[j].object)
                   => Past(machineEvents'[i].object)
  <2>1. i + 1 \in 1..n /\ machineEvents'[i] = machineEvents[i + 1] /\ 1 \in 1..i
    BY <1>2
  <2>2. machineEvents[i + 1].key \in Machines
    BY <1>4, <2>1
  <2>3. /\ Past(machineCache[machineEvents[i + 1].key]) => Past(machineEvents[i + 1].object)
        /\ \A j \in 1..i :
             /\ machineEvents[j].key = machineEvents[i + 1].key
             /\ Past(machineEvents[j].object)
             => Past(machineEvents[i + 1].object)
    BY <2>1 DEF InOrder
  <2>4. Past(machineCache'[machineEvents[i + 1].key]) => Past(machineEvents[i + 1].object)
    BY <1>2, <1>6, <2>1, <2>2, <2>3
  <2>5. ASSUME NEW j \in 1..(i - 1), machineEvents'[j].key = machineEvents'[i].key,
               Past(machineEvents'[j].object)
        PROVE  Past(machineEvents'[i].object)
    <3>1. machineEvents'[j] = machineEvents[j + 1] /\ j + 1 \in 1..i
      BY <1>2
    <3>2. QED
      BY <2>1, <2>3, <2>5, <3>1
  <2>6. QED
    BY <2>1, <2>4, <2>5
<1>12. InOrder'
  BY <1>2, <1>11 DEF InOrder
<1>13. QED
  BY <1>1, <1>7, <1>8, <1>9, <1>10, <1>12

-----------------------------------------------------------------------------
(* The steps of users, Cluster API and the TartHost controller.            *)

\* What they do to a host: edit it, register it, drop it, give it a HostID.
Edited(x, y) ==
  /\ x.present /\ y.present
  /\ y.hostID = x.hostID /\ KeepsIdentity(x, y)
  /\ y.consumer = x.consumer /\ y.previous = x.previous

Renewed(x, y) == ~x.present /\ y.present /\ y.hostID = 0 /\ y.consumer = None

Dropped(x, y) ==
  /\ x.present /\ ~y.present /\ y.hostID = 0 /\ y.consumer = None
  /\ x.finalizer => DeletionApproved(x)

Named(x, y) ==
  /\ x.present /\ x.hostID = 0
  /\ y.present /\ y.hostID = nextHostID
  /\ y.consumer = x.consumer /\ y.previous = x.previous

OthersHost(h, x) ==
  /\ OthersWriteHost(h, x) /\ UNCHANGED <<machineVars, capi>>
  /\ \/ /\ Edited(hosts[h], x) \/ Renewed(hosts[h], x) \/ Dropped(hosts[h], x)
        /\ nextHostID' = nextHostID
     \/ Named(hosts[h], x) /\ nextHostID' = nextHostID + 1

\* And to a machine: create it, end it.
Created(x, y) ==
  /\ x.phase = "absent" /\ y.phase = "live"
  /\ y.providerID = 0 /\ y.hostRef = None

Ended(x, y) ==
  /\ x.phase = "live"
  /\ \/ x.finalizer /\ y = [x EXCEPT !.phase = "deleting"]
     \/ ~x.finalizer /\ y = [NoMachine EXCEPT !.phase = "gone"]

OthersMachine(m, y) ==
  /\ OthersWriteMachine(m, y) /\ UNCHANGED <<hostVars, capi, nextHostID>>
  /\ Created(machines[m], y) \/ Ended(machines[m], y)

\* The CAPI Machine's ProviderID stays.
CAPIKept == \A m \in Machines : capi'[m].providerID = capi[m].providerID

Drains == UNCHANGED <<hostVars, machineVars, work, nextHostID>> /\ CAPIKept

\* Nothing else is done to hosts and machines by others.
LEMMA OthersForms ==
  ASSUME CopyInv, UserStep \/ TartHostStep
  PROVE  \/ \E h \in Hosts, x \in TartHost : OthersHost(h, x)
         \/ \E m \in Machines, y \in TartMachine : OthersMachine(m, y)
         \/ Drains
<1>0. /\ \A h \in Hosts : hostCache[h] \in TartHost /\ hosts[h] \in TartHost
      /\ \A m \in Machines : machines[m] \in TartMachine
      /\ nextHostID \in Nat
  BY DEF CopyInv, TypeInv, HostsOK, MachinesOK, RestOK
<1>1. /\ NoHost \in TartHost /\ ~NoHost.present /\ NoHost.hostID = 0 /\ NoHost.consumer = None
      /\ \A i \in Identities, fd \in FailureDomains :
           /\ NewHost(i, fd) \in TartHost /\ NewHost(i, fd).present
           /\ NewHost(i, fd).hostID = 0 /\ NewHost(i, fd).consumer = None
  BY RecordTypes DEF NoHost, NewHost
<1>2. ASSUME NEW h \in Hosts, NEW x \in TartHost, EditHost(h, x), hosts[h].present,
             Edited(hosts[h], x) \/ Dropped(hosts[h], x)
      PROVE  OthersHost(h, x)
  BY <1>2 DEF EditHost, OthersHost
<1>3. CASE UserStep
  <2>1. ASSUME NEW h \in Hosts, NEW i \in Identities, NEW fd \in FailureDomains,
               RegisterHost(h, i, fd)
        PROVE  OthersHost(h, NewHost(i, fd))
    BY <1>1, <2>1 DEF RegisterHost, OthersHost, Renewed
  <2>2. ASSUME NEW h \in Hosts, NEW fd \in FailureDomains, Relabel(h, fd)
        PROVE  \E x \in TartHost : OthersHost(h, x)
    <3> DEFINE x == [hosts[h] EXCEPT !.failureDomain = fd]
    <3>1. x \in TartHost
      BY <1>0, HostEdits
    <3>2. EditHost(h, x) /\ hosts[h].present
      BY <2>2 DEF Relabel, EditHost
    <3>3. Edited(hosts[h], x)
      BY <1>0, <3>2 DEF Edited, KeepsIdentity, TartHost
    <3> HIDE DEF x
    <3>4. QED
      BY <1>2, <3>1, <3>2, <3>3
  <2>3. ASSUME NEW h \in Hosts, NEW mode \in ReuseModes, ApproveReuse(h, mode)
        PROVE  \E x \in TartHost : OthersHost(h, x)
    <3>1. PICK uid \in {hosts[h].consumer, hosts[h].previous} \ {None} :
            EditHost(h, [hosts[h] EXCEPT !.reuse = [uid |-> uid, mode |-> mode]])
      BY <2>3 DEF ApproveReuse
    <3> DEFINE x == [hosts[h] EXCEPT !.reuse = [uid |-> uid, mode |-> mode]]
    <3>2. uid \in MaybeMachine
      BY <1>0 DEF TartHost
    <3>3. x \in TartHost
      BY <1>0, <3>2, HostEdits
    <3>4. EditHost(h, x) /\ hosts[h].present
      BY <3>1 DEF EditHost
    <3>5. Edited(hosts[h], x)
      BY <1>0, <3>4 DEF Edited, KeepsIdentity, TartHost
    <3> HIDE DEF x
    <3>6. QED
      BY <1>2, <3>3, <3>4, <3>5
  <2>4. ASSUME NEW h \in Hosts, ApproveHostDeletion(h)
        PROVE  \E x \in TartHost : OthersHost(h, x)
    <3> DEFINE x == [hosts[h] EXCEPT !.deletionApproval =
                       [consumer |-> hosts[h].consumer, previous |-> hosts[h].previous]]
    <3>1. x \in TartHost
      BY <1>0, HostEdits
    <3>2. EditHost(h, x) /\ hosts[h].present
      BY <2>4 DEF ApproveHostDeletion, EditHost
    <3>3. Edited(hosts[h], x)
      BY <1>0, <3>2 DEF Edited, KeepsIdentity, TartHost
    <3> HIDE DEF x
    <3>4. QED
      BY <1>2, <3>1, <3>2, <3>3
  <2>5. ASSUME NEW h \in Hosts, DeleteHost(h)
        PROVE  \E x \in TartHost : OthersHost(h, x)
    <3>1. hosts[h].present
      BY <2>5 DEF DeleteHost, EditHost
    <3>2. CASE hosts[h].finalizer
      <4> DEFINE x == [hosts[h] EXCEPT !.deleting = TRUE]
      <4>1. x \in TartHost
        BY <1>0, HostEdits
      <4>2. EditHost(h, x)
        BY <2>5, <3>2 DEF DeleteHost
      <4>3. Edited(hosts[h], x)
        BY <1>0, <3>1 DEF Edited, KeepsIdentity, TartHost
      <4> HIDE DEF x
      <4>4. QED
        BY <1>2, <3>1, <4>1, <4>2, <4>3
    <3>3. CASE ~hosts[h].finalizer
      <4>1. EditHost(h, NoHost)
        BY <2>5, <3>3 DEF DeleteHost
      <4>2. Dropped(hosts[h], NoHost)
        BY <1>1, <3>1, <3>3 DEF Dropped
      <4>3. QED
        BY <1>1, <1>2, <3>1, <4>1, <4>2
    <3>4. QED
      BY <3>2, <3>3
  <2>6. ASSUME NEW m \in Machines, NEW ref \in HostRefs, NEW fd \in Placements,
               CreateMachine(m, ref, fd)
        PROVE  \E y \in TartMachine : OthersMachine(m, y)
    <3> DEFINE y == [NoMachine EXCEPT !.phase = "live", !.specHostRef = ref,
                                      !.failureDomain = fd]
    <3>1. y \in TartMachine /\ y.phase = "live" /\ y.providerID = 0 /\ y.hostRef = None
      BY HostsAssumption DEF NoMachine, TartMachine, MaybeHost
    <3>2. machines[m].phase = "absent" /\ OthersWriteMachine(m, y)
          /\ UNCHANGED <<hostVars, capi, nextHostID>>
      BY <2>6 DEF CreateMachine
    <3> HIDE DEF y
    <3>3. QED
      BY <3>1, <3>2 DEF OthersMachine, Created
  <2>7. ASSUME NEW m \in Machines, DeleteMachine(m)
        PROVE  \E y \in TartMachine : OthersMachine(m, y)
    <3>1. [machines[m] EXCEPT !.phase = "deleting"] \in TartMachine
          /\ [NoMachine EXCEPT !.phase = "gone"] \in TartMachine
      BY <1>0, MachineEdits, RecordTypes
    <3>2. QED
      BY <2>7, <3>1 DEF DeleteMachine, OthersMachine, Ended
  <2>8. ASSUME NEW m \in Machines, CAPIDrained(m)
        PROVE  Drains
    <3>1. CAPIKept
      BY <2>8 DEF CAPIDrained, CAPIKept, CopyInv, TypeInv, RestOK
    <3>2. QED
      BY <2>8, <3>1 DEF CAPIDrained, Drains
  <2>9. ASSUME NEW h \in Hosts, NEW i \in Identities, Reidentify(h, i)
        PROVE  \E x \in TartHost : OthersHost(h, x)
    <3> DEFINE x == [hosts[h] EXCEPT !.identity = i, !.reidentified = TRUE]
    <3>1. x \in TartHost
      BY <1>0, HostEdits
    <3>2. EditHost(h, x) /\ hosts[h].present
      BY <2>9 DEF Reidentify, EditHost
    <3>3. Edited(hosts[h], x)
      BY <1>0, <3>2 DEF Edited, KeepsIdentity, TartHost
    <3> HIDE DEF x
    <3>4. QED
      BY <1>2, <3>1, <3>2, <3>3
  <2>10. QED
    BY <1>1, <1>3, <2>1, <2>2, <2>3, <2>4, <2>5, <2>6, <2>7, <2>8, <2>9 DEF UserStep
<1>4. CASE TartHostStep
  <2>1. ASSUME NEW h \in Hosts, AssignHostID(h)
        PROVE  \E x \in TartHost : OthersHost(h, x)
    <3>1. hostCache[h] = hosts[h]
      BY <2>1, FreshIsStored DEF AssignHostID, HostLocked
    <3> DEFINE x == [hosts[h] EXCEPT !.hostID = nextHostID]
    <3>2. x \in TartHost
      BY <1>0, HostEdits
    <3>3. /\ OthersWriteHost(h, x) /\ UNCHANGED <<machineVars, capi>>
          /\ nextHostID' = nextHostID + 1 /\ hosts[h].present /\ hosts[h].hostID = 0
      BY <2>1, <3>1 DEF AssignHostID, HostLocked
    <3>4. Named(hosts[h], x)
      BY <1>0, <3>3 DEF Named, TartHost
    <3> HIDE DEF x
    <3>5. QED
      BY <3>2, <3>3, <3>4 DEF OthersHost
  <2>2. ASSUME NEW h \in Hosts, AddHostFinalizer(h)
        PROVE  \E x \in TartHost : OthersHost(h, x)
    <3>1. hostCache[h] = hosts[h]
      BY <2>2, FreshIsStored DEF AddHostFinalizer, HostLocked
    <3> DEFINE x == [hosts[h] EXCEPT !.finalizer = TRUE]
    <3>2. x \in TartHost
      BY <1>0, HostEdits
    <3>3. /\ OthersWriteHost(h, x) /\ UNCHANGED <<machineVars, capi, nextHostID>>
          /\ hosts[h].present
      BY <2>2, <3>1 DEF AddHostFinalizer, HostLocked
    <3>4. Edited(hosts[h], x)
      BY <1>0, <3>3 DEF Edited, KeepsIdentity, TartHost
    <3> HIDE DEF x
    <3>5. QED
      BY <3>2, <3>3, <3>4 DEF OthersHost
  <2>3. ASSUME NEW h \in Hosts, PatchHostStatus(h)
        PROVE  OthersHost(h, hosts[h])
    BY <2>3 DEF PatchHostStatus, OthersHost, Edited, KeepsIdentity
  <2>4. ASSUME NEW h \in Hosts, FinalizeHost(h)
        PROVE  OthersHost(h, NoHost)
    <3>1. hostCache[h] = hosts[h]
      BY <2>4, FreshIsStored DEF FinalizeHost, HostLocked
    <3>2. QED
      BY <1>1, <2>4, <3>1 DEF FinalizeHost, HostLocked, OthersHost, Dropped
  <2>5. QED
    BY <1>0, <1>1, <1>4, <2>1, <2>2, <2>3, <2>4 DEF TartHostStep
<1>5. QED
  BY <1>3, <1>4

\* The reconcile in flight goes on with what it holds.
CarriesOn ==
  IF work = Idle THEN work' = Idle
  ELSE /\ work' # Idle /\ work'.step = work.step
       /\ work'.m = work.m /\ work'.machine = work.machine
       /\ work'.h = work.h /\ work'.host = work.host
       /\ work'.mode = work.mode /\ work'.expectedHostID = work.expectedHostID

\* The writes of others only make its copies stale.
LEMMA OthersCarryOn ==
  ASSUME WorkOK
  PROVE  /\ \A h, x : OthersWriteHost(h, x) =>
              /\ CarriesOn
              /\ work # Idle => work'.machineFresh = work.machineFresh
              /\ work # Idle /\ work'.hostFresh => work.hostFresh /\ work.h # h
         /\ \A m, y : OthersWriteMachine(m, y) =>
              /\ CarriesOn
              /\ work # Idle /\ work'.machineFresh => work.machineFresh /\ work.m # m
              /\ work # Idle => work'.hostFresh = work.hostFresh
<1>1. work # Idle => work \in Work
  BY DEF WorkOK
<1>2. ASSUME NEW h, NEW x, OthersWriteHost(h, x)
      PROVE  /\ CarriesOn
             /\ work # Idle => work'.machineFresh = work.machineFresh
             /\ work # Idle /\ work'.hostFresh => work.hostFresh /\ work.h # h
  BY <1>1, <1>2 DEF OthersWriteHost, CarriesOn, Work, Steps, Idle
<1>3. ASSUME NEW m, NEW y, OthersWriteMachine(m, y)
      PROVE  /\ CarriesOn
             /\ work # Idle /\ work'.machineFresh => work.machineFresh /\ work.m # m
             /\ work # Idle => work'.hostFresh = work.hostFresh
  BY <1>1, <1>3 DEF OthersWriteMachine, CarriesOn, Work, Steps, Idle
<1>4. QED
  BY <1>2, <1>3

\* The facts on hosts when no host is written.
LEMMA QuietHosts ==
  ASSUME TypeInv, HostFacts, UNCHANGED hostVars, nextHostID' = nextHostID,
         work' = Idle \/ work'.h \notin Hosts \/ work'.host \in Views(work'.h)
  PROVE  /\ HostFacts'
         /\ \A m \in Machines : Kept(m) => Kept(m)'
         /\ \A h \in Hosts : Views(h)' \subseteq Views(h)
<1>1. \A h \in Hosts : Views(h)' \subseteq Views(h)
  BY SameViews
<1>2. /\ Sound' /\ Unique' /\ Known' /\ Held'
      /\ \A m \in Machines : Kept(m) => Kept(m)'
  BY <1>1, FewerViews DEF HostFacts, hostVars
<1>3. Behind'
  BY DEF HostFacts, Behind, hostVars
<1>4. QED
  BY <1>1, <1>2, <1>3 DEF HostFacts

\* The facts on machines when no machine is written.
LEMMA QuietMachines ==
  ASSUME MachineInformer!Agree, Latest, InOrder, UNCHANGED machineVars
  PROVE  /\ MachineInformer!Agree' /\ Latest' /\ InOrder'
         /\ \A m \in Machines : MachineViews(m)' = MachineViews(m)
<1>1. \A m \in Machines : MachineViews(m)' = MachineViews(m)
  BY DEF MachineViews, machineVars
<1>2. QED
  BY <1>1 DEF machineVars, Latest, InOrder, MachineInformer!Agree, MachineInformer!Fresh

\* The reconcile's machine and host are among those there are.
LEMMA WorkNames ==
  ASSUME WorkOK, work # Idle
  PROVE  /\ work \in Work /\ work.m \in Machines
         /\ work.step \in Claiming \union Publishing => work.h \in Hosts
         /\ work.step \in Claiming \union Publishing => work.host \in Views(work.h)
<1>1. work \in Work
  BY DEF WorkOK
<1>2. work.step \in Claiming \union Publishing => work.h \in Hosts
  BY DEF WorkOK, Claiming, Publishing
<1>3. QED
  BY <1>1, <1>2 DEF Work, Views

\* A reconcile that keeps its version, or gives it up, finds its host settled.
LEMMA QuietSettled ==
  ASSUME Settled, \A h \in Hosts : Views(h)' \subseteq Views(h),
         \/ work' = Idle
         \/ /\ work # Idle /\ work'.h = work.h /\ work'.host = work.host
            /\ work'.hostFresh => work.hostFresh
  PROVE  Settled'
BY DEF Settled

\* A reconcile that is about to read a host is not disturbed by others while
\* its machine is not written.
LEMMA QuietReading ==
  ASSUME WorkOK, Reading, CarriesOn, machines' = machines,
         \A m \in Machines : Kept(m) => Kept(m)'
  PROVE  Reading'
<1> SUFFICES ASSUME work'.step = "get" PROVE Reading'
  BY DEF Reading
<1>1. work # Idle /\ work.step = "get" /\ work'.m = work.m /\ work'.h = work.h
      /\ work'.machine = work.machine
  BY DEF CarriesOn, Idle
<1>2. work.m \in Machines
  BY <1>1 DEF WorkOK, Work
<1>4. Kept(work.m)'
  BY <1>1, <1>2 DEF Reading
<1>5. QED
  BY <1>1, <1>4 DEF Reading

\* No step begins in the idle state.
LEMMA IdleStep ==
  work.step \in Claiming \union Publishing \union Releasing => work # Idle
BY DEF Idle, Claiming, Publishing, Releasing

\* Others write a host.
LEMMA OthersHostOwn ==
  ASSUME CopyInv, CopyInv', Ownership, NEW k \in Hosts, NEW x \in TartHost, OthersHost(k, x)
  PROVE  Ownership'
<1>0. /\ TypeInv /\ HostFacts /\ WorkOK /\ HostsOK
      /\ nextHostID \in Nat /\ nextHostID' \in Nat /\ nextHostID <= nextHostID'
      /\ x.hostID \in Nat
  BY DEF Ownership, OthersHost, CopyInv, TypeInv, RestOK, TartHost
<1>1. /\ HostInformer!Write(k, x) /\ OthersWriteHost(k, x)
      /\ UNCHANGED <<machines, machineCache, machineEvents, capi>>
  BY DEF OthersHost, OthersWriteHost, machineVars
<1>2. /\ CarriesOn
      /\ work # Idle => work'.machineFresh = work.machineFresh
      /\ work # Idle /\ work'.hostFresh => work.hostFresh /\ work.h # k
  BY <1>0, <1>1, OthersCarryOn
<1>3. \A h \in Hosts : Views(h)' \subseteq Views(h) \union (IF h = k THEN {x} ELSE {})
  BY <1>0, <1>1, <1>2, WriteViews DEF CarriesOn
<1>4. hosts'[k] = x /\ \A h \in Hosts \ {k} : hosts'[h] = hosts[h]
  BY <1>0, <1>1 DEF HostsOK, HostInformer!Write
<1>5. /\ hosts[k] \in Views(k) /\ hosts[k] \in TartHost
      /\ hosts[k].hostID \in Nat /\ hosts[k].hostID < nextHostID
      /\ hosts[k].consumer # None => hosts[k].hostID # 0
  BY <1>0, ViewsType DEF HostFacts, Sound
<1>6. \/ Edited(hosts[k], x)
      \/ x.hostID \in {0, nextHostID} /\ x.consumer = None
  BY <1>5 DEF OthersHost, Renewed, Dropped, Named
<1>7. /\ x.hostID < nextHostID'
      /\ x.hostID # 0 => x.present
  <2>1. nextHostID > 0
    BY <1>0, <1>5
  <2>2. QED
    BY <1>0, <1>5, <2>1 DEF OthersHost, Edited, Renewed, Dropped, Named
<1>8. x.consumer # None => x.hostID # 0 /\ \A v \in Views(k) : v.hostID = x.hostID
  BY <1>0, <1>5, <1>6 DEF Edited, HostFacts, Held
<1>9. HostFacts'
  BY <1>0, <1>1, <1>3, <1>6, <1>7, <1>8, WriteFacts DEF Edited
<1>10. \A m \in Machines : Kept(m) => Kept(m)'
  BY <1>0, <1>1, <1>3, <1>6, KeptWrite DEF Edited
<1>11. Retained'
  BY <1>1, <1>10 DEF Ownership, Retained
<1>12. MachineFacts'
  <2>1. MachineInformer!Agree' /\ Latest' /\ InOrder'
    BY <1>1, QuietMachines DEF Ownership, MachineFacts, machineVars
  <2>2. MachineCopyCurrent'
    BY <1>1, <1>2 DEF Ownership, MachineFacts, MachineCopyCurrent, CarriesOn
  <2>3. QED
    BY <2>1, <2>2 DEF MachineFacts
<1>13. Candidate'
  <2> SUFFICES ASSUME work'.step \in Claiming \union Publishing
               PROVE  Candidate'
    BY DEF Candidate
  <2>1. work # Idle /\ work.step = work'.step
    BY <1>2 DEF CarriesOn, Idle, Claiming, Publishing
  <2>2. /\ work'.h = work.h /\ work'.host = work.host /\ work'.m = work.m
        /\ work'.expectedHostID = work.expectedHostID
        /\ work.h \in Hosts /\ work.m \in Machines /\ work.expectedHostID \in Nat
    BY <1>0, <1>2, <2>1, WorkNames DEF CarriesOn, Work
  <2>3. /\ work.expectedHostID # 0 /\ work.expectedHostID < nextHostID
        /\ \A v \in Views(work.h) : v.consumer # None => v.hostID = work.expectedHostID
        /\ Kept(work.m)
        /\ work.step \in Claiming => Distinct
        /\ work.step \in Publishing => work.host.consumer = work.m
    BY <2>1 DEF Ownership, Candidate
  <2>4. \A v \in Views(work.h)' : v.consumer # None => v.hostID = work.expectedHostID
    BY <1>3, <1>5, <1>6, <2>2, <2>3 DEF Edited
  <2>5. ASSUME work.step \in Claiming
        PROVE  Distinct'
    <3> SUFFICES ASSUME work.machine.specHostRef # work.h, hosts'[work.h].consumer # work.m,
                        hosts'[work.h].hostID = work.expectedHostID,
                        NEW g \in Hosts, hosts'[g].consumer # None, Duplicates(work.h, g)'
                 PROVE  FALSE
      BY <1>2, <2>1, <2>2 DEF Distinct, CarriesOn
    <3>1. \A f \in {work.h, g} : f = k => Edited(hosts[k], x)
      BY <1>0, <1>4, <1>6, <2>2, <2>3
    <3>2. \A f \in {work.h, g} :
            /\ hosts[f].present /\ hosts[f].hostID = hosts'[f].hostID
            /\ hosts[f].consumer = hosts'[f].consumer
            /\ ~hosts'[f].reidentified =>
                 ~hosts[f].reidentified /\ hosts[f].identity = hosts'[f].identity
      BY <1>4, <2>2, <3>1 DEF Edited, KeepsIdentity, Duplicates
    <3>3. hosts[g].consumer # None /\ Duplicates(work.h, g)
      BY <2>2, <3>2 DEF Duplicates
    <3>4. QED
      BY <2>3, <2>5, <3>2, <3>3 DEF Distinct
  <2>6. Kept(work.m)'
    BY <1>10, <2>2, <2>3
  <2>7. work'.expectedHostID < nextHostID'
    BY <1>0, <2>2, <2>3
  <2>8. QED
    BY <2>1, <2>2, <2>3, <2>4, <2>5, <2>6, <2>7 DEF Candidate
<1>14. Tended'
  BY <1>1, <1>2 DEF Ownership, Tended, CarriesOn, Idle, Claiming, Publishing
<1>15. Deleting'
  <2>1. \A m \in Machines : MachineViews(m)' = MachineViews(m)
    BY <1>1 DEF MachineViews
  <2>2. QED
    BY <1>0, <1>2, <2>1, WorkNames DEF Ownership, Deleting, CarriesOn, Idle, Releasing
<1>16. Names'
  <2> SUFFICES ASSUME NEW m \in Machines
               PROVE  /\ machines[m].providerID < nextHostID'
                      /\ machines[m].providerID # 0 => \A h \in Hosts :
                           hosts'[h].hostID = machines[m].providerID =>
                             /\ machines[m].hostRef \in {None, h}
                             /\ ~Past(machines[m]) => hosts'[h].consumer = m
    BY <1>1 DEF Ownership, Names
  <2>1. machines[m].providerID \in Nat /\ machines[m].providerID < nextHostID
    BY DEF Ownership, Names, CopyInv, TypeInv, MachinesOK, TartMachine
  <2>2. ASSUME machines[m].providerID # 0, x.hostID = machines[m].providerID
        PROVE  hosts[k].hostID = x.hostID /\ x.consumer = hosts[k].consumer
    BY <1>0, <1>6, <2>1, <2>2 DEF Edited
  <2>3. QED
    BY <1>0, <1>4, <2>1, <2>2 DEF Ownership, Names
<1>17. Reading'
  BY <1>0, <1>1, <1>2, <1>10, QuietReading DEF Ownership
<1>18. Settled'
  <2> SUFFICES ASSUME work' # Idle, work'.h \in Hosts, work'.hostFresh,
                      NEW v \in Views(work.h)'
               PROVE  v.hostID = work'.host.hostID
    BY DEF Settled
  <2>1. /\ work # Idle /\ work.hostFresh /\ work.h # k
        /\ work'.h = work.h /\ work'.host = work.host
    BY <1>2 DEF CarriesOn
  <2>2. QED
    BY <1>3, <2>1 DEF Ownership, Settled
<1>19. QED
  BY <1>18, <1>9, <1>11, <1>12, <1>13, <1>14, <1>15, <1>16, <1>17 DEF Ownership

\* What the host part of the invariant says of the reconcile carries over when
\* no host is written and it goes on, or gives up.
LEMMA QuietCandidate ==
  ASSUME TypeInv, HostFacts, Candidate, UNCHANGED hostVars, nextHostID' = nextHostID,
         \A h \in Hosts : Views(h)' \subseteq Views(h),
         \A m \in Machines : Kept(m) => Kept(m)',
         \/ work' = Idle
         \/ work'.step \notin Claiming \union Publishing
         \/ /\ work # Idle
            /\ work.step \in Claiming \union Publishing
            /\ work'.step \in Claiming => work.step \in Claiming /\ work'.machine = work.machine
            /\ work'.step \in Publishing => work'.host.consumer = work.m
            /\ work'.h = work.h /\ work'.m = work.m
            /\ work'.expectedHostID = work.expectedHostID
  PROVE  Candidate'
<1> SUFFICES ASSUME work'.step \in Claiming \union Publishing
             PROVE  Candidate'
  BY DEF Candidate
<1>1. /\ work # Idle /\ work.step \in Claiming \union Publishing
      /\ work'.step \in Claiming => work.step \in Claiming /\ work'.machine = work.machine
      /\ work'.step \in Publishing => work'.host.consumer = work.m
      /\ work'.h = work.h /\ work'.m = work.m
      /\ work'.expectedHostID = work.expectedHostID
  BY DEF Idle, Claiming, Publishing
<1>2. work.h \in Hosts /\ work.m \in Machines
  BY <1>1, WorkNames DEF TypeInv
<1>3. Views(work.h)' \subseteq Views(work.h) /\ (Kept(work.m) => Kept(work.m)')
  BY <1>1, <1>2
<1>4. ASSUME work'.step \in Claiming PROVE Distinct'
  BY <1>1, <1>4 DEF Candidate, Distinct, Duplicates, hostVars
<1>5. QED
  BY <1>1, <1>2, <1>3, <1>4 DEF Candidate

\* Others write a machine.
LEMMA OthersMachineOwn ==
  ASSUME CopyInv, CopyInv', Ownership,
         NEW k \in Machines, NEW y \in TartMachine, OthersMachine(k, y)
  PROVE  Ownership'
<1>0. /\ TypeInv /\ HostFacts /\ WorkOK /\ MachinesOK /\ machines[k] \in TartMachine
  BY DEF Ownership, CopyInv, TypeInv, MachinesOK
<1>1. /\ MachineInformer!Write(k, y) /\ OthersWriteMachine(k, y)
      /\ UNCHANGED hostVars /\ capi' = capi /\ nextHostID' = nextHostID
      /\ Created(machines[k], y) \/ Ended(machines[k], y)
  BY DEF OthersMachine, OthersWriteMachine
<1>2. /\ CarriesOn
      /\ work # Idle /\ work'.machineFresh => work.machineFresh /\ work.m # k
      /\ work # Idle => work'.hostFresh = work.hostFresh
  BY <1>0, <1>1, OthersCarryOn
<1>3. work' = Idle \/ work'.h \notin Hosts \/ work'.host \in Views(work'.h)
  BY <1>2 DEF CarriesOn, Views
<1>4. /\ HostFacts'
      /\ \A m \in Machines : Kept(m) => Kept(m)'
      /\ \A h \in Hosts : Views(h)' \subseteq Views(h)
  BY <1>0, <1>1, <1>3, QuietHosts DEF Ownership
<1>5. Later(machines[k], y)
  BY <1>0, <1>1 DEF Created, Ended, Later, Past, NoMachine, TartMachine
<1>6. ASSUME y.phase = "gone", NEW v \in MachineViews(k), v.phase = "live", v.finalizer
      PROVE  FALSE
  <2>1. machines[k].phase = "live" /\ ~machines[k].finalizer
    BY <1>0, <1>1, <1>6 DEF Created, Ended, TartMachine
  <2>2. Later(v, machines[k])
    BY DEF Ownership, MachineFacts, Latest
  <2>3. QED
    BY <1>6, <2>1, <2>2 DEF Later
<1>7. /\ MachineInformer!Agree' /\ Latest' /\ InOrder'
      /\ machineCache' = machineCache
      /\ machines'[k] = y /\ \A m \in Machines \ {k} : machines'[m] = machines[m]
  BY <1>0, <1>1, <1>5, <1>6, MachineWriteFacts DEF Ownership, MachineFacts
<1>8. MachineFacts'
  <2>1. MachineCopyCurrent'
    <3> SUFFICES ASSUME work' # Idle, work'.machineFresh
                 PROVE  work'.machine = machines'[work'.m]
      BY DEF MachineCopyCurrent
    <3>1. /\ work # Idle /\ work'.machine = work.machine /\ work'.m = work.m
          /\ work.machineFresh /\ work.m # k /\ work.m \in Machines
      BY <1>0, <1>2, WorkNames DEF CarriesOn
    <3>2. QED
      BY <1>7, <3>1 DEF Ownership, MachineFacts, MachineCopyCurrent
  <2>2. QED
    BY <1>7, <2>1 DEF MachineFacts
<1>9. Retained'
  BY <1>4, <1>7 DEF Ownership, Retained
<1>10. Candidate'
  <2>1. Candidate
    BY DEF Ownership
  <2>2. \/ work' = Idle
        \/ work'.step \notin Claiming \union Publishing
        \/ /\ work # Idle
           /\ work.step \in Claiming \union Publishing
           /\ work'.step \in Claiming => work.step \in Claiming /\ work'.machine = work.machine
           /\ work'.step \in Publishing => work'.host.consumer = work.m
           /\ work'.h = work.h /\ work'.m = work.m
           /\ work'.expectedHostID = work.expectedHostID
    BY <1>2, <2>1 DEF CarriesOn, Candidate
  <2>3. QED
    BY <1>0, <1>1, <1>4, <2>1, <2>2, QuietCandidate
<1>11. Tended'
  <2> SUFFICES ASSUME work'.step \in Claiming \union Publishing
               PROVE  Tended'
    BY DEF Tended
  <2>1. work # Idle /\ work.step = work'.step
    BY <1>2 DEF CarriesOn, Idle, Claiming, Publishing
  <2>2. /\ work'.h = work.h /\ work'.machine = work.machine /\ work'.m = work.m
        /\ work'.expectedHostID = work.expectedHostID /\ work'.mode = work.mode
        /\ work.m \in Machines /\ work.machine \in TartMachine
    BY <1>0, <1>2, <2>1, WorkNames DEF CarriesOn, Work
  <2>3. /\ work.machine.phase = "live" /\ work.machine.finalizer
        /\ Later(work.machine, machines[work.m]) /\ machines[work.m].phase # "gone"
        /\ work.machine.providerID \in {0, work.expectedHostID}
        /\ work.mode = "ExplicitReusable" => work.machine.specHostRef = work.h
        /\ work.step \in {"sync", "status"} => machines[work.m].providerID = work.expectedHostID
    BY <2>1 DEF Ownership, Tended
  <2>4. CASE work.m = k
    <3>1. machines[k].finalizer /\ machines[k].phase # "absent"
      BY <2>3, <2>4 DEF Later
    <3>2. y = [machines[k] EXCEPT !.phase = "deleting"]
      BY <1>1, <3>1 DEF Created, Ended
    <3>3. y.phase = "deleting" /\ y.providerID = machines[k].providerID
      BY <1>0, <3>2 DEF TartMachine
    <3>4. Later(work.machine, y)
      BY <1>0, <1>5, <2>2, <2>3, <2>4, LaterTransitive
    <3>5. QED
      BY <1>7, <2>1, <2>2, <2>3, <2>4, <3>3, <3>4 DEF Tended
  <2>5. CASE work.m # k
    BY <1>7, <2>1, <2>2, <2>3, <2>5 DEF Tended
  <2>6. QED
    BY <2>4, <2>5
<1>12. Deleting'
  <2> SUFFICES ASSUME work'.step \in Releasing
               PROVE  Deleting'
    BY DEF Deleting
  <2>1. work # Idle /\ work.step = work'.step
    BY <1>2 DEF CarriesOn, Idle, Releasing
  <2>2. work'.m = work.m /\ work.m \in Machines
    BY <1>0, <1>2, <2>1, WorkNames DEF CarriesOn
  <2>3. \A v \in MachineViews(work.m) : Past(v)
    BY <2>1 DEF Ownership, Deleting
  <2>4. work.m # k
    <3>1. Past(machines[work.m])
      BY <1>0, <2>2, <2>3, MachineViewsType
    <3>2. QED
      BY <1>1, <3>1 DEF Created, Ended, Past
  <2>5. MachineViews(work.m)' \subseteq MachineViews(work.m)
    BY <1>0, <1>1, <2>2, <2>4, MachineWriteViews
  <2>6. QED
    BY <2>2, <2>3, <2>5 DEF Deleting
<1>13. Names'
  <2> SUFFICES ASSUME NEW m \in Machines
               PROVE  /\ machines'[m].providerID < nextHostID
                      /\ machines'[m].phase = "absent" => machines'[m].providerID = 0
                      /\ capi[m].providerID # 0 =>
                           \/ machines'[m].phase = "gone"
                           \/ machines'[m].providerID = capi[m].providerID
                      /\ machines'[m].hostRef # None => machines'[m].providerID # 0
                      /\ machines'[m].providerID # 0 => \A h \in Hosts :
                           hosts[h].hostID = machines'[m].providerID =>
                             /\ machines'[m].hostRef \in {None, h}
                             /\ ~Past(machines'[m]) => hosts[h].consumer = m
    BY <1>1 DEF Names, hostVars
  <2>1. CASE m # k
    BY <1>7, <2>1 DEF Ownership, Names
  <2>2. CASE m = k /\ Created(machines[k], y)
    <3>1. machines[k].providerID = 0 /\ capi[k].providerID = 0 /\ nextHostID > 0
      <4>1. /\ machines[k].providerID = 0
            /\ capi[k].providerID # 0 =>
                 machines[k].phase = "gone" \/ machines[k].providerID = capi[k].providerID
            /\ machines[k].providerID < nextHostID
        BY <2>2 DEF Ownership, Names, Created
      <4>2. QED
        BY <2>2, <4>1 DEF Created
    <3>2. QED
      BY <1>7, <2>2, <3>1 DEF Created
  <2>3. CASE m = k /\ Ended(machines[k], y)
    <3>1. nextHostID > 0
      BY <1>0 DEF Ownership, Names, TartMachine, CopyInv, TypeInv, RestOK
    <3>2. \/ y.phase = "gone" /\ y.providerID = 0 /\ y.hostRef = None
          \/ /\ y.phase = "deleting" /\ y.providerID = machines[k].providerID
             /\ y.hostRef = machines[k].hostRef /\ machines[k].phase = "live"
      BY <1>0, <2>3 DEF Ended, NoMachine, TartMachine
    <3>3. QED
      BY <1>7, <2>3, <3>1, <3>2 DEF Ownership, Names, Past
  <2>4. QED
    BY <1>1, <2>1, <2>2, <2>3
<1>14. Settled'
  BY <1>2, <1>4, QuietSettled DEF Ownership, CarriesOn
<1>16. Reading'
  <2> SUFFICES ASSUME work'.step = "get"
               PROVE  Reading'
    BY DEF Reading
  <2>1. work # Idle /\ work.step = "get" /\ work'.h = work.h /\ work'.m = work.m
        /\ work'.machine = work.machine
    BY <1>2 DEF CarriesOn, Idle
  <2>2. work.m \in Machines /\ work.machine \in TartMachine
    BY <1>0, <2>1, WorkNames DEF Work
  <2>3. /\ Kept(work.m)' /\ work.machine.phase = "live" /\ work.machine.finalizer
        /\ Later(work.machine, machines[work.m]) /\ machines[work.m].phase # "gone"
        /\ work.machine.hostRef = None => work.machine.specHostRef = work.h
    BY <1>4, <2>1, <2>2 DEF Ownership, Reading
  <2>4. Later(work.machine, machines'[work.m]) /\ machines'[work.m].phase # "gone"
    <3>1. CASE work.m # k
      BY <1>7, <2>2, <2>3, <3>1
    <3>2. CASE work.m = k
      <4>1. machines[k].finalizer /\ machines[k].phase # "absent"
        BY <2>3, <3>2 DEF Later
      <4>2. y = [machines[k] EXCEPT !.phase = "deleting"]
        BY <1>1, <4>1 DEF Created, Ended
      <4>3. y.phase = "deleting"
        BY <1>0, <4>2 DEF TartMachine
      <4>4. Later(work.machine, y)
        BY <1>0, <1>5, <2>2, <2>3, <3>2, LaterTransitive
      <4>5. QED
        BY <1>7, <3>2, <4>3, <4>4
    <3>3. QED
      BY <3>1, <3>2
  <2>5. QED
    BY <2>1, <2>3, <2>4 DEF Reading
<1>15. QED
  BY <1>16, <1>14, <1>4, <1>8, <1>9, <1>10, <1>11, <1>12, <1>13 DEF Ownership

\* Nothing of the invariant is about the drain.
LEMMA DrainsOwn ==
  ASSUME CopyInv, CopyInv', Ownership, Drains
  PROVE  Ownership'
<1>1. /\ UNCHANGED hostVars /\ UNCHANGED machineVars /\ work' = work
      /\ nextHostID' = nextHostID /\ CAPIKept
  BY DEF Drains
<1>2. /\ HostFacts'
      /\ \A m \in Machines : Kept(m) => Kept(m)'
      /\ \A h \in Hosts : Views(h)' \subseteq Views(h)
  BY <1>1, QuietHosts DEF Ownership, CopyInv, Views
<1>3. /\ MachineFacts'
      /\ \A m \in Machines : MachineViews(m)' = MachineViews(m)
  BY <1>1, QuietMachines DEF Ownership, MachineFacts, MachineCopyCurrent, machineVars
<1>4. Candidate'
  BY <1>1, <1>2, QuietCandidate DEF Ownership, CopyInv, Candidate
<1>5. Settled'
  BY <1>1, <1>2, QuietSettled DEF Ownership, Settled
<1>6. Retained' /\ Tended' /\ Names'
  BY <1>1, <1>2 DEF Ownership, Retained, Tended, Names, CAPIKept, machineVars, hostVars
<1>7. Deleting'
  BY <1>1, <1>3, WorkNames, IdleStep DEF Ownership, Deleting, CopyInv, TypeInv
<1>9. Reading'
  <2>1. CarriesOn /\ machines' = machines
    BY <1>1 DEF CarriesOn, machineVars
  <2>2. QED
    BY <1>2, <2>1, QuietReading DEF Ownership, CopyInv, TypeInv
<1>8. QED
  BY <1>9, <1>2, <1>3, <1>4, <1>5, <1>6, <1>7 DEF Ownership

\* A watch delivers an event.
LEMMA DeliverOwn ==
  ASSUME CopyInv, CopyInv', Ownership, DeliverHost \/ DeliverMachine
  PROVE  Ownership'
<1>0. TypeInv /\ HostFacts /\ WorkOK
  BY DEF Ownership, CopyInv, TypeInv
<1>1. CASE DeliverHost
  <2>1. /\ HostInformer!Deliver /\ UNCHANGED machineVars /\ work' = work
        /\ nextHostID' = nextHostID /\ capi' = capi /\ hosts' = hosts
    BY <1>1 DEF DeliverHost, HostInformer!Deliver
  <2>2. HostFacts' /\ \A m \in Machines : Kept(m) => Kept(m)'
    BY <1>0, <2>1, DeliverFacts
  <2>3. \A h \in Hosts : Views(h)' \subseteq Views(h)
    BY <1>0, <2>1, DeliverViews DEF TypeInv
  <2>4. /\ MachineFacts'
        /\ \A m \in Machines : MachineViews(m)' = MachineViews(m)
    BY <2>1, QuietMachines DEF Ownership, MachineFacts, MachineCopyCurrent, machineVars
  <2>5. Candidate'
    <3> SUFFICES ASSUME work.step \in Claiming \union Publishing
                 PROVE  Candidate'
      BY <2>1 DEF Candidate
    <3>1. work.h \in Hosts /\ work.m \in Machines
      BY <1>0, WorkNames, IdleStep
    <3>2. Views(work.h)' \subseteq Views(work.h) /\ (Kept(work.m) => Kept(work.m)')
      BY <2>1, <2>2, <2>3, <3>1
    <3>3. Distinct => Distinct'
      BY <2>1 DEF Distinct, Duplicates
    <3>4. QED
      BY <2>1, <3>2, <3>3 DEF Ownership, Candidate
  <2>6. Retained' /\ Tended' /\ Names'
    BY <2>1, <2>2 DEF Ownership, Retained, Tended, Names, machineVars
  <2>7. Deleting'
    BY <1>0, <2>1, <2>4, WorkNames, IdleStep DEF Ownership, Deleting
  <2>8. Settled'
    BY <2>1, <2>3, QuietSettled DEF Ownership, Settled
  <2>10. Reading'
    <3>1. CarriesOn /\ machines' = machines
      BY <2>1 DEF CarriesOn, machineVars
    <3>2. QED
      BY <1>0, <2>2, <3>1, QuietReading DEF Ownership
  <2>9. QED
    BY <2>10, <2>2, <2>4, <2>5, <2>6, <2>7, <2>8 DEF Ownership
<1>2. CASE DeliverMachine
  <2>1. /\ MachineInformer!Deliver /\ UNCHANGED hostVars /\ work' = work
        /\ nextHostID' = nextHostID /\ capi' = capi
    BY <1>2 DEF DeliverMachine
  <2>2. /\ HostFacts'
        /\ \A m \in Machines : Kept(m) => Kept(m)'
        /\ \A h \in Hosts : Views(h)' \subseteq Views(h)
    BY <1>0, <2>1, QuietHosts DEF Ownership, Views
  <2>3. /\ MachineInformer!Agree' /\ Latest' /\ InOrder' /\ machines' = machines
        /\ \A m \in Machines : MachineViews(m)' \subseteq MachineViews(m)
        /\ \A m \in Machines : Past(machineCache[m]) => Past(machineCache'[m])
    BY <1>0, <2>1, MachineDeliverFacts DEF Ownership, MachineFacts
  <2>4. MachineFacts'
    BY <2>1, <2>3 DEF Ownership, MachineFacts, MachineCopyCurrent
  <2>5. Candidate'
    BY <1>0, <2>1, <2>2, QuietCandidate DEF Ownership, Candidate
  <2>6. Tended' /\ Names'
    BY <2>1, <2>3 DEF Ownership, Tended, Names, hostVars
  <2>7. Retained'
    BY <2>2, <2>3 DEF Ownership, Retained
  <2>8. Deleting'
    BY <1>0, <2>1, <2>3, WorkNames, IdleStep DEF Ownership, Deleting
  <2>9. Settled'
    BY <2>1, <2>2, QuietSettled DEF Ownership, Settled
  <2>11. Reading'
    <3>1. CarriesOn
      BY <2>1 DEF CarriesOn
    <3>2. QED
      BY <1>0, <2>2, <2>3, <3>1, QuietReading DEF Ownership
  <2>10. QED
    BY <2>11, <2>2, <2>4, <2>5, <2>6, <2>7, <2>8, <2>9 DEF Ownership
<1>3. QED
  BY <1>1, <1>2

-----------------------------------------------------------------------------
(* The steps of the TartMachine controller.                                *)

\* A copy read from the cache in its stored version is the only one.
LEMMA FreshViews ==
  ASSUME CopyInv, NEW h \in Hosts, HostInformer!Fresh(h), UNCHANGED hostVars,
         work' # Idle, work'.h = h, work'.host = hostCache[h]
  PROVE  \A v \in Views(h)' : v = work'.host
<1>1. hosts[h] = hostCache[h]
  BY FreshIsStored
<1>2. QED
  BY <1>1 DEF Views, HostInformer!Fresh, hostVars

\* A step of the reconcile that writes nothing: it ends, reads its host again,
\* or goes on to the next call.
Moves ==
  \/ work' = Idle
  \/ /\ work # Idle /\ work' # Idle
     /\ work'.m = work.m /\ work'.machine = work.machine
     /\ work'.machineFresh = work.machineFresh
     /\ work'.h = work.h /\ work'.mode = work.mode
     /\ work'.expectedHostID = work.expectedHostID
     /\ \/ work'.host = work.host /\ work'.hostFresh = work.hostFresh
        \/ /\ work'.step \notin Publishing /\ work.h \in Hosts
           /\ work'.host = hostCache[work.h]
           /\ work'.hostFresh = HostInformer!Fresh(work.h)
     /\ \/ work.step \in Claiming /\ work'.step \in Claiming
        \/ work.step = "claim" /\ work'.step = "publish" /\ work.host.consumer = work.m
        \/ work.step = "publish" /\ work'.step = "sync" /\ work.machine.providerID # 0
        \/ work.step = "sync" /\ work'.step = "status"
        \/ work.step \in Releasing /\ work'.step \in Releasing

\* The CAPI Machine's ProviderID stays or becomes the machine's.
CAPIFollows ==
  \A m \in Machines : \/ capi'[m].providerID = capi[m].providerID
                      \/ capi'[m].providerID = machines[m].providerID

\* Such steps keep the invariant.
LEMMA MovesOwn ==
  ASSUME CopyInv, CopyInv', Ownership, Moves, CAPIFollows,
         UNCHANGED hostVars, UNCHANGED machineVars, nextHostID' = nextHostID
  PROVE  Ownership'
<1>0. TypeInv /\ HostFacts /\ WorkOK
  BY DEF Ownership, CopyInv, TypeInv
<1>1. work' = Idle \/ work'.h \notin Hosts \/ work'.host \in Views(work'.h)
  BY DEF Moves, Views
<1>2. /\ HostFacts'
      /\ \A m \in Machines : Kept(m) => Kept(m)'
      /\ \A h \in Hosts : Views(h)' \subseteq Views(h)
  BY <1>0, <1>1, QuietHosts DEF Ownership
<1>3. /\ MachineInformer!Agree' /\ Latest' /\ InOrder'
      /\ \A m \in Machines : MachineViews(m)' = MachineViews(m)
  BY QuietMachines DEF Ownership, MachineFacts
<1>4. MachineFacts'
  <2>1. MachineCopyCurrent'
    BY DEF Ownership, MachineFacts, MachineCopyCurrent, Moves, machineVars
  <2>2. QED
    BY <1>3, <2>1 DEF MachineFacts
<1>5. Candidate'
  <2>1. Candidate
    BY DEF Ownership
  <2>2. \/ work' = Idle
        \/ work'.step \notin Claiming \union Publishing
        \/ /\ work # Idle
           /\ work.step \in Claiming \union Publishing
           /\ work'.step \in Claiming => work.step \in Claiming /\ work'.machine = work.machine
           /\ work'.step \in Publishing => work'.host.consumer = work.m
           /\ work'.h = work.h /\ work'.m = work.m
           /\ work'.expectedHostID = work.expectedHostID
    BY <2>1 DEF Moves, Candidate, Claiming, Publishing, Releasing
  <2>3. QED
    BY <1>0, <1>2, <2>1, <2>2, QuietCandidate
<1>6. Tended'
  <2> SUFFICES ASSUME work'.step \in Claiming \union Publishing
               PROVE  Tended'
    BY DEF Tended
  <2>1. /\ work # Idle /\ work.step \in Claiming \union Publishing
        /\ work'.m = work.m /\ work'.machine = work.machine
        /\ work'.h = work.h /\ work'.mode = work.mode
        /\ work'.expectedHostID = work.expectedHostID
    BY DEF Moves, Idle, Claiming, Publishing, Releasing
  <2>2. /\ work.machine.phase = "live" /\ work.machine.finalizer
        /\ Later(work.machine, machines[work.m]) /\ machines[work.m].phase # "gone"
        /\ work.machine.providerID \in {0, work.expectedHostID}
        /\ work.mode = "ExplicitReusable" => work.machine.specHostRef = work.h
        /\ work.step \in {"sync", "status"} => machines[work.m].providerID = work.expectedHostID
    BY <2>1 DEF Ownership, Tended
  <2>3. ASSUME work'.step \in {"sync", "status"}
        PROVE  machines[work.m].providerID = work.expectedHostID
    <3>1. \/ work.step = "publish" /\ work.machine.providerID # 0
          \/ work.step = "sync"
      BY <2>1, <2>3 DEF Moves, Idle, Claiming, Releasing
    <3>2. QED
      BY <2>2, <3>1 DEF Later
  <2>4. QED
    BY <2>1, <2>2, <2>3 DEF Tended, machineVars
<1>7. Deleting'
  <2> SUFFICES ASSUME work'.step \in Releasing
               PROVE  Deleting'
    BY DEF Deleting
  <2>1. work # Idle /\ work.step \in Releasing /\ work'.m = work.m
    BY DEF Moves, Idle, Claiming, Releasing
  <2>2. work.m \in Machines
    BY <1>0, <2>1, WorkNames
  <2>3. QED
    BY <1>3, <2>1, <2>2 DEF Ownership, Deleting
<1>8. Names'
  BY DEF Ownership, Names, CAPIFollows, hostVars, machineVars
<1>9. Retained'
  BY <1>2 DEF Ownership, Retained, machineVars
<1>10. Settled'
  <2>1. CASE \/ work' = Idle
             \/ /\ work # Idle /\ work'.h = work.h /\ work'.host = work.host
                /\ work'.hostFresh => work.hostFresh
    BY <1>2, <2>1, QuietSettled DEF Ownership
  <2>2. CASE /\ work' # Idle /\ work'.h = work.h /\ work.h \in Hosts
             /\ work'.host = hostCache[work.h]
             /\ work'.hostFresh = HostInformer!Fresh(work.h)
    <3>1. PICK h \in Hosts : h = work.h
      BY <2>2
    <3>2. HostInformer!Fresh(h) => \A v \in Views(h)' : v = work'.host
      BY <2>2, <3>1, FreshViews
    <3>3. QED
      BY <2>2, <3>1, <3>2 DEF Settled
  <2>3. QED
    BY <2>1, <2>2 DEF Moves
<1>12. Reading'
  BY DEF Reading, Moves, Idle, Claiming, Releasing
<1>11. QED
  BY <1>12, <1>2, <1>4, <1>5, <1>6, <1>7, <1>8, <1>9, <1>10 DEF Ownership

\* The reconcile takes a host from the cache to claim it: every copy of it that
\* shows a consumer is of the same registration.
LEMMA TakesOwn ==
  ASSUME CopyInv, CopyInv', Ownership, NEW m \in Machines, NEW machine \in TartMachine,
         NEW f \in BOOLEAN, NEW h \in Hosts,
         work' = ProvisioningWork("claim", m, machine, f, h), Claimable(machine, h),
         work = Idle \/ work.h = h, f => machine = machines[m],
         machine.phase = "live", machine.finalizer,
         Later(machine, machines[m]), machines[m].phase # "gone", Kept(m),
         machine.specHostRef # h /\ hosts[h].consumer # m /\ hosts[h].hostID = hostCache[h].hostID
           => \A g \in Hosts : hosts[g].consumer # None => ~Duplicates(h, g),
         UNCHANGED hostVars, UNCHANGED machineVars, capi' = capi, nextHostID' = nextHostID
  PROVE  Ownership'
<1>0. /\ TypeInv /\ HostFacts /\ WorkOK /\ HostsOK /\ MachinesOK
      /\ Sound /\ Unique /\ Held /\ Behind
  BY DEF Ownership, HostFacts, CopyInv, TypeInv
<1>1. /\ work' # Idle /\ work'.step = "claim" /\ work'.m = m
      /\ work'.machine = machine /\ work'.machineFresh = f
      /\ work'.h = h /\ work'.host = hostCache[h]
      /\ work'.hostFresh = (hostCache[h].present /\ HostInformer!Fresh(h))
      /\ work'.mode = ClaimModeForSelectedHost(machine, h)
      /\ work'.expectedHostID = hostCache[h].hostID
  BY <1>0, ProvisioningWorkType
<1>2. hostCache[h].hostID # 0 /\ machine.providerID \in {0, hostCache[h].hostID}
  BY DEF Claimable
<1>3. hostCache[h] \in Views(h) /\ hosts[h] \in Views(h)
  BY <1>0, ViewsType
<1>4. /\ HostFacts'
      /\ \A o \in Machines : Kept(o) => Kept(o)'
      /\ \A g \in Hosts : Views(g)' \subseteq Views(g)
  BY <1>0, <1>1, <1>3, QuietHosts
<1>5. /\ MachineInformer!Agree' /\ Latest' /\ InOrder'
      /\ \A o \in Machines : MachineViews(o)' = MachineViews(o)
  BY QuietMachines DEF Ownership, MachineFacts
<1>6. MachineFacts'
  <2>1. MachineCopyCurrent'
    BY <1>1 DEF MachineCopyCurrent, machineVars
  <2>2. QED
    BY <1>5, <2>1 DEF MachineFacts
<1>7. \A v \in Views(h)' : v.consumer # None => v.hostID = hostCache[h].hostID
  <2> SUFFICES ASSUME NEW v \in Views(h)', v.consumer # None
               PROVE  v.hostID = hostCache[h].hostID
    OBVIOUS
  <2>1. \/ v = hosts[h] \/ v = hostCache[h]
        \/ \E i \in 1..Len(hostEvents) : hostEvents[i].key = h /\ v = hostEvents[i].object
    BY <1>1 DEF Views, hostVars
  <2>2. CASE v = hosts[h]
    BY <1>0, <1>3, <2>2 DEF Held
  <2>3. CASE \E i \in 1..Len(hostEvents) : hostEvents[i].key = h /\ v = hostEvents[i].object
    BY <1>0, <2>3 DEF Behind
  <2>4. QED
    BY <2>1, <2>2, <2>3
<1>8. Candidate'
  <2>1. hostCache[h].hostID < nextHostID
    BY <1>0, <1>3 DEF Sound
  <2>2. Distinct'
    BY <1>1 DEF Distinct, Duplicates, hostVars
  <2>3. Kept(work.m)'
    BY <1>1, <1>4
  <2>4. work'.step \notin Publishing
    BY <1>1 DEF Publishing
  <2>5. QED
    BY <1>1, <1>2, <1>7, <2>1, <2>2, <2>3, <2>4 DEF Candidate
<1>9. Tended'
  <2>1. ClaimModeForSelectedHost(machine, h) = "ExplicitReusable" => machine.specHostRef = h
    BY DEF ClaimModeForSelectedHost
  <2>2. QED
    BY <1>1, <1>2, <2>1 DEF Tended, machineVars
<1>10. Deleting' /\ Reading'
  BY <1>1 DEF Deleting, Releasing, Reading
<1>11. Names' /\ Retained'
  BY <1>4 DEF Ownership, Names, Retained, hostVars, machineVars
<1>12. Settled'
  <2>1. HostInformer!Fresh(h) => \A v \in Views(h)' : v = work'.host
    BY <1>1, FreshViews
  <2>2. QED
    BY <1>1, <2>1 DEF Settled
<1>13. QED
  BY <1>4, <1>6, <1>8, <1>9, <1>10, <1>11, <1>12 DEF Ownership

\* A host that the selection returns is no duplicate of a claimed one.
LEMMA SelectedDistinct ==
  ASSUME CopyInv, Ownership, NEW m \in Machines, ~HasIdentityConflictForAny, Kept(m),
         NEW h \in Hosts, h \in ListedHost(m, machineCache[m]), hostCache[h].hostID # 0,
         hosts[h].consumer # m, hosts[h].hostID = hostCache[h].hostID,
         NEW g \in Hosts, hosts[g].consumer # None, Duplicates(h, g)
  PROVE  FALSE
<1>0. /\ TypeInv /\ Sound /\ Known /\ Held
  BY DEF Ownership, HostFacts, CopyInv
<1>1. \A k \in {h, g} : hosts[k] \in Views(k) /\ hostCache[k] \in Views(k)
  BY <1>0, ViewsType
<1>2. h # g /\ hosts[h].identity = hosts[g].identity
      /\ ~hosts[h].reidentified /\ ~hosts[g].reidentified
  BY DEF Duplicates
<1>3. hostCache[h].identity = hosts[h].identity /\ hostCache[h].present
  BY <1>0, <1>1, <1>2 DEF Known, Sound
<1>4. hosts[g].hostID # 0 /\ hostCache[g].hostID = hosts[g].hostID
  BY <1>0, <1>1 DEF Sound, Held
<1>5. hostCache[g].identity = hosts[g].identity /\ hostCache[g].present
  BY <1>0, <1>1, <1>2, <1>4 DEF Known, Sound
<1>6. QED
  BY <1>2, <1>3, <1>5 DEF HasIdentityConflictForAny

\* The controller begins to provision, with a host of its List or on to read one.
LEMMA BeginProvisioningOwn ==
  ASSUME CopyInv, CopyInv', Ownership, NEW m \in Machines, BeginProvisioning(m)
  PROVE  Ownership'
<1>0. /\ TypeInv /\ HostFacts /\ WorkOK /\ HostsOK /\ MachinesOK /\ work = Idle
  BY DEF Ownership, CopyInv, TypeInv, BeginProvisioning
<1>1. /\ UNCHANGED hostVars /\ UNCHANGED machineVars
      /\ capi' = capi /\ nextHostID' = nextHostID
      /\ machineCache[m].phase = "live" /\ machineCache[m].finalizer
      /\ ~HasIdentityConflictForAny
  BY DEF BeginProvisioning
<1>2. /\ machineCache[m] \in TartMachine /\ MachineInformer!Fresh(m) \in BOOLEAN
      /\ MachineInformer!Fresh(m) => machineCache[m] = machines[m]
  BY <1>0 DEF Ownership, MachineFacts, MachineInformer!Agree, MachineInformer!Fresh, MachinesOK
<1>3. Later(machineCache[m], machines[m]) /\ machines[m].phase # "gone"
  <2>1. machineCache[m] \in MachineViews(m)
    BY <1>0, MachineViewsType
  <2>2. QED
    BY <1>1, <2>1 DEF Ownership, MachineFacts, Latest
<1>4. Kept(m)
  BY <1>1 DEF Ownership, Retained, Past
<1>5. ASSUME NEW h \in Hosts, h \in ListedHost(m, machineCache[m]),
             Claimable(machineCache[m], h),
             work' = ProvisioningWork("claim", m, machineCache[m], MachineInformer!Fresh(m), h)
      PROVE  Ownership'
  <2>1. hosts[h].consumer # m /\ hosts[h].hostID = hostCache[h].hostID
          => \A g \in Hosts : hosts[g].consumer # None => ~Duplicates(h, g)
    BY <1>1, <1>4, <1>5, SelectedDistinct DEF Claimable
  <2>2. QED
    BY <1>0, <1>1, <1>2, <1>3, <1>4, <1>5, <2>1, TakesOwn
<1>6. ASSUME NEW h \in Hosts, h \in NamedHost(m, machineCache[m]),
             work' = ProvisioningWork("get", m, machineCache[m], MachineInformer!Fresh(m), h)
      PROVE  Ownership'
  <2>1. /\ work' # Idle /\ work'.step = "get" /\ work'.m = m
        /\ work'.machine = machineCache[m] /\ work'.machineFresh = MachineInformer!Fresh(m)
        /\ work'.h = h /\ work'.host = hostCache[h]
        /\ work'.hostFresh = (hostCache[h].present /\ HostInformer!Fresh(h))
    BY <1>0, <1>2, <1>6, ProvisioningWorkType
  <2>2. hostCache[h] \in Views(h)
    BY <1>0, ViewsType
  <2>3. /\ HostFacts'
        /\ \A o \in Machines : Kept(o) => Kept(o)'
        /\ \A g \in Hosts : Views(g)' \subseteq Views(g)
    BY <1>0, <1>1, <2>1, <2>2, QuietHosts
  <2>4. MachineFacts'
    <3>1. MachineInformer!Agree' /\ Latest' /\ InOrder'
      BY <1>1, QuietMachines DEF Ownership, MachineFacts
    <3>2. MachineCopyCurrent'
      BY <1>1, <1>2, <2>1 DEF MachineCopyCurrent, machineVars
    <3>3. QED
      BY <3>1, <3>2 DEF MachineFacts
  <2>5. Reading'
    <3>1. machineCache[m].hostRef = None => machineCache[m].specHostRef = h
      BY <1>6 DEF NamedHost
    <3>2. Kept(work.m)'
      BY <1>4, <2>1, <2>3
    <3>3. QED
      BY <1>1, <1>3, <2>1, <3>1, <3>2 DEF Reading, machineVars
  <2>6. Candidate' /\ Tended' /\ Deleting'
    BY <2>1 DEF Candidate, Tended, Deleting, Claiming, Publishing, Releasing
  <2>7. Names' /\ Retained'
    BY <1>1, <2>3 DEF Ownership, Names, Retained, hostVars, machineVars
  <2>8. Settled'
    <3>1. HostInformer!Fresh(h) => \A v \in Views(h)' : v = work'.host
      BY <1>1, <2>1, FreshViews
    <3>2. QED
      BY <2>1, <3>1 DEF Settled
  <2>9. QED
    BY <2>3, <2>4, <2>5, <2>6, <2>7, <2>8 DEF Ownership
<1>7. QED
  <2>1. PICK step \in {"get", "claim"}, h \in Hosts :
          /\ work' = ProvisioningWork(step, m, machineCache[m], MachineInformer!Fresh(m), h)
          /\ step = "claim" => /\ h \in ListedHost(m, machineCache[m])
                               /\ Claimable(machineCache[m], h)
          /\ step = "get" => h \in NamedHost(m, machineCache[m])
    BY <1>0, BeginProvisions
  <2>2. QED
    BY <1>5, <1>6, <2>1

\* The controller reads the host that the machine names.
LEMMA GetNamedHostOwn ==
  ASSUME CopyInv, CopyInv', Ownership, GetNamedHost
  PROVE  Ownership'
<1>0. /\ TypeInv /\ WorkOK /\ work.step = "get" /\ work # Idle /\ Reading
      /\ UNCHANGED hostVars /\ UNCHANGED machineVars
      /\ capi' = capi /\ nextHostID' = nextHostID
  BY DEF Ownership, CopyInv, TypeInv, GetNamedHost, Busy, Idle
<1>1. /\ work.m \in Machines /\ work.h \in Hosts /\ work.machine \in TartMachine
      /\ work.machineFresh \in BOOLEAN
  BY <1>0 DEF WorkOK, Work
<1>2. CASE work' = Idle
  BY <1>0, <1>2, MovesOwn DEF CAPIFollows, Moves
<1>3. CASE /\ NamedHostSuits(work.m, work.machine, work.h) /\ Claimable(work.machine, work.h)
           /\ work' = ProvisioningWork("claim", work.m, work.machine, work.machineFresh, work.h)
  <2>1. /\ Kept(work.m) /\ work.machine.phase = "live" /\ work.machine.finalizer
        /\ Later(work.machine, machines[work.m]) /\ machines[work.m].phase # "gone"
        /\ work.machine.hostRef = None => work.machine.specHostRef = work.h
    BY <1>0 DEF Reading
  <2>2. work.machineFresh => work.machine = machines[work.m]
    BY <1>0 DEF Ownership, MachineFacts, MachineCopyCurrent
  <2>3. ASSUME work.machine.specHostRef # work.h,
               hosts[work.h].hostID = hostCache[work.h].hostID
        PROVE  hosts[work.h].consumer = work.m
    <3>1. hostCache[work.h].consumer = work.m
      BY <1>3, <2>1, <2>3 DEF NamedHostSuits
    <3>2. hostCache[work.h] \in Views(work.h)
      BY <1>0, <1>1, ViewsType
    <3>3. QED
      BY <1>1, <2>1, <2>3, <3>1, <3>2 DEF Kept
  <2>4. QED
    BY <1>0, <1>1, <1>3, <2>1, <2>2, <2>3, TakesOwn
<1>4. QED
  BY <1>2, <1>3 DEF GetNamedHost

\* The controller begins to release: the watch is past the machine's deletion.
LEMMA BeginDeletionOwn ==
  ASSUME CopyInv, CopyInv', Ownership, NEW m \in Machines, BeginDeletion(m)
  PROVE  Ownership'
<1>0. TypeInv /\ HostFacts /\ WorkOK /\ HostsOK /\ MachinesOK /\ work = Idle
  BY DEF Ownership, HostFacts, CopyInv, TypeInv, BeginDeletion
<1>1. /\ UNCHANGED hostVars /\ UNCHANGED machineVars
      /\ capi' = capi /\ nextHostID' = nextHostID /\ machineCache[m].phase = "deleting"
  BY DEF BeginDeletion
<1>2. PICK step \in {"removeFinalizer", "stop"}, h \in Hosts \union {None} :
        work' = DeletionWork(m, step, h)
  BY DEF BeginDeletion, HostToRelease
<1>3. /\ work' # Idle /\ work'.step = step /\ work'.m = m
      /\ work'.machine = machineCache[m] /\ work'.machineFresh = MachineInformer!Fresh(m)
      /\ work'.h = h
      /\ h # None => work'.host = hostCache[h] /\ (work'.hostFresh => HostInformer!Fresh(h))
  BY <1>2 DEF Idle, DeletionWork
<1>4. work'.h \notin Hosts \/ work'.host \in Views(work'.h)
  BY <1>0, <1>3, ViewsType, HostsAssumption
<1>5. /\ HostFacts'
      /\ \A o \in Machines : Kept(o) => Kept(o)'
      /\ \A g \in Hosts : Views(g)' \subseteq Views(g)
  BY <1>0, <1>1, <1>4, QuietHosts DEF Ownership
<1>6. /\ MachineInformer!Agree' /\ Latest' /\ InOrder'
      /\ \A o \in Machines : MachineViews(o)' = MachineViews(o)
  BY <1>1, QuietMachines DEF Ownership, MachineFacts
<1>7. MachineFacts'
  <2>1. MachineInformer!Fresh(m) => machineCache[m] = machines[m]
    BY <1>0 DEF Ownership, MachineFacts, MachineInformer!Agree, MachinesOK
  <2>2. MachineCopyCurrent'
    BY <1>1, <1>3, <2>1 DEF MachineCopyCurrent, machineVars
  <2>3. QED
    BY <1>6, <2>2 DEF MachineFacts
<1>8. ASSUME NEW v \in MachineViews(m)
      PROVE  Past(v)
  <2>1. \/ v = machines[m] \/ v = machineCache[m]
        \/ \E i \in 1..Len(machineEvents) :
             machineEvents[i].key = m /\ v = machineEvents[i].object
    BY DEF MachineViews
  <2>2. Past(machineCache[m])
    BY <1>1 DEF Past
  <2>3. Past(machines[m])
    <3>1. machineCache[m] \in MachineViews(m)
      BY <1>0, MachineViewsType
    <3>2. Later(machineCache[m], machines[m])
      BY <3>1 DEF Ownership, MachineFacts, Latest
    <3>3. QED
      BY <1>1, <3>2 DEF Later, Past
  <2>4. CASE \E i \in 1..Len(machineEvents) :
               machineEvents[i].key = m /\ v = machineEvents[i].object
    BY <2>2, <2>4 DEF Ownership, MachineFacts, InOrder
  <2>5. QED
    BY <2>1, <2>2, <2>3, <2>4
<1>9. Deleting'
  BY <1>3, <1>6, <1>8 DEF Deleting
<1>10. Candidate' /\ Tended' /\ Reading'
  BY <1>3 DEF Candidate, Tended, Reading, Claiming, Publishing
<1>11. Names' /\ Retained'
  BY <1>1, <1>5 DEF Ownership, Names, Retained, hostVars, machineVars
<1>12. Settled'
  <2>1. ASSUME h \in Hosts, HostInformer!Fresh(h)
        PROVE  \A v \in Views(h)' : v = work'.host
    BY <1>1, <1>3, <2>1, FreshViews, HostsAssumption
  <2>2. QED
    BY <1>3, <2>1, HostsAssumption DEF Settled
<1>13. QED
  BY <1>5, <1>7, <1>9, <1>10, <1>11, <1>12 DEF Ownership

\* What a write of the controller to its machine leaves as it is.
LEMMA MachineWritten ==
  ASSUME CopyInv, Ownership, NEW k \in Machines, NEW y \in TartMachine,
         MachineInformer!Write(k, y), UNCHANGED hostVars, nextHostID' = nextHostID,
         \/ work' = Idle
         \/ /\ work # Idle /\ work'.h = work.h /\ work'.host = work.host
            /\ work'.hostFresh = work.hostFresh,
         Later(machines[k], y),
         y.phase = "gone" => \A v \in MachineViews(k) : Past(v)
  PROVE  /\ HostFacts' /\ Settled' /\ Retained'
         /\ MachineInformer!Agree' /\ Latest' /\ InOrder'
         /\ machines'[k] = y /\ \A m \in Machines \ {k} : machines'[m] = machines[m]
         /\ \A m \in Machines : Kept(m) => Kept(m)'
         /\ \A h \in Hosts : Views(h)' \subseteq Views(h)
<1>0. TypeInv /\ HostFacts /\ WorkOK
  BY DEF Ownership, CopyInv, TypeInv
<1>1. work' = Idle \/ work'.h \notin Hosts \/ work'.host \in Views(work'.h)
  BY DEF Views
<1>2. /\ HostFacts'
      /\ \A m \in Machines : Kept(m) => Kept(m)'
      /\ \A h \in Hosts : Views(h)' \subseteq Views(h)
  BY <1>0, <1>1, QuietHosts DEF Ownership
<1>3. /\ MachineInformer!Agree' /\ Latest' /\ InOrder'
      /\ machineCache' = machineCache
      /\ machines'[k] = y /\ \A m \in Machines \ {k} : machines'[m] = machines[m]
  BY <1>0, MachineWriteFacts DEF Ownership, MachineFacts, Past
<1>4. Retained'
  BY <1>2, <1>3 DEF Ownership, Retained
<1>5. Settled'
  BY <1>2, QuietSettled DEF Ownership
<1>6. QED
  BY <1>2, <1>3, <1>4, <1>5

\* The published names after a write to a machine.
LEMMA NamesWritten ==
  ASSUME Names, NEW k \in Machines, NEW y \in TartMachine,
         machines'[k] = y, \A m \in Machines \ {k} : machines'[m] = machines[m],
         UNCHANGED hostVars, nextHostID' = nextHostID, capi' = capi,
         /\ y.providerID < nextHostID
         /\ y.phase # "absent"
         /\ capi[k].providerID # 0 => y.phase = "gone" \/ y.providerID = capi[k].providerID
         /\ y.hostRef # None => y.providerID # 0
         /\ y.providerID # 0 => \A h \in Hosts : hosts[h].hostID = y.providerID =>
              /\ y.hostRef \in {None, h}
              /\ ~Past(y) => hosts[h].consumer = k
  PROVE  Names'
<1> SUFFICES ASSUME NEW m \in Machines
             PROVE  /\ machines'[m].providerID < nextHostID
                    /\ machines'[m].phase = "absent" => machines'[m].providerID = 0
                    /\ capi[m].providerID # 0 =>
                         \/ machines'[m].phase = "gone"
                         \/ machines'[m].providerID = capi[m].providerID
                    /\ machines'[m].hostRef # None => machines'[m].providerID # 0
                    /\ machines'[m].providerID # 0 => \A h \in Hosts :
                         hosts[h].hostID = machines'[m].providerID =>
                           /\ machines'[m].hostRef \in {None, h}
                           /\ ~Past(machines'[m]) => hosts[h].consumer = m
  BY DEF Names, hostVars
<1>1. CASE m = k
  BY <1>1
<1>2. CASE m # k
  BY <1>2 DEF Names
<1>3. QED
  BY <1>1, <1>2

\* The machine's finalizer is added before anything else is done for it.
LEMMA AddMachineFinalizerOwn ==
  ASSUME CopyInv, CopyInv', Ownership, NEW m \in Machines, AddMachineFinalizer(m)
  PROVE  Ownership'
<1> DEFINE y == [machines[m] EXCEPT !.finalizer = TRUE]
<1>0. /\ MachinesOK /\ machines[m] \in TartMachine /\ work = Idle /\ work' = Idle
      /\ UNCHANGED hostVars /\ capi' = capi /\ nextHostID' = nextHostID /\ Names
  BY DEF Ownership, CopyInv, TypeInv, MachinesOK, AddMachineFinalizer
<1>1. machineCache[m] = machines[m] /\ machines[m].phase = "live"
  <2>1. MachineInformer!Fresh(m) /\ machineCache[m].phase = "live"
    BY DEF AddMachineFinalizer
  <2>2. machineCache[m] = machines[m]
    BY <1>0, <2>1 DEF Ownership, MachineFacts, MachineInformer!Agree, MachinesOK
  <2>3. QED
    BY <2>1, <2>2
<1>2. MachineInformer!Write(m, y)
  BY <1>1 DEF AddMachineFinalizer
<1>3. /\ y \in TartMachine /\ y.phase = "live" /\ y.finalizer
      /\ y.providerID = machines[m].providerID /\ y.hostRef = machines[m].hostRef
      /\ y.specHostRef = machines[m].specHostRef
      /\ y.failureDomain = machines[m].failureDomain
  BY <1>0, <1>1, MachineEdits DEF TartMachine
<1> HIDE DEF y
<1>4. Later(machines[m], y)
  BY <1>1, <1>3 DEF Later, Past
<1>5. /\ HostFacts' /\ Settled' /\ Retained'
      /\ MachineInformer!Agree' /\ Latest' /\ InOrder'
      /\ machines'[m] = y /\ \A o \in Machines \ {m} : machines'[o] = machines[o]
  BY <1>0, <1>2, <1>3, <1>4, MachineWritten
<1>6. Names'
  <2>1. /\ machines[m].providerID < nextHostID
        /\ capi[m].providerID # 0 =>
             machines[m].phase = "gone" \/ machines[m].providerID = capi[m].providerID
        /\ machines[m].hostRef # None => machines[m].providerID # 0
        /\ machines[m].providerID # 0 => \A h \in Hosts :
             hosts[h].hostID = machines[m].providerID =>
               /\ machines[m].hostRef \in {None, h}
               /\ ~Past(machines[m]) => hosts[h].consumer = m
    BY <1>0 DEF Names
  <2>2. ~Past(machines[m])
    BY <1>1 DEF Past
  <2>3. QED
    BY <1>0, <1>1, <1>3, <1>5, <2>1, <2>2, NamesWritten
<1>7. MachineCopyCurrent' /\ Reading' /\ Candidate' /\ Tended' /\ Deleting'
  BY <1>0 DEF MachineCopyCurrent, Reading, Candidate, Tended, Deleting, Idle,
              Claiming, Publishing, Releasing
<1>8. QED
  BY <1>5, <1>6, <1>7 DEF Ownership, MachineFacts

\* The ProviderID is published for a host that the machine holds.
LEMMA PublishProviderIDOwn ==
  ASSUME CopyInv, CopyInv', Ownership, PublishProviderID
  PROVE  Ownership'
<1>0. /\ TypeInv /\ WorkOK /\ HostFacts /\ Names /\ Candidate /\ Tended
      /\ work # Idle /\ work.step = "publish"
  BY DEF Ownership, CopyInv, TypeInv, PublishProviderID, Busy, Idle
<1>1. /\ work \in Work /\ work.m \in Machines /\ work.h \in Hosts
      /\ work.host \in Views(work.h) /\ work.machine \in TartMachine
      /\ work.host \in TartHost /\ hosts[work.h] \in Views(work.h)
  BY <1>0, WorkNames, ViewsType DEF Publishing, Work
<1>2. /\ UNCHANGED hostVars /\ capi' = capi /\ nextHostID' = nextHostID
  BY DEF PublishProviderID
<1>3. /\ work.host.consumer = work.m /\ work.host.hostID = work.expectedHostID
      /\ work.expectedHostID # 0 /\ work.expectedHostID < nextHostID /\ Kept(work.m)
      /\ \A v \in Views(work.h) : v.consumer # None => v.hostID = work.expectedHostID
  BY <1>0, <1>1, NoneAssumption DEF Candidate, Publishing
<1>4. /\ work.machine.phase = "live" /\ work.machine.finalizer
      /\ machines[work.m].phase # "gone" /\ Later(work.machine, machines[work.m])
      /\ work.mode = "ExplicitReusable" => work.machine.specHostRef = work.h
  BY <1>0 DEF Tended, Publishing
<1>5. CASE work.machine.providerID # 0 /\ work' = [work EXCEPT !.step = "sync"]
           /\ UNCHANGED machineVars
  <2>1. Moves
    <3>1. /\ work'.m = work.m /\ work'.machine = work.machine
          /\ work'.machineFresh = work.machineFresh /\ work'.h = work.h
          /\ work'.mode = work.mode /\ work'.expectedHostID = work.expectedHostID
          /\ work'.host = work.host /\ work'.hostFresh = work.hostFresh
          /\ work'.step = "sync"
      BY <1>1, <1>5 DEF Work
    <3>2. work' # Idle
      BY <3>1 DEF Idle
    <3>3. QED
      BY <1>0, <1>5, <3>1, <3>2 DEF Moves
  <2>2. QED
    BY <1>2, <1>5, <2>1, MovesOwn DEF CAPIFollows
<1>6. CASE work' = Idle /\ UNCHANGED machineVars
  BY <1>2, <1>6, MovesOwn DEF CAPIFollows, Moves
<1>7. CASE /\ work.machine.providerID = 0 /\ work.machineFresh
           /\ MachineInformer!Write(work.m,
                [work.machine EXCEPT !.providerID = work.host.hostID])
           /\ work' = [work EXCEPT !.step = "sync",
                !.machine = [work.machine EXCEPT !.providerID = work.host.hostID]]
  <2> DEFINE y == [work.machine EXCEPT !.providerID = work.host.hostID]
  <2>1. machines[work.m] = work.machine
    BY <1>0, <1>7 DEF Ownership, MachineFacts, MachineCopyCurrent
  <2>2. /\ y \in TartMachine /\ y.phase = "live" /\ y.finalizer
        /\ y.providerID = work.expectedHostID /\ y.hostRef = work.machine.hostRef
        /\ y.specHostRef = work.machine.specHostRef
        /\ y.failureDomain = work.machine.failureDomain
    <3>1. work.host.hostID \in Nat
      BY <1>1 DEF TartHost
    <3>2. QED
      BY <1>1, <1>3, <1>4, <3>1, MachineEdits DEF TartMachine
  <2>3. MachineInformer!Write(work.m, y)
    BY <1>7
  <2>4. /\ work' # Idle /\ work'.step = "sync" /\ work'.m = work.m /\ work'.machine = y
        /\ work'.h = work.h /\ work'.host = work.host /\ work'.hostFresh = work.hostFresh
        /\ work'.mode = work.mode /\ work'.expectedHostID = work.expectedHostID
    BY <1>1, <1>7 DEF Work, Idle
  <2> HIDE DEF y
  <2>5. Later(work.machine, y) /\ Later(y, y)
    BY <1>4, <1>7, <2>2 DEF Later, Past
  <2>6. /\ HostFacts' /\ Settled' /\ Retained'
        /\ MachineInformer!Agree' /\ Latest' /\ InOrder'
        /\ machines'[work.m] = y
        /\ \A o \in Machines \ {work.m} : machines'[o] = machines[o]
        /\ \A o \in Machines : Kept(o) => Kept(o)'
        /\ \A h \in Hosts : Views(h)' \subseteq Views(h)
    BY <1>0, <1>1, <1>2, <2>1, <2>2, <2>3, <2>4, <2>5, MachineWritten
  <2>7. Names'
    <3>1. capi[work.m].providerID = 0 /\ work.machine.hostRef = None
      BY <1>0, <1>1, <1>4, <1>7, <2>1 DEF Names
    <3>2. ASSUME NEW h \in Hosts, hosts[h].hostID = work.expectedHostID
          PROVE  hosts[h].consumer = work.m
      <4>1. hosts[h] \in Views(h)
        BY <1>0, ViewsType
      <4>2. h = work.h
        BY <1>0, <1>1, <1>3, <3>2, <4>1 DEF HostFacts, Unique
      <4>3. QED
        BY <1>1, <1>3, <3>2, <4>2 DEF Kept
    <3>3. QED
      BY <1>0, <1>1, <1>2, <1>3, <2>2, <2>6, <3>1, <3>2, NamesWritten
  <2>8. MachineCopyCurrent' /\ Deleting' /\ Reading'
    BY <2>4, <2>6 DEF MachineCopyCurrent, Deleting, Releasing, Reading
  <2>9. Candidate'
    <3>1. \/ work' = Idle
          \/ work'.step \notin Claiming \union Publishing
          \/ /\ work # Idle
             /\ work.step \in Claiming \union Publishing
             /\ work'.step \in Claiming => work.step \in Claiming /\ work'.machine = work.machine
             /\ work'.step \in Publishing => work'.host.consumer = work.m
             /\ work'.h = work.h /\ work'.m = work.m
             /\ work'.expectedHostID = work.expectedHostID
      BY <1>0, <1>3, <2>4 DEF Claiming, Publishing
    <3>2. QED
      BY <1>0, <1>2, <2>6, <3>1, QuietCandidate
  <2>10. Tended'
    BY <1>4, <2>2, <2>4, <2>5, <2>6 DEF Tended
  <2>11. QED
    BY <2>6, <2>7, <2>8, <2>9, <2>10 DEF Ownership, MachineFacts
<1>8. QED
  BY <1>5, <1>6, <1>7 DEF PublishProviderID

\* status.hostRef is published for the host that has the ProviderID.
LEMMA PublishStatusOwn ==
  ASSUME CopyInv, CopyInv', Ownership, PublishStatus
  PROVE  Ownership'
<1>0. /\ TypeInv /\ WorkOK /\ HostFacts /\ Names /\ Candidate /\ Tended
      /\ work # Idle /\ work.step = "status" /\ work' = Idle
      /\ UNCHANGED hostVars /\ capi' = capi /\ nextHostID' = nextHostID
  BY DEF Ownership, CopyInv, TypeInv, PublishStatus, Busy, Idle
<1>1. /\ work.m \in Machines /\ work.h \in Hosts
      /\ work.host \in Views(work.h) /\ machines[work.m] \in TartMachine
  BY <1>0, WorkNames DEF Publishing, TypeInv, MachinesOK
<1>2. CASE UNCHANGED machineVars
  BY <1>0, <1>2, MovesOwn DEF CAPIFollows, Moves
<1>3. CASE /\ machines[work.m].phase \in {"live", "deleting"}
           /\ MachineInformer!Write(work.m, [machines[work.m] EXCEPT !.hostRef = work.h])
  <2> DEFINE y == [machines[work.m] EXCEPT !.hostRef = work.h]
             x == machines[work.m]
  <2>1. /\ y \in TartMachine /\ y.phase = x.phase /\ y.finalizer = x.finalizer
        /\ y.providerID = x.providerID /\ y.hostRef = work.h
        /\ y.specHostRef = x.specHostRef /\ y.failureDomain = x.failureDomain
    BY <1>1, MachineEdits DEF TartMachine
  <2>2. MachineInformer!Write(work.m, y)
    BY <1>3
  <2> HIDE DEF y
  <2>3. Later(x, y) /\ y.phase # "gone" /\ y.phase # "absent"
    BY <1>3, <2>1 DEF Later, Past
  <2>4. /\ HostFacts' /\ Settled' /\ Retained'
        /\ MachineInformer!Agree' /\ Latest' /\ InOrder'
        /\ machines'[work.m] = y
        /\ \A o \in Machines \ {work.m} : machines'[o] = machines[o]
    BY <1>0, <1>1, <2>1, <2>2, <2>3, MachineWritten
  <2>5. /\ x.providerID = work.expectedHostID /\ work.expectedHostID # 0
        /\ work.host.hostID = work.expectedHostID
    BY <1>0, <1>1, NoneAssumption DEF Tended, Candidate, Publishing
  <2>6. Names'
    <3>1. ASSUME NEW h \in Hosts, hosts[h].hostID = y.providerID
          PROVE  y.hostRef = h /\ (~Past(y) => hosts[h].consumer = work.m)
      <4>1. hosts[h] \in Views(h)
        BY <1>0, ViewsType
      <4>2. h = work.h
        BY <1>0, <1>1, <2>1, <2>5, <3>1, <4>1 DEF HostFacts, Unique
      <4>3. ~Past(x) => hosts[h].consumer = work.m
        BY <1>0, <1>1, <2>1, <2>5, <3>1 DEF Names
      <4>4. QED
        BY <2>1, <4>2, <4>3 DEF Past
    <3>2. /\ y.providerID < nextHostID
          /\ capi[work.m].providerID # 0 =>
               y.phase = "gone" \/ y.providerID = capi[work.m].providerID
      BY <1>0, <1>1, <2>1 DEF Names
    <3>3. QED
      BY <1>0, <1>1, <2>1, <2>3, <2>4, <2>5, <3>1, <3>2, NamesWritten
  <2>7. MachineCopyCurrent' /\ Reading' /\ Candidate' /\ Tended' /\ Deleting'
    BY <1>0 DEF MachineCopyCurrent, Reading, Candidate, Tended, Deleting, Idle,
                Claiming, Publishing, Releasing
  <2>8. QED
    BY <2>4, <2>6, <2>7 DEF Ownership, MachineFacts
<1>4. QED
  BY <1>2, <1>3 DEF PublishStatus

\* The last finalizer goes when nothing shows the machine alive.
LEMMA RemoveMachineFinalizerOwn ==
  ASSUME CopyInv, CopyInv', Ownership, RemoveMachineFinalizer
  PROVE  Ownership'
<1> DEFINE y == [NoMachine EXCEPT !.phase = "gone"]
<1>0. /\ TypeInv /\ WorkOK /\ Names /\ Deleting
      /\ work # Idle /\ work.step = "removeFinalizer" /\ work' = Idle
      /\ UNCHANGED hostVars /\ capi' = capi /\ nextHostID' = nextHostID
  BY DEF Ownership, CopyInv, TypeInv, RemoveMachineFinalizer, Busy, Idle
<1>1. work.m \in Machines /\ machines[work.m] \in TartMachine
  BY <1>0, WorkNames DEF TypeInv, MachinesOK
<1>2. CASE UNCHANGED machineVars
  BY <1>0, <1>2, MovesOwn DEF CAPIFollows, Moves
<1>3. CASE MachineInformer!Write(work.m, y)
  <2>1. y \in TartMachine /\ y.phase = "gone" /\ y.providerID = 0 /\ y.hostRef = None
    BY RecordTypes DEF NoMachine
  <2> HIDE DEF y
  <2>2. Later(machines[work.m], y) /\ \A v \in MachineViews(work.m) : Past(v)
    BY <1>0, <2>1 DEF Later, Deleting, Releasing
  <2>3. /\ HostFacts' /\ Settled' /\ Retained'
        /\ MachineInformer!Agree' /\ Latest' /\ InOrder'
        /\ machines'[work.m] = y
        /\ \A o \in Machines \ {work.m} : machines'[o] = machines[o]
    BY <1>0, <1>1, <1>3, <2>1, <2>2, MachineWritten
  <2>4. nextHostID > 0
    BY <1>0, <1>1 DEF Names, TartMachine, TypeInv, RestOK
  <2>5. Names'
    BY <1>0, <1>1, <2>1, <2>3, <2>4, NamesWritten
  <2>6. MachineCopyCurrent' /\ Reading' /\ Candidate' /\ Tended' /\ Deleting'
    BY <1>0 DEF MachineCopyCurrent, Reading, Candidate, Tended, Deleting, Idle,
                Claiming, Publishing, Releasing
  <2>7. QED
    BY <2>3, <2>5, <2>6 DEF Ownership, MachineFacts
<1>4. QED
  BY <1>2, <1>3 DEF RemoveMachineFinalizer

\* The update of the host that the reconcile holds: what is written keeps the
\* registration, and every copy is of that registration.
Updates(x) ==
  /\ work # Idle /\ work.h \in Hosts /\ work.hostFresh
  /\ HostInformer!Write(work.h, x)
  /\ work' # Idle /\ work'.m = work.m /\ work'.machine = work.machine
  /\ work'.machineFresh = work.machineFresh
  /\ work'.h = work.h /\ work'.host = x
  /\ work'.mode = work.mode /\ work'.expectedHostID = work.expectedHostID
  /\ x.present = work.host.present /\ x.hostID = work.host.hostID
  /\ x.identity = work.host.identity /\ x.reidentified = work.host.reidentified
  /\ UNCHANGED <<machineVars, capi, nextHostID>>

\* What an update leaves as it is.
LEMMA UpdatesFacts ==
  ASSUME CopyInv, Ownership, NEW x \in TartHost, Updates(x),
         x.consumer # None => x.hostID # 0
  PROVE  /\ HostFacts' /\ Settled' /\ MachineFacts'
         /\ \A h \in Hosts : Views(h)' \subseteq Views(h) \union (IF h = work.h THEN {x} ELSE {})
         /\ hosts'[work.h] = x /\ \A h \in Hosts \ {work.h} : hosts'[h] = hosts[h]
         /\ \A m \in Machines : MachineViews(m)' = MachineViews(m)
         /\ work.host = hosts[work.h] /\ work.host \in Views(work.h)
         /\ \A m \in Machines : Kept(m) /\ (hosts[work.h].consumer = m => x.consumer = m)
              => Kept(m)'
<1>0. /\ TypeInv /\ HostFacts /\ HostsOK /\ nextHostID \in Nat
      /\ work # Idle /\ work.h \in Hosts /\ HostInformer!Write(work.h, x)
      /\ nextHostID' = nextHostID /\ UNCHANGED machineVars
  BY DEF Ownership, CopyInv, TypeInv, RestOK, Updates
<1>1. work.host = hosts[work.h] /\ work.host.present
  BY <1>0 DEF CopyInv, HostCopyCurrent, Updates
<1>2. /\ work.host \in Views(work.h)
      /\ \A v \in Views(work.h) : v.hostID = work.host.hostID
      /\ work.host.hostID < nextHostID
  BY <1>0 DEF Views, Ownership, Settled, Updates, HostFacts, Sound
<1>3. \A h \in Hosts : Views(h)' \subseteq Views(h) \union (IF h = work.h THEN {x} ELSE {})
  BY <1>0, WriteViews DEF Updates
<1>4. hosts'[work.h] = x /\ \A h \in Hosts \ {work.h} : hosts'[h] = hosts[h]
  BY <1>0 DEF HostsOK, HostInformer!Write
<1>5. x.present /\ x.hostID = hosts[work.h].hostID /\ KeepsIdentity(hosts[work.h], x)
  BY <1>1 DEF Updates, KeepsIdentity
<1>6. HostFacts'
  <2>1. x.consumer # None => \A v \in Views(work.h) : v.hostID = x.hostID
    BY <1>1, <1>2, <1>5
  <2>2. x.hostID < nextHostID'
    BY <1>0, <1>1, <1>2, <1>5
  <2>3. QED
    BY <1>0, <1>3, <1>5, <2>1, <2>2, WriteFacts
<1>7. \A m \in Machines : Kept(m) /\ (hosts[work.h].consumer = m => x.consumer = m) => Kept(m)'
  BY <1>0, <1>3, <1>5, KeptWrite
<1>8. Settled'
  <2>1. \A v \in Views(work.h)' : v.hostID = x.hostID
    BY <1>0, <1>1, <1>2, <1>3, <1>5 DEF Updates
  <2>2. QED
    BY <2>1 DEF Settled, Updates
<1>9. /\ MachineInformer!Agree' /\ Latest' /\ InOrder'
      /\ \A m \in Machines : MachineViews(m)' = MachineViews(m)
  BY <1>0, QuietMachines DEF Ownership, MachineFacts
<1>10. MachineFacts'
  <2>1. MachineCopyCurrent'
    BY <1>0 DEF Ownership, MachineFacts, MachineCopyCurrent, Updates, machineVars
  <2>2. QED
    BY <1>9, <2>1 DEF MachineFacts
<1>11. QED
  BY <1>1, <1>2, <1>3, <1>4, <1>6, <1>7, <1>8, <1>9, <1>10

\* What the claim writes, to a host that is free.
Claims(x) ==
  /\ Updates(x) /\ work.step = "claim" /\ work'.step = "publish"
  /\ work.host.consumer = None /\ x = [work.host EXCEPT !.consumer = work.m]
  /\ ValidateClaimCandidate(work.host, ClaimRequest)

\* What the release writes, to a host that the machine holds.
Releases(x) ==
  /\ Updates(x) /\ work.step = "retain" /\ work'.step = "removeFinalizer"
  /\ work.host.consumer = work.m
  /\ x = [work.host EXCEPT !.consumer = None, !.previous = work.m]

\* The two loops write these or write nothing.
LEMMA LoopForms ==
  ASSUME CopyInv, ClaimHostWithRequest \/ RetainHost
  PROVE  \/ \E x \in TartHost : Claims(x) \/ Releases(x)
         \/ Moves /\ UNCHANGED <<hostVars, machineVars, capi, nextHostID>>
<1>0. WorkOK /\ work # Idle /\ work \in Work /\ work.h \in Hosts
      /\ work.m \in Machines /\ work.host \in TartHost
  BY DEF CopyInv, TypeInv, WorkOK, ClaimHostWithRequest, RetainHost, Busy, Idle, Work
<1>1. UNCHANGED <<machineVars, capi, nextHostID>>
  BY DEF ClaimHostWithRequest, RetainHost
<1>2. ASSUME NEW step \in Steps, work' = [work EXCEPT !.step = step]
      PROVE  /\ work' # Idle /\ work'.step = step
             /\ work'.m = work.m /\ work'.machine = work.machine
             /\ work'.machineFresh = work.machineFresh /\ work'.h = work.h
             /\ work'.mode = work.mode /\ work'.expectedHostID = work.expectedHostID
             /\ work'.host = work.host /\ work'.hostFresh = work.hostFresh
  BY <1>0, <1>2 DEF Work, Steps, Idle
<1>3. ASSUME NEW x \in TartHost, NEW step \in Steps, UpdateAccepted(x, step),
             x.present = work.host.present, x.hostID = work.host.hostID,
             x.identity = work.host.identity, x.reidentified = work.host.reidentified
      PROVE  Updates(x) /\ work'.step = step
  <2>1. work' = [work EXCEPT !.step = step, !.host = x]
    BY <1>3 DEF UpdateAccepted
  <2>2. /\ work'.step = step /\ work'.m = work.m /\ work'.machine = work.machine
        /\ work'.machineFresh = work.machineFresh
        /\ work'.h = work.h /\ work'.host = x
        /\ work'.mode = work.mode /\ work'.expectedHostID = work.expectedHostID
    BY <1>0, <2>1 DEF Work
  <2>3. work' # Idle
    BY <2>2 DEF Steps, Idle
  <2>4. QED
    BY <1>0, <1>1, <1>3, <2>2, <2>3 DEF Updates, UpdateAccepted
<1>4. CASE work' = Idle /\ UNCHANGED hostVars
  BY <1>1, <1>4 DEF Moves
<1>5. ASSUME NEW step \in Steps, UpdateRejected(step),
             \/ work.step \in Claiming /\ step \in Claiming
             \/ work.step \in Releasing /\ step \in Releasing
      PROVE  Moves /\ UNCHANGED hostVars
  <2>1. work' = Idle \/ work' = [work EXCEPT !.step = step]
    BY <1>5 DEF UpdateRejected
  <2>2. QED
    BY <1>0, <1>2, <1>5, <2>1 DEF Moves, UpdateRejected
<1>6. CASE ClaimHostWithRequest
  <2> DEFINE x == [work.host EXCEPT !.consumer = work.m]
  <2>1. work.step = "claim"
    BY <1>6 DEF ClaimHostWithRequest, Busy
  <2>2. CASE DecideClaim(work.host, work.m) = "noop"
             /\ work' = [work EXCEPT !.step = "publish"] /\ UNCHANGED hostVars
    <3>1. work.host.consumer = work.m
      BY <2>2 DEF DecideClaim
    <3>2. QED
      BY <1>0, <1>1, <1>2, <2>1, <2>2, <3>1 DEF Moves, Steps
  <2>3. CASE /\ DecideClaim(work.host, work.m) = "apply"
             /\ ValidateClaimCandidate(work.host, ClaimRequest)
             /\ UpdateAccepted(x, "publish")
    <3>1. work.host.consumer = None
      BY <2>3 DEF DecideClaim
    <3>2. x \in TartHost
      BY <1>0, HostEdits
    <3>3. x.present = work.host.present /\ x.hostID = work.host.hostID
          /\ x.identity = work.host.identity /\ x.reidentified = work.host.reidentified
      BY <1>0 DEF TartHost
    <3>4. Updates(x) /\ work'.step = "publish"
      BY <1>3, <2>3, <3>2, <3>3 DEF Steps
    <3>5. Claims(x)
      BY <2>1, <2>3, <3>1, <3>4 DEF Claims
    <3>6. QED
      BY <3>2, <3>5
  <2>4. CASE UpdateRejected("refreshClaim")
    BY <1>1, <1>5, <2>1, <2>4 DEF Steps, Claiming
  <2>5. QED
    BY <1>4, <1>6, <2>2, <2>3, <2>4 DEF ClaimHostWithRequest
<1>7. CASE RetainHost
  <2> DEFINE x == [work.host EXCEPT !.consumer = None, !.previous = work.m]
  <2>1. work.step = "retain"
    BY <1>7 DEF RetainHost, Busy
  <2>2. CASE work' = [work EXCEPT !.step = "removeFinalizer"] /\ UNCHANGED hostVars
    BY <1>0, <1>1, <1>2, <2>1, <2>2 DEF Moves, Steps, Releasing
  <2>3. CASE /\ DecideRetention(work.host, work.m) = "apply"
             /\ UpdateAccepted(x, "removeFinalizer")
    <3>1. work.host.consumer = work.m
      BY <2>3 DEF DecideRetention
    <3>2. x \in TartHost
      BY <1>0, HostEdits
    <3>3. x.present = work.host.present /\ x.hostID = work.host.hostID
          /\ x.identity = work.host.identity /\ x.reidentified = work.host.reidentified
      BY <1>0 DEF TartHost
    <3>4. Updates(x) /\ work'.step = "removeFinalizer"
      BY <1>3, <2>3, <3>2, <3>3 DEF Steps
    <3>5. Releases(x)
      BY <2>1, <3>1, <3>4 DEF Releases
    <3>6. QED
      BY <3>2, <3>5
  <2>4. CASE UpdateRejected("refreshRetain")
    BY <1>1, <1>5, <2>1, <2>4 DEF Steps, Releasing
  <2>5. QED
    BY <1>4, <1>7, <2>2, <2>3, <2>4 DEF RetainHost
<1>8. QED
  BY <1>6, <1>7

\* A claim.
LEMMA ClaimsOwn ==
  ASSUME CopyInv, CopyInv', Ownership, NEW x \in TartHost, Claims(x)
  PROVE  Ownership'
<1>0. /\ Updates(x) /\ TypeInv /\ WorkOK /\ Candidate /\ Tended /\ Names /\ work # Idle
      /\ work.step = "claim" /\ work'.step = "publish" /\ work.host.consumer = None
      /\ UNCHANGED <<machineVars, capi, nextHostID>>
  BY DEF Claims, Updates, Ownership, CopyInv, TypeInv
<1>1. /\ work \in Work /\ work.m \in Machines /\ work.h \in Hosts /\ work.host \in TartHost
      /\ work.m # None
  BY <1>0, WorkNames, NoneAssumption DEF Claiming, Work
<1>2. /\ x.consumer = work.m /\ x.identity = work.host.identity
      /\ x.hostID = work.expectedHostID /\ work.expectedHostID # 0
      /\ work.host.hostID = work.expectedHostID
  <2>1. x = [work.host EXCEPT !.consumer = work.m]
    BY DEF Claims
  <2>2. x.consumer = work.m /\ x.identity = work.host.identity /\ x.hostID = work.host.hostID
    BY <1>1, <2>1 DEF TartHost
  <2>3. work.host.hostID = work.expectedHostID
    BY DEF Claims, ValidateClaimCandidate, ClaimRequest
  <2>4. QED
    BY <1>0, <2>2, <2>3 DEF Candidate, Claiming
<1>3. /\ HostFacts' /\ Settled' /\ MachineFacts'
      /\ \A h \in Hosts : Views(h)' \subseteq Views(h) \union (IF h = work.h THEN {x} ELSE {})
      /\ hosts'[work.h] = x /\ \A h \in Hosts \ {work.h} : hosts'[h] = hosts[h]
      /\ work.host = hosts[work.h] /\ work.host \in Views(work.h)
      /\ \A m \in Machines : Kept(m) /\ (hosts[work.h].consumer = m => x.consumer = m)
           => Kept(m)'
  BY <1>0, <1>2, UpdatesFacts
<1>4. \A m \in Machines : Kept(m) => Kept(m)'
  BY <1>0, <1>3, NoneAssumption
<1>5. Retained'
  BY <1>0, <1>4 DEF Ownership, Retained, machineVars
<1>6. work'.h = work.h /\ work'.m = work.m /\ work'.host = x /\ work'.machine = work.machine
      /\ work'.expectedHostID = work.expectedHostID /\ work'.mode = work.mode
  BY <1>0 DEF Updates
<1>7. Candidate'
  <2>1. /\ work.expectedHostID < nextHostID /\ Kept(work.m)
        /\ \A v \in Views(work.h) : v.consumer # None => v.hostID = work.expectedHostID
    BY <1>0 DEF Candidate, Claiming
  <2>2. \A v \in Views(work.h)' : v.consumer # None => v.hostID = work.expectedHostID
    BY <1>1, <1>2, <1>3, <1>6, <2>1
  <2>3. Kept(work.m)'
    BY <1>1, <1>4, <1>6, <2>1
  <2>4. work'.step \notin Claiming
    BY <1>0 DEF Claiming
  <2>5. QED
    BY <1>0, <1>2, <1>6, <2>1, <2>2, <2>3, <2>4 DEF Candidate
<1>8. Tended'
  BY <1>0, <1>6 DEF Tended, Claiming, machineVars
<1>9. Deleting'
  BY <1>0 DEF Deleting, Releasing
<1>10. Names'
  <2> SUFFICES ASSUME NEW m \in Machines, machines[m].providerID # 0, NEW h \in Hosts,
                      hosts'[h].hostID = machines[m].providerID
               PROVE  /\ machines[m].hostRef \in {None, h}
                      /\ ~Past(machines[m]) => hosts'[h].consumer = m
    BY <1>0 DEF Names, machineVars
  <2>1. hosts[h].hostID = machines[m].providerID
    BY <1>2, <1>3
  <2>2. /\ machines[m].hostRef \in {None, h}
        /\ ~Past(machines[m]) => hosts[h].consumer = m
    BY <1>0, <2>1 DEF Names
  <2>3. QED
    BY <1>0, <1>3, <2>2, NoneAssumption
<1>11. Reading'
  BY <1>0 DEF Reading
<1>12. QED
  BY <1>3, <1>5, <1>7, <1>8, <1>9, <1>10, <1>11 DEF Ownership

\* A release.
LEMMA ReleasesOwn ==
  ASSUME CopyInv, CopyInv', Ownership, NEW x \in TartHost, Releases(x)
  PROVE  Ownership'
<1>0. /\ Updates(x) /\ TypeInv /\ WorkOK /\ Deleting /\ Names /\ work # Idle
      /\ work.step = "retain" /\ work'.step = "removeFinalizer"
      /\ work.host.consumer = work.m
      /\ UNCHANGED <<machineVars, capi, nextHostID>>
  BY DEF Releases, Updates, Ownership, CopyInv, TypeInv
<1>1. /\ work \in Work /\ work.m \in Machines /\ work.h \in Hosts /\ work.host \in TartHost
  BY <1>0, WorkNames DEF Updates, Work
<1>2. x.consumer = None /\ x.hostID = work.host.hostID
  BY <1>1 DEF Releases, TartHost
<1>3. /\ HostFacts' /\ Settled' /\ MachineFacts'
      /\ hosts'[work.h] = x /\ \A h \in Hosts \ {work.h} : hosts'[h] = hosts[h]
      /\ \A m \in Machines : MachineViews(m)' = MachineViews(m)
      /\ work.host = hosts[work.h]
      /\ \A m \in Machines : Kept(m) /\ (hosts[work.h].consumer = m => x.consumer = m)
           => Kept(m)'
  BY <1>0, <1>2, UpdatesFacts
<1>4. Past(machineCache[work.m]) /\ Past(machines[work.m])
  BY <1>0, <1>1, MachineViewsType DEF Deleting, Releasing
<1>5. Retained'
  <2> SUFFICES ASSUME NEW m \in Machines, ~Past(machineCache[m])
               PROVE  Kept(m)'
    BY <1>0 DEF Retained, machineVars
  <2>1. Kept(m) /\ m # work.m
    BY <1>4 DEF Ownership, Retained
  <2>2. QED
    BY <1>0, <1>3, <2>1
<1>6. Candidate' /\ Tended'
  BY <1>0 DEF Candidate, Tended, Claiming, Publishing
<1>7. Deleting'
  <2>1. \A v \in MachineViews(work.m) : Past(v)
    BY <1>0 DEF Deleting, Releasing
  <2>2. work'.m = work.m /\ MachineViews(work.m)' = MachineViews(work.m)
    BY <1>0, <1>1, <1>3 DEF Updates
  <2>3. QED
    BY <2>1, <2>2 DEF Deleting
<1>8. Names'
  <2> SUFFICES ASSUME NEW m \in Machines, machines[m].providerID # 0, NEW h \in Hosts,
                      hosts'[h].hostID = machines[m].providerID
               PROVE  /\ machines[m].hostRef \in {None, h}
                      /\ ~Past(machines[m]) => hosts'[h].consumer = m
    BY <1>0 DEF Names, machineVars
  <2>1. hosts[h].hostID = machines[m].providerID
    BY <1>2, <1>3
  <2>2. /\ machines[m].hostRef \in {None, h}
        /\ ~Past(machines[m]) => hosts[h].consumer = m
    BY <1>0, <2>1 DEF Names
  <2>3. QED
    BY <1>0, <1>3, <1>4, <2>2
<1>9. Reading'
  BY <1>0 DEF Reading
<1>10. QED
  BY <1>3, <1>5, <1>6, <1>7, <1>8, <1>9 DEF Ownership

\* Every step of the TartMachine controller keeps the invariant.
LEMMA TartMachineStepOwn ==
  ASSUME CopyInv, CopyInv', Ownership, TartMachineStep
  PROVE  Ownership'
<1>0. WorkOK /\ (work # Idle => work \in Work)
  BY DEF CopyInv, TypeInv, WorkOK
<1>1. CASE \E m \in Machines : \/ AddMachineFinalizer(m)
                               \/ BeginProvisioning(m) \/ BeginDeletion(m)
  BY <1>1, AddMachineFinalizerOwn, BeginProvisioningOwn, BeginDeletionOwn
<1>2. CASE ClaimHostWithRequest \/ RetainHost
  <2>1. CASE \E x \in TartHost : Claims(x) \/ Releases(x)
    BY <2>1, ClaimsOwn, ReleasesOwn
  <2>2. CASE Moves /\ UNCHANGED <<hostVars, machineVars, capi, nextHostID>>
    BY <2>2, MovesOwn DEF CAPIFollows
  <2>3. QED
    BY <1>2, <2>1, <2>2, LoopForms
<1>3. CASE PublishProviderID \/ PublishStatus \/ RemoveMachineFinalizer
  BY <1>3, PublishProviderIDOwn, PublishStatusOwn, RemoveMachineFinalizerOwn
<1>4. ASSUME NEW from \in {"refreshClaim", "refreshRetain"}, NEW to \in {"claim", "retain"},
             RefreshHost(from, to), from = "refreshClaim" <=> to = "claim"
      PROVE  Ownership'
  <2>1. /\ work # Idle /\ work.step = from
        /\ UNCHANGED hostVars /\ UNCHANGED machineVars
        /\ capi' = capi /\ nextHostID' = nextHostID
    BY <1>4 DEF RefreshHost, Busy, Idle
  <2>2. work \in Work /\ work.h \in Hosts
    BY <1>0, <2>1 DEF WorkOK
  <2>3. work' = Idle \/ work' = [work EXCEPT !.step = to, !.host = hostCache[work.h],
                                   !.hostFresh = HostInformer!Fresh(work.h),
                                   !.attempt = work.attempt + 1]
    BY <1>4 DEF RefreshHost
  <2>4. CASE work' # Idle
    <3>1. /\ work'.step = to /\ work'.m = work.m /\ work'.machine = work.machine
          /\ work'.machineFresh = work.machineFresh /\ work'.h = work.h
          /\ work'.mode = work.mode /\ work'.expectedHostID = work.expectedHostID
          /\ work'.host = hostCache[work.h]
          /\ work'.hostFresh = HostInformer!Fresh(work.h)
      BY <2>2, <2>3, <2>4 DEF Work
    <3>2. /\ \/ work.step \in Claiming /\ work'.step \in Claiming
             \/ work.step \in Releasing /\ work'.step \in Releasing
          /\ work'.step \notin Publishing
      BY <1>4, <2>1, <3>1 DEF Claiming, Releasing, Publishing
    <3>3. Moves
      BY <2>1, <2>2, <2>4, <3>1, <3>2 DEF Moves
    <3>4. QED
      BY <2>1, <3>3, MovesOwn DEF CAPIFollows
  <2>5. CASE work' = Idle
    BY <2>1, <2>5, MovesOwn DEF CAPIFollows, Moves
  <2>6. QED
    BY <2>4, <2>5
<1>5. ASSUME work # Idle, NEW step \in Steps, work' = [work EXCEPT !.step = step]
      PROVE  /\ work' # Idle /\ work'.step = step
             /\ work'.m = work.m /\ work'.machine = work.machine
             /\ work'.machineFresh = work.machineFresh /\ work'.h = work.h
             /\ work'.mode = work.mode /\ work'.expectedHostID = work.expectedHostID
             /\ work'.host = work.host /\ work'.hostFresh = work.hostFresh
  BY <1>0, <1>5 DEF Work, Steps, Idle
<1>6. CASE SyncCAPIProviderID
  <2>1. /\ work # Idle /\ work.step = "sync"
        /\ UNCHANGED hostVars /\ UNCHANGED machineVars /\ nextHostID' = nextHostID
    BY <1>6 DEF SyncCAPIProviderID, Busy, Idle
  <2>2. Moves
    <3>1. work' = Idle \/ work' = [work EXCEPT !.step = "status"]
      BY <1>6 DEF SyncCAPIProviderID
    <3>2. QED
      BY <1>5, <2>1, <3>1 DEF Moves, Steps
  <2>3. work.m \in Machines /\ work.host.hostID = machines[work.m].providerID
    <3>1. /\ work.m \in Machines /\ work.host \in Views(work.h) /\ work.m # None
      BY <1>0, <2>1, WorkNames, NoneAssumption DEF Publishing
    <3>2. work.host.consumer = work.m /\ work.host.hostID = work.expectedHostID
      BY <2>1, <3>1 DEF Ownership, Candidate, Publishing
    <3>3. machines[work.m].providerID = work.expectedHostID
      BY <2>1 DEF Ownership, Tended, Publishing
    <3>4. QED
      BY <3>1, <3>2, <3>3
  <2>4. CAPIFollows
    <3>1. \/ capi' = capi
          \/ capi' = [capi EXCEPT ![work.m].providerID = work.host.hostID]
      BY <1>6 DEF SyncCAPIProviderID
    <3>2. QED
      BY <2>3, <3>1 DEF CAPIFollows, CopyInv, TypeInv, RestOK
  <2>5. QED
    BY <2>1, <2>2, <2>4, MovesOwn
<1>7. CASE ObserveHostStopped
  <2>1. /\ work # Idle /\ work.step = "stop" /\ work' = [work EXCEPT !.step = "retain"]
        /\ UNCHANGED hostVars /\ UNCHANGED machineVars
        /\ capi' = capi /\ nextHostID' = nextHostID
    BY <1>7 DEF ObserveHostStopped, Busy, Idle
  <2>2. Moves
    BY <1>5, <2>1 DEF Moves, Steps, Releasing
  <2>3. QED
    BY <2>1, <2>2, MovesOwn DEF CAPIFollows
<1>8. CASE Abort
  BY <1>8, MovesOwn DEF Abort, CAPIFollows, Moves
<1>10. CASE GetNamedHost
  BY <1>10, GetNamedHostOwn
<1>9. QED
  <2>1. RefreshHost("refreshClaim", "claim") \/ RefreshHost("refreshRetain", "retain")
          => Ownership'
    BY <1>4
  <2>2. QED
    BY <1>1, <1>2, <1>3, <1>6, <1>7, <1>8, <1>10, <2>1 DEF TartMachineStep

\* The invariant holds at the start,
LEMMA OwnershipInit == Init => Ownership
<1> SUFFICES ASSUME Init PROVE Ownership
  OBVIOUS
<1>0. /\ work = Idle /\ hostEvents = <<>> /\ machineEvents = <<>> /\ nextHostID = 1
      /\ hosts = [h \in Hosts |-> NoHost] /\ hostCache = hosts
      /\ machines = [m \in Machines |-> NoMachine] /\ machineCache = machines
      /\ capi = [m \in Machines |-> [providerID |-> 0, drained |-> FALSE]]
  BY DEF Init
<1>1. NoHost.hostID = 0 /\ NoHost.consumer = None
  BY DEF NoHost, NewHost
<1>2. \A h \in Hosts : \A v \in Views(h) : v = NoHost
  BY <1>0 DEF Views
<1>3. HostFacts
  <2>1. Sound /\ Unique /\ Known /\ Held
    BY <1>0, <1>1, <1>2 DEF Sound, Unique, Known, Held
  <2>2. Behind
    BY <1>0 DEF Behind
  <2>3. QED
    BY <2>1, <2>2 DEF HostFacts
<1>4. Retained
  BY <1>1, <1>2, NoneAssumption DEF Retained, Kept
<1>5. MachineFacts
  <2>1. \A m \in Machines : \A v \in MachineViews(m) : v = NoMachine
    BY <1>0 DEF MachineViews
  <2>2. Latest
    BY <1>0, <2>1 DEF Latest, Later, NoMachine
  <2>3. MachineInformer!Agree /\ InOrder
    BY <1>0 DEF MachineInformer!Agree, InOrder
  <2>4. QED
    BY <1>0, <2>2, <2>3 DEF MachineFacts, MachineCopyCurrent
<1>6. Settled /\ Candidate /\ Tended /\ Deleting
  BY <1>0 DEF Settled, Candidate, Tended, Deleting, Idle, Claiming, Publishing, Releasing
<1>7. Names
  <2>1. \A m \in Machines :
          /\ machines[m].providerID = 0 /\ machines[m].hostRef = None
          /\ capi[m].providerID = 0
    BY <1>0 DEF NoMachine
  <2>2. ASSUME NEW m \in Machines
        PROVE  machines[m].providerID < nextHostID
    <3>1. machines[m].providerID = 0 /\ nextHostID = 1
      BY <1>0, <2>1
    <3>2. QED
      BY <3>1
  <2>3. QED
    BY <2>1, <2>2 DEF Names
<1>8. Reading
  BY <1>0 DEF Reading, Idle
<1>9. QED
  BY <1>3, <1>4, <1>5, <1>6, <1>7, <1>8 DEF Ownership

\* and after every step.
LEMMA OwnershipStep == CopyInv /\ Ownership /\ [Next]_vars => Ownership'
<1> SUFFICES ASSUME CopyInv, CopyInv', Ownership, [Next]_vars
             PROVE  Ownership'
  BY CopyStep
<1>1. CASE UserStep \/ TartHostStep
  BY <1>1, OthersForms, OthersHostOwn, OthersMachineOwn, DrainsOwn
<1>2. CASE TartMachineStep
  BY <1>2, TartMachineStepOwn
<1>3. CASE DeliverHost \/ DeliverMachine
  BY <1>3, DeliverOwn
<1>4. CASE UNCHANGED vars
  <2>1. Drains
    BY <1>4 DEF vars, Drains, CAPIKept
  <2>2. QED
    BY <2>1, DrainsOwn
<1>5. QED
  BY <1>1, <1>2, <1>3, <1>4 DEF Next

\* So it holds always.
LEMMA OwnershipInvariant == Spec => [](CopyInv /\ Ownership)
BY CopyInit, OwnershipInit, CopyStep, OwnershipStep, PTL DEF Spec

\* The host that a live machine's ProviderID names is that machine's as long as
\* it is registered: the name is published only after the claim was stored, and
\* RetainHost releases only for a machine whose deletion every copy shows.
THEOREM LiveMachineHolds == Spec => []LiveMachineHoldsItsHost
<1>1. Ownership => LiveMachineHoldsItsHost
  BY DEF Ownership, Names, LiveMachineHoldsItsHost, Past
<1>2. QED
  BY <1>1, OwnershipInvariant, PTL

\* The CAPI Machine's ProviderID and status.hostRef never disagree with the
\* TartMachine's ProviderID, wherever PublishProviderID, SyncCAPIProviderID and
\* PublishStatus are interrupted and however old the copies are they work on.
THEOREM NamesAgree == Spec => []ProviderIDsAgree
<1>1. Ownership => ProviderIDsAgree
  BY DEF Ownership, Names, ProviderIDsAgree
<1>2. QED
  BY <1>1, OwnershipInvariant, PTL

\* What can happen to the stored hosts in a step.
LEMMA HostSteps ==
  ASSUME CopyInv, [Next]_vars
  PROVE  \/ hosts' = hosts
         \/ \E h \in Hosts, x \in TartHost : OthersHost(h, x)
         \/ \E x \in TartHost : Claims(x) \/ Releases(x)
<1>1. CASE UserStep \/ TartHostStep
  BY <1>1, OthersForms DEF OthersMachine, Drains, hostVars
<1>2. CASE ClaimHostWithRequest \/ RetainHost
  BY <1>2, LoopForms DEF hostVars
<1>3. CASE TartMachineStep /\ ~(ClaimHostWithRequest \/ RetainHost)
  BY <1>3 DEF TartMachineStep, AddMachineFinalizer, BeginProvisioning, BeginDeletion,
              GetNamedHost, RefreshHost, PublishProviderID, SyncCAPIProviderID, PublishStatus,
              ObserveHostStopped, RemoveMachineFinalizer, Abort, hostVars
<1>4. CASE DeliverHost
  BY <1>4 DEF DeliverHost, HostInformer!Deliver
<1>5. CASE DeliverMachine
  BY <1>5 DEF DeliverMachine, hostVars
<1>6. CASE UNCHANGED vars
  BY <1>6 DEF vars, hostVars
<1>7. QED
  BY <1>1, <1>2, <1>3, <1>4, <1>5, <1>6 DEF Next

\* The update of a held host writes what was computed from the stored host.
LEMMA UpdateWrites ==
  ASSUME CopyInv, NEW x \in TartHost, Updates(x)
  PROVE  /\ work.host = hosts[work.h] /\ work.host.present
         /\ hosts'[work.h] = x /\ \A h \in Hosts \ {work.h} : hosts'[h] = hosts[h]
         /\ work.h \in Hosts /\ work.host \in TartHost /\ work.m \in Machines
         /\ work.m # None /\ WorkOK /\ x.present
BY NoneAssumption DEF CopyInv, HostCopyCurrent, TypeInv, HostsOK, WorkOK, Work, Updates,
                      HostInformer!Write

\* A write of others changes one host.
LEMMA OthersWrites ==
  ASSUME CopyInv, NEW k \in Hosts, NEW x \in TartHost, OthersHost(k, x)
  PROVE  hosts'[k] = x /\ \A h \in Hosts \ {k} : hosts'[h] = hosts[h]
BY DEF CopyInv, TypeInv, HostsOK, OthersHost, OthersWriteHost, HostInformer!Write

\* A claim ends only in RetainHost, for a machine that is being deleted and is
\* recorded as the previous consumer, or with the host: no write of the other
\* controller, a user or another machine's reconcile takes it away.
THEOREM ClaimsNotStolen == Spec => ClaimsAreNotStolen
<1> DEFINE A == \A h \in Hosts :
         LET m == hosts[h].consumer
         IN m # None /\ hosts'[h].consumer # m /\ hosts'[h].present
              => /\ hosts'[h].consumer = None /\ hosts'[h].previous = m
                 /\ machines[m].phase # "live"
<1>1. ASSUME CopyInv, Ownership, [Next]_vars
      PROVE  A
  <2> SUFFICES ASSUME NEW h \in Hosts, hosts[h].consumer # None,
                      hosts'[h].consumer # hosts[h].consumer, hosts'[h].present
               PROVE  /\ hosts'[h].consumer = None /\ hosts'[h].previous = hosts[h].consumer
                      /\ machines[hosts[h].consumer].phase # "live"
    OBVIOUS
  <2>1. hosts[h].hostID # 0 /\ hosts[h].present
    <3>1. hosts[h] \in Views(h)
      BY <1>1, ViewsType DEF CopyInv
    <3>2. QED
      BY <1>1, <3>1 DEF Ownership, HostFacts, Sound
  <2>2. ASSUME NEW k \in Hosts, NEW x \in TartHost, OthersHost(k, x)
        PROVE  FALSE
    <3>1. hosts'[k] = x /\ \A g \in Hosts \ {k} : hosts'[g] = hosts[g]
      BY <1>1, <2>2, OthersWrites
    <3>2. h = k
      BY <3>1
    <3>3. QED
      BY <2>1, <2>2, <3>1, <3>2 DEF OthersHost, Edited, Renewed, Dropped, Named
  <2>3. ASSUME NEW x \in TartHost, Claims(x)
        PROVE  FALSE
    <3>1. Updates(x) /\ work.host.consumer = None
      BY <2>3 DEF Claims
    <3>2. QED
      BY <1>1, <3>1, UpdateWrites
  <2>4. ASSUME NEW x \in TartHost, Releases(x)
        PROVE  /\ hosts'[h].consumer = None /\ hosts'[h].previous = hosts[h].consumer
               /\ machines[hosts[h].consumer].phase # "live"
    <3>1. /\ Updates(x) /\ work.host.consumer = work.m /\ work.step = "retain"
          /\ x = [work.host EXCEPT !.consumer = None, !.previous = work.m]
      BY <2>4 DEF Releases
    <3>2. /\ work.host = hosts[work.h] /\ hosts'[work.h] = x
          /\ \A g \in Hosts \ {work.h} : hosts'[g] = hosts[g]
          /\ work.h \in Hosts /\ work.host \in TartHost /\ work.m \in Machines
      BY <1>1, <3>1, UpdateWrites
    <3>3. h = work.h
      BY <3>2
    <3>4. x.consumer = None /\ x.previous = work.m
      BY <3>1, <3>2 DEF TartHost
    <3>5. Past(machines[work.m])
      BY <1>1, <3>1, <3>2, MachineViewsType
         DEF CopyInv, Ownership, Deleting, Releasing
    <3>6. QED
      BY <3>1, <3>2, <3>3, <3>4, <3>5 DEF Past
  <2>5. QED
    BY <1>1, <2>2, <2>3, <2>4, HostSteps
<1>2. QED
  BY <1>1, OwnershipInvariant, PTL DEF Spec, ClaimsAreNotStolen

\* The update of ClaimHostWithRequest lands on a host that is eligible when it
\* is stored, for a machine that has not gone: the copy validated is the stored
\* one, and what the request was made from does not change with time.
THEOREM ClaimsEligible == Spec => ClaimsAreEligible
<1> DEFINE A == \A h \in Hosts, m \in Machines :
         hosts[h].consumer # m /\ hosts'[h].consumer = m
           => /\ hosts'[h] = [hosts[h] EXCEPT !.consumer = m]
              /\ hosts[h].present /\ hosts[h].hostID # 0
              /\ machines[m].phase \in {"live", "deleting"}
              /\ MatchesForFailureDomain(hosts[h], machines[m].failureDomain)
              /\ \/ hosts[h].previous = None
                 \/ ReuseApproved(hosts[h]) /\ machines[m].specHostRef = h
<1>1. ASSUME CopyInv, Ownership, [Next]_vars
      PROVE  A
  <2> SUFFICES ASSUME NEW h \in Hosts, NEW m \in Machines,
                      hosts[h].consumer # m, hosts'[h].consumer = m
               PROVE  /\ hosts'[h] = [hosts[h] EXCEPT !.consumer = m]
                      /\ hosts[h].present /\ hosts[h].hostID # 0
                      /\ machines[m].phase \in {"live", "deleting"}
                      /\ MatchesForFailureDomain(hosts[h], machines[m].failureDomain)
                      /\ \/ hosts[h].previous = None
                         \/ ReuseApproved(hosts[h]) /\ machines[m].specHostRef = h
    OBVIOUS
  <2>1. m # None
    BY NoneAssumption
  <2>2. ASSUME NEW k \in Hosts, NEW x \in TartHost, OthersHost(k, x)
        PROVE  FALSE
    <3>1. hosts'[k] = x /\ \A g \in Hosts \ {k} : hosts'[g] = hosts[g]
      BY <1>1, <2>2, OthersWrites
    <3>2. h = k
      BY <3>1
    <3>3. QED
      BY <2>1, <2>2, <3>1, <3>2 DEF OthersHost, Edited, Renewed, Dropped, Named
  <2>3. ASSUME NEW x \in TartHost, Releases(x)
        PROVE  FALSE
    <3>1. Updates(x) /\ x = [work.host EXCEPT !.consumer = None, !.previous = work.m]
      BY <2>3 DEF Releases
    <3>2. /\ hosts'[work.h] = x /\ work.host \in TartHost
          /\ \A g \in Hosts \ {work.h} : hosts'[g] = hosts[g]
      BY <1>1, <3>1, UpdateWrites
    <3>3. x.consumer = None
      BY <3>1, <3>2 DEF TartHost
    <3>4. QED
      BY <2>1, <3>2, <3>3
  <2>4. ASSUME NEW x \in TartHost, Claims(x)
        PROVE  /\ hosts'[h] = [hosts[h] EXCEPT !.consumer = m]
               /\ hosts[h].present /\ hosts[h].hostID # 0
               /\ machines[m].phase \in {"live", "deleting"}
               /\ MatchesForFailureDomain(hosts[h], machines[m].failureDomain)
               /\ \/ hosts[h].previous = None
                  \/ ReuseApproved(hosts[h]) /\ machines[m].specHostRef = h
    <3>1. /\ Updates(x) /\ work.step = "claim" /\ work # Idle
          /\ x = [work.host EXCEPT !.consumer = work.m]
          /\ ValidateClaimCandidate(work.host, ClaimRequest)
      BY <2>4 DEF Claims, Updates
    <3>2. /\ work.host = hosts[work.h] /\ work.host.present /\ hosts'[work.h] = x
          /\ \A g \in Hosts \ {work.h} : hosts'[g] = hosts[g]
          /\ work.h \in Hosts /\ work.host \in TartHost
      BY <1>1, <3>1, UpdateWrites
    <3>3. h = work.h /\ m = work.m
      <4>1. x.consumer = work.m
        BY <3>1, <3>2 DEF TartHost
      <4>2. QED
        BY <3>2, <4>1
    <3>4. /\ work.machine.phase = "live" /\ Later(work.machine, machines[m])
          /\ machines[m].phase # "gone"
          /\ work.mode = "ExplicitReusable" => work.machine.specHostRef = h
          /\ work.expectedHostID # 0
      BY <1>1, <3>1, <3>3 DEF Ownership, Tended, Candidate, Claiming
    <3>5. /\ machines[m].phase \in {"live", "deleting"}
          /\ machines[m].failureDomain = work.machine.failureDomain
          /\ machines[m].specHostRef = work.machine.specHostRef
      BY <3>4 DEF Later
    <3>6. /\ work.host.hostID = work.expectedHostID
          /\ MatchesForFailureDomain(work.host, work.machine.failureDomain)
          /\ Classify(work.host) = IF work.mode = "FreshAutomatic"
                                   THEN "Available" ELSE "Reusable"
      BY <3>1 DEF ValidateClaimCandidate, ClaimRequest
    <3>7. work.mode \in {"FreshAutomatic", "ExplicitReusable"}
      BY <1>1, <3>1 DEF CopyInv, TypeInv, WorkOK, Work, ClaimModes
    <3>8. \/ hosts[h].previous = None
          \/ ReuseApproved(hosts[h]) /\ machines[m].specHostRef = h
      <4>1. CASE work.mode = "FreshAutomatic"
        BY <3>2, <3>3, <3>6, <4>1 DEF Classify
      <4>2. CASE work.mode = "ExplicitReusable"
        BY <3>2, <3>3, <3>4, <3>5, <3>6, <4>2 DEF Classify
      <4>3. QED
        BY <3>7, <4>1, <4>2
    <3>9. hosts'[h] = [hosts[h] EXCEPT !.consumer = m]
      BY <3>1, <3>2, <3>3
    <3>10. MatchesForFailureDomain(hosts[h], machines[m].failureDomain)
      BY <3>2, <3>3, <3>5, <3>6
    <3>11. QED
      BY <3>2, <3>3, <3>4, <3>5, <3>6, <3>8, <3>9, <3>10
  <2>5. QED
    BY <1>1, <2>1, <2>2, <2>3, <2>4, HostSteps
<1>2. QED
  BY <1>1, OwnershipInvariant, PTL DEF Spec, ClaimsAreEligible

\* A machine is never given a host that was registered with the identity of a
\* claimed one, unless its spec.hostRef names the host: HasIdentityConflictForAny
\* and the selection look at one List, and of a host that is claimed the cache has
\* no copy from before its HostID, so that the List shows the identity.
THEOREM NoDuplicateSelected == Spec => SelectsNoDuplicate
<1> DEFINE A == \A h, g \in Hosts, m \in Machines :
         Duplicates(h, g) /\ hosts[g].consumer # None
           /\ hosts[h].consumer # m /\ hosts'[h].consumer = m
         => machines[m].specHostRef = h
<1>1. ASSUME CopyInv, Ownership, [Next]_vars
      PROVE  A
  <2> SUFFICES ASSUME NEW h \in Hosts, NEW g \in Hosts, NEW m \in Machines,
                      Duplicates(h, g), hosts[g].consumer # None,
                      hosts[h].consumer # m, hosts'[h].consumer = m
               PROVE  machines[m].specHostRef = h
    OBVIOUS
  <2>1. m # None
    BY NoneAssumption
  <2>2. ASSUME NEW k \in Hosts, NEW x \in TartHost, OthersHost(k, x)
        PROVE  FALSE
    <3>1. hosts'[k] = x /\ \A f \in Hosts \ {k} : hosts'[f] = hosts[f]
      BY <1>1, <2>2, OthersWrites
    <3>2. h = k
      BY <3>1
    <3>3. QED
      BY <2>1, <2>2, <3>1, <3>2 DEF OthersHost, Edited, Renewed, Dropped, Named
  <2>3. ASSUME NEW x \in TartHost, Releases(x)
        PROVE  FALSE
    <3>1. Updates(x) /\ x = [work.host EXCEPT !.consumer = None, !.previous = work.m]
      BY <2>3 DEF Releases
    <3>2. /\ hosts'[work.h] = x /\ work.host \in TartHost
          /\ \A f \in Hosts \ {work.h} : hosts'[f] = hosts[f]
      BY <1>1, <3>1, UpdateWrites
    <3>3. x.consumer = None
      BY <3>1, <3>2 DEF TartHost
    <3>4. QED
      BY <2>1, <3>2, <3>3
  <2>4. ASSUME NEW x \in TartHost, Claims(x)
        PROVE  machines[m].specHostRef = h
    <3>1. /\ Updates(x) /\ work.step = "claim" /\ work # Idle
          /\ x = [work.host EXCEPT !.consumer = work.m]
          /\ work.host.hostID = work.expectedHostID
      BY <2>4 DEF Claims, Updates, ValidateClaimCandidate, ClaimRequest
    <3>2. /\ work.host = hosts[work.h] /\ hosts'[work.h] = x
          /\ \A f \in Hosts \ {work.h} : hosts'[f] = hosts[f]
          /\ work.h \in Hosts /\ work.host \in TartHost
      BY <1>1, <3>1, UpdateWrites
    <3>3. h = work.h /\ m = work.m
      <4>1. x.consumer = work.m
        BY <3>1, <3>2 DEF TartHost
      <4>2. QED
        BY <3>2, <4>1
    <3>4. work.machine.specHostRef = h
      BY <1>1, <3>1, <3>2, <3>3 DEF Ownership, Candidate, Claiming, Distinct
    <3>5. work.machine.phase = "live" /\ Later(work.machine, machines[m])
          /\ machines[m].phase # "gone"
      BY <1>1, <3>1, <3>3 DEF Ownership, Tended, Claiming
    <3>6. QED
      BY <3>4, <3>5 DEF Later
  <2>5. QED
    BY <1>1, <2>2, <2>3, <2>4, HostSteps
<1>2. QED
  BY <1>1, OwnershipInvariant, PTL DEF Spec, SelectsNoDuplicate

\* A host that carries the finalizer leaves the inventory only with an approval
\* of its stored consumers: FinalizeHost looks at a copy that is the stored one.
THEOREM FinalizedWhenApproved == Spec => FinalizedOnlyWhenApproved
<1> DEFINE A == \A h \in Hosts :
         hosts[h].present /\ hosts[h].finalizer /\ ~hosts'[h].present
           => DeletionApproved(hosts[h])
<1>1. ASSUME CopyInv, [Next]_vars
      PROVE  A
  <2> SUFFICES ASSUME NEW h \in Hosts, hosts[h].present, hosts[h].finalizer,
                      ~hosts'[h].present
               PROVE  DeletionApproved(hosts[h])
    OBVIOUS
  <2>1. ASSUME NEW k \in Hosts, NEW x \in TartHost, OthersHost(k, x)
        PROVE  DeletionApproved(hosts[h])
    <3>1. hosts'[k] = x /\ \A g \in Hosts \ {k} : hosts'[g] = hosts[g]
      BY <1>1, <2>1, OthersWrites
    <3>2. h = k
      BY <3>1
    <3>3. QED
      BY <2>1, <3>1, <3>2 DEF OthersHost, Edited, Renewed, Dropped, Named
  <2>2. ASSUME NEW x \in TartHost, Claims(x) \/ Releases(x)
        PROVE  FALSE
    <3>1. Updates(x)
      BY <2>2 DEF Claims, Releases
    <3>2. QED
      BY <1>1, <3>1, UpdateWrites
  <2>3. QED
    BY <1>1, <2>1, <2>2, HostSteps
<1>2. QED
  BY <1>1, OwnershipInvariant, PTL DEF Spec, FinalizedOnlyWhenApproved

=============================================================================
