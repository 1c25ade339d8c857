------------------------------ MODULE HostClaim ------------------------------
(***************************************************************************)
(* Allocation and release of TartHosts: the TartMachine controller's       *)
(* claim and retention paths, the TartHost controller's writes to the same *)
(* objects, and the users who register, relabel, approve and delete.       *)
(*                                                                         *)
(* Both controllers read through informer caches that lag the API server.  *)
(* The TartMachine controller runs one reconcile at a time; its state is   *)
(* work, and every API call of it is a step of its own, so that any write  *)
(* of anybody else, and a crash, can fall between two of them.  Talos and  *)
(* power operations are not here: that a host was seen to have stopped is  *)
(* the environment's choice (MachineShutdown models that part).            *)
(***************************************************************************)
EXTENDS HostRecord, FiniteSets, Sequences

CONSTANTS
  Hosts,            \* the names of TartHosts
  HostRefs,         \* the values users give a machine's spec.hostRef
  Placements,       \* the failure domains CAPI Machines ask for
  Score(_, _),      \* hostScore: the rendezvous score of a machine and HostID
  MaxHostID,        \* bound: HostIDs the TartHost controller hands out
  MaxHostLag,       \* bound: TartHost watch events on their way
  MaxMachineLag,    \* bound: TartMachine watch events on their way
  MaxEdits          \* bound: writes of users and status patches of hosts

ASSUME HostsAssumption ==
  /\ None \notin Hosts
  /\ HostRefs \subseteq Hosts \union {None}
  /\ Placements \subseteq FailureDomains \union {None}

VARIABLES
  hosts, hostCache, hostEvents,             \* TartHosts: stored, cached, on the way
  machines, machineCache, machineEvents,    \* TartMachines, likewise
  capi,                                     \* the CAPI Machine of each TartMachine
  work,                                     \* the reconcile in flight, or Idle
  nextHostID,                               \* the next HostID to hand out
  edits                                     \* bounded writes made so far

hostVars == <<hosts, hostCache, hostEvents>>
machineVars == <<machines, machineCache, machineEvents>>
vars == <<hostVars, machineVars, capi, work, nextHostID, edits>>

HostInformer == INSTANCE Informer WITH
  stored <- hosts, cache <- hostCache, events <- hostEvents,
  MaxLag <- MaxHostLag

MachineInformer == INSTANCE Informer WITH
  stored <- machines, cache <- machineCache, events <- machineEvents,
  MaxLag <- MaxMachineLag

-----------------------------------------------------------------------------
(* Types.                                                                  *)

MaybeHost == Hosts \union {None}

TartMachine ==
  [phase: {"absent", "live", "deleting", "gone"}, finalizer: BOOLEAN,
   providerID: Nat, hostRef: MaybeHost,
   specHostRef: MaybeHost, failureDomain: FailureDomains \union {None}]

NoMachine ==
  [phase |-> "absent", finalizer |-> FALSE, providerID |-> 0,
   hostRef |-> None, specHostRef |-> None, failureDomain |-> None]

Steps == {"get", "claim", "refreshClaim", "publish", "sync", "status",
          "stop", "retain", "refreshRetain", "removeFinalizer"}

NoHost ==
  [NewHost(CHOOSE i \in Identities : TRUE, CHOOSE d \in FailureDomains : TRUE)
     EXCEPT !.present = FALSE]

\* A reconcile in flight holds copies of the machine and the host it read,
\* whether each is still the stored version, and the claim request.
Work ==
  [step: Steps, m: Machines, machine: TartMachine, machineFresh: BOOLEAN,
   h: MaybeHost, host: TartHost, hostFresh: BOOLEAN,
   mode: ClaimModes, expectedHostID: Nat, attempt: 1..3]

Idle == [step |-> "idle"]

Busy(step) == work.step = step

claimAttempts == 3

TypeOK ==
  /\ hosts \in [Hosts -> TartHost] /\ hostCache \in [Hosts -> TartHost]
  /\ hostEvents \in Seq([key: Hosts, object: TartHost])
  /\ machines \in [Machines -> TartMachine]
  /\ machineCache \in [Machines -> TartMachine]
  /\ machineEvents \in Seq([key: Machines, object: TartMachine])
  /\ capi \in [Machines -> [providerID: Nat, drained: BOOLEAN]]
  /\ work \in Work \union {Idle}
  /\ nextHostID \in Nat /\ edits \in Nat

Init ==
  /\ hosts = [h \in Hosts |-> NoHost] /\ hostCache = hosts /\ hostEvents = <<>>
  /\ machines = [m \in Machines |-> NoMachine]
  /\ machineCache = machines /\ machineEvents = <<>>
  /\ capi = [m \in Machines |-> [providerID |-> 0, drained |-> FALSE]]
  /\ work = Idle
  /\ nextHostID = 1
  /\ edits = 0

-----------------------------------------------------------------------------
(* Writes.  A write of anybody else to the object the reconcile in flight  *)
(* holds makes its copy stale: an Update or a Patch with an optimistic     *)
(* lock on that copy will then conflict.                                   *)

OthersWriteHost(h, host) ==
  /\ HostInformer!Write(h, host)
  /\ work' = IF work # Idle /\ work.h = h
             THEN [work EXCEPT !.hostFresh = FALSE] ELSE work

OthersWriteMachine(m, machine) ==
  /\ MachineInformer!Write(m, machine)
  /\ work' = IF work # Idle /\ work.m = m
             THEN [work EXCEPT !.machineFresh = FALSE] ELSE work

Edit ==
  /\ edits < MaxEdits
  /\ edits' = edits + 1

DeliverHost == HostInformer!Deliver /\ UNCHANGED <<machineVars, capi, work, nextHostID, edits>>

DeliverMachine == MachineInformer!Deliver /\ UNCHANGED <<hostVars, capi, work, nextHostID, edits>>

-----------------------------------------------------------------------------
(* Users and Cluster API.                                                  *)

RegisterHost(h, identity, fd) ==
  /\ ~hosts[h].present
  /\ Edit
  /\ OthersWriteHost(h, NewHost(identity, fd))
  /\ UNCHANGED <<machineVars, capi, nextHostID>>

EditHost(h, host) ==
  /\ hosts[h].present /\ host # hosts[h]
  /\ Edit
  /\ OthersWriteHost(h, host)
  /\ UNCHANGED <<machineVars, capi, nextHostID>>

Relabel(h, fd) == EditHost(h, [hosts[h] EXCEPT !.failureDomain = fd])

\* A user corrects the MAC address, or the inventory shows another system UUID or disk.
Reidentify(h, identity) ==
  /\ identity # hosts[h].identity
  /\ EditHost(h, [hosts[h] EXCEPT !.identity = identity, !.reidentified = TRUE])

\* A user may approve the reuse after the machine that holds, or last held,
\* the host.
ApproveReuse(h, mode) ==
  \E uid \in {hosts[h].consumer, hosts[h].previous} \ {None} :
    EditHost(h, [hosts[h] EXCEPT !.reuse = [uid |-> uid, mode |-> mode]])

\* A user approves the deletion of the host as it is now.
ApproveHostDeletion(h) ==
  EditHost(h, [hosts[h] EXCEPT !.deletionApproval =
     [consumer |-> hosts[h].consumer, previous |-> hosts[h].previous]])

\* The API server drops an object without a finalizer at once.
DeleteHost(h) ==
  EditHost(h, IF hosts[h].finalizer THEN [hosts[h] EXCEPT !.deleting = TRUE]
                                    ELSE NoHost)

CreateMachine(m, specHostRef, fd) ==
  /\ machines[m].phase = "absent"
  /\ Edit
  /\ OthersWriteMachine(m, [NoMachine EXCEPT !.phase = "live",
        !.specHostRef = specHostRef, !.failureDomain = fd])
  /\ UNCHANGED <<hostVars, capi, nextHostID>>

DeleteMachine(m) ==
  /\ machines[m].phase = "live"
  /\ Edit
  /\ OthersWriteMachine(m, IF machines[m].finalizer
                           THEN [machines[m] EXCEPT !.phase = "deleting"]
                           ELSE [NoMachine EXCEPT !.phase = "gone"])
  /\ UNCHANGED <<hostVars, capi, nextHostID>>

\* The CAPI Machine controller reports that drain and volume detach are done.
CAPIDrained(m) ==
  /\ machines[m].phase = "deleting" /\ ~capi[m].drained
  /\ capi' = [capi EXCEPT ![m].drained = TRUE]
  /\ UNCHANGED <<hostVars, machineVars, work, nextHostID, edits>>

-----------------------------------------------------------------------------
(* The TartHost controller.  Each of its writes of spec or metadata is one *)
(* Patch with an optimistic lock, which succeeds only on the version read. *)

\* Mutant: a merge patch without the optimistic lock.
HostUnlocked(h, host) == OthersWriteHost(h, host)

HostLocked(h, host) ==
  /\ HostInformer!Fresh(h)
  /\ OthersWriteHost(h, host)

AssignHostID(h) ==
  /\ hostCache[h].present /\ ~hostCache[h].deleting /\ hostCache[h].hostID = 0
  /\ nextHostID <= MaxHostID
  /\ HostLocked(h, [hostCache[h] EXCEPT !.hostID = nextHostID])
  /\ nextHostID' = nextHostID + 1
  /\ UNCHANGED <<machineVars, capi, edits>>

AddHostFinalizer(h) ==
  /\ hostCache[h].present /\ ~hostCache[h].deleting
  /\ hostCache[h].hostID # 0 /\ ~hostCache[h].finalizer
  /\ HostLocked(h, [hostCache[h] EXCEPT !.finalizer = TRUE])
  /\ UNCHANGED <<machineVars, capi, nextHostID, edits>>

\* A discovery pass ends in a status patch without a lock; but for an inventory
\* (Reidentify) it changes no field of the model, only the version.
PatchHostStatus(h) ==
  /\ hostCache[h].present /\ hosts[h].present
  /\ ~hostCache[h].deleting => hostCache[h].finalizer
  /\ Edit
  /\ OthersWriteHost(h, hosts[h])
  /\ UNCHANGED <<machineVars, capi, nextHostID>>

FinalizeHost(h) ==
  /\ hostCache[h].present /\ hostCache[h].deleting /\ hostCache[h].finalizer
  /\ DeletionApproved(hostCache[h])
  /\ HostLocked(h, NoHost)
  /\ UNCHANGED <<machineVars, capi, nextHostID, edits>>

-----------------------------------------------------------------------------
(* The TartMachine controller: allocation.                                 *)

AddMachineFinalizer(m) ==
  /\ work = Idle
  /\ machineCache[m].phase = "live" /\ ~machineCache[m].finalizer
  /\ MachineInformer!Fresh(m)
  /\ MachineInformer!Write(m, [machineCache[m] EXCEPT !.finalizer = TRUE])
  /\ UNCHANGED <<hostVars, capi, work, nextHostID, edits>>

\* Mutant: allocation does not look for conflicts.
NoConflictCheck == FALSE

HasIdentityConflictForAny ==
  \E h, g \in Hosts :
    /\ h # g /\ hostCache[h].present /\ hostCache[g].present
    /\ hostCache[h].identity = hostCache[g].identity

\* Hosts the rendezvous selection may return: the fresh hosts in the failure
\* domain with a HostID and the highest score.
SelectFresh(m, fd) ==
  LET candidates ==
        {h \in Hosts : /\ hostCache[h].present
                       /\ Classify(hostCache[h]) = "Available"
                       /\ hostCache[h].hostID # 0
                       /\ MatchesForFailureDomain(hostCache[h], fd)}
  IN {h \in candidates : \A g \in candidates :
        Score(m, hostCache[h].hostID) >= Score(m, hostCache[g].hostID)}

Claimed(view, m) == {h \in Hosts : view[h].present /\ view[h].consumer = m}

\* The host that observedOrSelectedHost reads by its name, after the List: the one
\* of status.hostRef, or of spec.hostRef when the List shows none claimed.
NamedHost(m, machine) ==
  IF machine.hostRef # None
  THEN {machine.hostRef} \ {h \in Hosts : machine.specHostRef \notin {None, h}}
  ELSE IF Claimed(hostCache, m) = {} THEN {machine.specHostRef} \ {None} ELSE {}

\* Otherwise the hosts of the List that allocation may go on with.
ListedHost(m, machine) ==
  LET fd == machine.failureDomain
  IN IF machine.hostRef # None THEN {}
     ELSE IF Claimed(hostCache, m) # {}
     THEN {h \in Claimed(hostCache, m) : MatchesForFailureDomain(hostCache[h], fd)}
     ELSE IF machine.specHostRef = None THEN SelectFresh(m, fd) ELSE {}

\* What is asked of the host that was read by its name.
NamedHostSuits(m, machine, h) ==
  LET host == hostCache[h]
      matches == MatchesForFailureDomain(host, machine.failureDomain)
  IN /\ host.present
     /\ IF machine.hostRef # None THEN host.consumer = m /\ matches
        ELSE \/ host.consumer = m
             \/ Classify(host) \in {"Available", "Reusable"} /\ matches

ClaimModeForSelectedHost(machine, h) ==
  IF machine.specHostRef = h /\ Classify(hostCache[h]) = "Reusable"
  THEN "ExplicitReusable" ELSE "FreshAutomatic"

\* A reconcile that provisions, with the cached copies it has read.
ProvisioningWork(step, m, machine, machineFresh, h) ==
  [step |-> step, m |-> m, machine |-> machine, machineFresh |-> machineFresh,
   h |-> h, host |-> hostCache[h],
   hostFresh |-> hostCache[h].present /\ HostInformer!Fresh(h),
   mode |-> ClaimModeForSelectedHost(machine, h),
   expectedHostID |-> hostCache[h].hostID, attempt |-> 1]

\* Mutant: a host whose identity is not the published ProviderID is accepted.
ClaimableWithAnyHostID(machine, h) == hostCache[h].hostID # 0

\* The host has a HostID, and it is the one that was published.
Claimable(machine, h) ==
  hostCache[h].hostID # 0 /\ machine.providerID \in {0, hostCache[h].hostID}

\* Reconcile reads the machine, lists the hosts and looks for conflicts; it picks a
\* host of that List, or goes on to read one by its name.
BeginProvisioning(m) ==
  LET machine == machineCache[m]
      begin(step, h) == work' = ProvisioningWork(step, m, machine, MachineInformer!Fresh(m), h)
  IN /\ work = Idle
     /\ machine.phase = "live" /\ machine.finalizer
     /\ ~HasIdentityConflictForAny
     /\ \/ \E h \in ListedHost(m, machine) : Claimable(machine, h) /\ begin("claim", h)
        \/ \E h \in NamedHost(m, machine) : begin("get", h)
     /\ UNCHANGED <<hostVars, machineVars, capi, nextHostID, edits>>

\* The cache may have moved on since the List.
GetNamedHost ==
  /\ Busy("get")
  /\ work' = IF NamedHostSuits(work.m, work.machine, work.h) /\ Claimable(work.machine, work.h)
             THEN ProvisioningWork("claim", work.m, work.machine, work.machineFresh, work.h)
             ELSE Idle
  /\ UNCHANGED <<hostVars, machineVars, capi, nextHostID, edits>>

ClaimRequest ==
  [expectedHostID |-> work.expectedHostID, mode |-> work.mode,
   failureDomain |-> work.machine.failureDomain]

\* Mutant: the update overwrites whatever is stored.
UpdateWithoutVersion(host, step) ==
  /\ HostInformer!Write(work.h, host)
  /\ work' = [work EXCEPT !.step = step, !.host = host]

\* The reconcile's Update of its copy is accepted and the copy becomes the
\* stored version.
UpdateAccepted(host, step) ==
  /\ work.hostFresh
  /\ HostInformer!Write(work.h, host)
  /\ work' = [work EXCEPT !.step = step, !.host = host]

\* Mutant: the attempts are not counted.
RetryForever(step) ==
  /\ ~work.hostFresh
  /\ work' = IF hosts[work.h].present THEN [work EXCEPT !.step = step] ELSE Idle
  /\ UNCHANGED hostVars

\* It is not: NotFound and a third conflict end the reconcile, a conflict
\* before that makes it read the host again.
UpdateRejected(step) ==
  /\ ~work.hostFresh
  /\ work' = IF hosts[work.h].present /\ work.attempt < claimAttempts
             THEN [work EXCEPT !.step = step] ELSE Idle
  /\ UNCHANGED hostVars

\* One round of the loop of ClaimHostWithRequest.
ClaimHostWithRequest ==
  LET decision == DecideClaim(work.host, work.m)
      valid == ValidateClaimCandidate(work.host, ClaimRequest)
  IN /\ Busy("claim")
     /\ \/ /\ decision = "noop"
           /\ work' = [work EXCEPT !.step = "publish"]
           /\ UNCHANGED hostVars
        \/ /\ decision = "conflict" \/ (decision = "apply" /\ ~valid)
           /\ work' = Idle
           /\ UNCHANGED hostVars
        \/ /\ decision = "apply" /\ valid
           /\ \/ UpdateAccepted([work.host EXCEPT !.consumer = work.m], "publish")
              \/ UpdateRejected("refreshClaim")
     /\ UNCHANGED <<machineVars, capi, nextHostID, edits>>

\* The Get after a conflict, which the cache answers.
RefreshHost(from, to) ==
  /\ Busy(from)
  /\ work' = IF hostCache[work.h].present
             THEN [work EXCEPT !.step = to, !.host = hostCache[work.h],
                               !.hostFresh = HostInformer!Fresh(work.h),
                               !.attempt = @ + 1]
             ELSE Idle
  /\ UNCHANGED <<hostVars, machineVars, capi, nextHostID, edits>>

\* The providerID patch, with an optimistic lock, when the copy has none yet.
PublishProviderID ==
  LET published == [work.machine EXCEPT !.providerID = work.host.hostID]
  IN /\ Busy("publish")
     /\ \/ /\ work.machine.providerID # 0
           /\ work' = [work EXCEPT !.step = "sync"]
           /\ UNCHANGED machineVars
        \/ /\ work.machine.providerID = 0 /\ work.machineFresh
           /\ MachineInformer!Write(work.m, published)
           /\ work' = [work EXCEPT !.step = "sync", !.machine = published]
        \/ /\ work.machine.providerID = 0 /\ ~work.machineFresh
           /\ work' = Idle
           /\ UNCHANGED machineVars
     /\ UNCHANGED <<hostVars, capi, nextHostID, edits>>

SyncCAPIProviderID ==
  LET id == work.host.hostID
  IN /\ Busy("sync")
     /\ \/ /\ capi[work.m].providerID \in {0, id}
           /\ capi' = [capi EXCEPT ![work.m].providerID = id]
           /\ work' = [work EXCEPT !.step = "status"]
        \/ /\ work' = [work EXCEPT !.step = "status"]  \* CAPI Machine unavailable
           /\ UNCHANGED capi
        \/ /\ capi[work.m].providerID \notin {0, id}
           /\ work' = Idle
           /\ UNCHANGED capi
     /\ UNCHANGED <<hostVars, machineVars, nextHostID, edits>>

\* The status patch has no lock: it needs the object, not the version.  The
\* Talos part of the reconcile that follows writes nothing of this model.
PublishStatus ==
  /\ Busy("status")
  /\ \/ /\ machines[work.m].phase \in {"live", "deleting"}
        /\ MachineInformer!Write(work.m, [machines[work.m] EXCEPT !.hostRef = work.h])
     \/ /\ machines[work.m].phase = "gone"
        /\ UNCHANGED machineVars
  /\ work' = Idle
  /\ UNCHANGED <<hostVars, capi, nextHostID, edits>>

-----------------------------------------------------------------------------
(* The TartMachine controller: release.                                    *)

\* findClaimedHost, given the machine read.  It returns no host when nothing
\* is claimed and status.hostRef, if any, was already released...
NothingToRelease(m, machine) ==
  IF machine.hostRef = None THEN Claimed(hostCache, m) = {}
  ELSE /\ machine.hostRef \notin Claimed(hostCache, m)
       /\ hostCache[machine.hostRef].present
       /\ hostCache[machine.hostRef].previous = m

\* ...and a host when it is the only one claimed and status.hostRef, if any,
\* is claimed.  Everything else is an error and stops the deletion.
HostToRelease(m, machine) ==
  {h \in Hosts : /\ Claimed(hostCache, m) = {h}
                 /\ machine.hostRef \in {None, h}}

DeletionWork(m, step, h) ==
  [step |-> step, m |-> m, machine |-> machineCache[m],
   machineFresh |-> MachineInformer!Fresh(m),
   h |-> h, host |-> IF h = None THEN NoHost ELSE hostCache[h],
   hostFresh |-> h # None /\ HostInformer!Fresh(h),
   mode |-> "FreshAutomatic", expectedHostID |-> 0, attempt |-> 1]

BeginDeletion(m) ==
  LET machine == machineCache[m]
  IN /\ work = Idle
     /\ machine.phase = "deleting" /\ machine.finalizer
     /\ capi[m].drained
     /\ \/ /\ NothingToRelease(m, machine)
           /\ work' = DeletionWork(m, "removeFinalizer", None)
        \/ \E h \in HostToRelease(m, machine) :
             work' = DeletionWork(m, "stop", h)
     /\ UNCHANGED <<hostVars, machineVars, capi, nextHostID, edits>>

\* The host was asked to shut down and was seen to have stopped.
ObserveHostStopped ==
  /\ Busy("stop")
  /\ work' = [work EXCEPT !.step = "retain"]
  /\ UNCHANGED <<hostVars, machineVars, capi, nextHostID, edits>>

\* One round of the loop of RetainHost.
RetainHost ==
  LET decision == DecideRetention(work.host, work.m)
  IN /\ Busy("retain")
     /\ \/ /\ decision = "noop"
           /\ work' = [work EXCEPT !.step = "removeFinalizer"]
           /\ UNCHANGED hostVars
        \/ /\ decision = "conflict"
           /\ work' = Idle
           /\ UNCHANGED hostVars
        \/ /\ decision = "apply"
           /\ \/ UpdateAccepted([work.host EXCEPT !.consumer = None,
                                   !.previous = work.m], "removeFinalizer")
              \/ UpdateRejected("refreshRetain")
     /\ UNCHANGED <<machineVars, capi, nextHostID, edits>>

\* Removing the last finalizer of a deleted object removes the object.
RemoveMachineFinalizer ==
  /\ Busy("removeFinalizer")
  /\ \/ /\ work.machineFresh
        /\ MachineInformer!Write(work.m, [NoMachine EXCEPT !.phase = "gone"])
     \/ ~work.machineFresh /\ UNCHANGED machineVars
  /\ work' = Idle
  /\ UNCHANGED <<hostVars, capi, nextHostID, edits>>

\* The process dies, or a call of the reconcile returns an error: the
\* request is queued again and everything read is forgotten.
Abort ==
  /\ work # Idle
  /\ work' = Idle
  /\ UNCHANGED <<hostVars, machineVars, capi, nextHostID, edits>>

-----------------------------------------------------------------------------
UserStep ==
  \/ \E h \in Hosts :
       \/ \E i \in Identities, fd \in FailureDomains : RegisterHost(h, i, fd)
       \/ \E fd \in FailureDomains : Relabel(h, fd)
       \/ \E i \in Identities : Reidentify(h, i)
       \/ \E mode \in ReuseModes : ApproveReuse(h, mode)
       \/ ApproveHostDeletion(h)
       \/ DeleteHost(h)
  \/ \E m \in Machines :
       \/ \E ref \in HostRefs, fd \in Placements : CreateMachine(m, ref, fd)
       \/ DeleteMachine(m)
       \/ CAPIDrained(m)

TartHostStep ==
  \E h \in Hosts : \/ AssignHostID(h) \/ AddHostFinalizer(h)
                   \/ PatchHostStatus(h) \/ FinalizeHost(h)

TartMachineStep ==
  \/ \E m \in Machines : \/ AddMachineFinalizer(m)
                         \/ BeginProvisioning(m) \/ BeginDeletion(m)
  \/ GetNamedHost \/ ClaimHostWithRequest \/ RefreshHost("refreshClaim", "claim")
  \/ PublishProviderID \/ SyncCAPIProviderID \/ PublishStatus
  \/ ObserveHostStopped
  \/ RetainHost \/ RefreshHost("refreshRetain", "retain")
  \/ RemoveMachineFinalizer \/ Abort

Next == UserStep \/ TartHostStep \/ TartMachineStep \/ DeliverHost \/ DeliverMachine

Spec == Init /\ [][Next]_vars

-----------------------------------------------------------------------------
(* Properties.                                                             *)

\* A claim ends only after the machine holding it was deleted, and then
\* leaves that machine in previousConsumerRef, or when the host itself goes;
\* no other machine can take the place of the holder (the compare-and-swap
\* of ClaimHostWithRequest and RetainHost).
ClaimsAreNotStolen ==
  [][\A h \in Hosts :
       LET m == hosts[h].consumer
       IN m # None /\ hosts'[h].consumer # m /\ hosts'[h].present
            => /\ hosts'[h].consumer = None /\ hosts'[h].previous = m
               /\ machines[m].phase # "live"]_vars

\* Whatever the caches showed and however often the update was retried, a
\* claim lands on a host that at that moment has an identity, lies in the
\* machine's failure domain, and is fresh or approved for reuse and named by
\* the machine's spec.hostRef; the machine has not gone meanwhile.
ClaimsAreEligible ==
  [][\A h \in Hosts, m \in Machines :
       hosts[h].consumer # m /\ hosts'[h].consumer = m
         => /\ hosts'[h] = [hosts[h] EXCEPT !.consumer = m]
            /\ hosts[h].present /\ hosts[h].hostID # 0
            /\ machines[m].phase \in {"live", "deleting"}
            /\ MatchesForFailureDomain(hosts[h], machines[m].failureDomain)
            /\ \/ hosts[h].previous = None
               \/ ReuseApproved(hosts[h]) /\ machines[m].specHostRef = h]_vars

\* The host a live machine's ProviderID names, while it exists, is claimed by
\* that machine: it is neither free nor anybody else's.
LiveMachineHoldsItsHost ==
  \A m \in Machines, h \in Hosts :
    /\ machines[m].phase = "live" /\ machines[m].providerID # 0
    /\ hosts[h].present /\ hosts[h].hostID = machines[m].providerID
    => hosts[h].consumer = m

\* The ProviderID of the CAPI Machine and status.hostRef never disagree with
\* the TartMachine's ProviderID, although the three are written one after the
\* other from copies that may be stale and a crash may fall in between: the
\* host that has the ProviderID, while it is registered, is the one named.
ProviderIDsAgree ==
  \A m \in Machines : machines[m].phase \in {"live", "deleting"} =>
    /\ capi[m].providerID \in {0, machines[m].providerID}
    /\ machines[m].hostRef # None =>
         /\ machines[m].providerID # 0
         /\ \A h \in Hosts :
              hosts[h].present /\ hosts[h].hostID = machines[m].providerID
                => machines[m].hostRef = h

\* Hosts that were registered with one identity.
Duplicates(h, g) ==
  /\ h # g /\ hosts[h].present /\ hosts[g].present /\ hosts[h].identity = hosts[g].identity
  /\ ~hosts[h].reidentified /\ ~hosts[g].reidentified

\* provisioning.go: allocation never gives a machine a host that was registered with
\* the identity of a claimed one, however old the List is in which it looked for
\* conflicts and selected.  A host that the machine names is read once more, after the
\* check; and an identity that is corrected or observed later may not be in the List.
SelectsNoDuplicate ==
  [][\A h, g \in Hosts, m \in Machines :
       Duplicates(h, g) /\ hosts[g].consumer # None
         /\ hosts[h].consumer # m /\ hosts'[h].consumer = m
       => machines[m].specHostRef = h]_vars

\* What provisioning.go reports of a duplicated identity: allocation is stopped, so
\* that two hosts registered with one identity are never both claimed.
DuplicatesAreNotBothClaimed ==
  \A h, g \in Hosts :
    Duplicates(h, g) => hosts[h].consumer = None \/ hosts[g].consumer = None

\* A host that carries the finalizer leaves the inventory only with an
\* approval that names its current consumer and previous consumer.
FinalizedOnlyWhenApproved ==
  [][\A h \in Hosts :
       hosts[h].present /\ hosts[h].finalizer /\ ~hosts'[h].present
         => DeletionApproved(hosts[h])]_vars

\* What api/infrastructure/v1alpha1/tarthost_types.go says of the claim of a
\* deletion: a claimed or retained host goes only with a matching approval.
ForgottenOnlyWhenApproved ==
  [][\A h \in Hosts : hosts[h].present /\ ~hosts'[h].present
                        => DeletionApproved(hosts[h])]_vars

\* What domain/machine/binding.go takes for granted: no machine is the
\* consumer of two hosts.
OneHostPerMachine ==
  \A m \in Machines : \A h, g \in Claimed(hosts, m) : h = g

\* No host stays claimed by a machine that is gone: the finalizer remains
\* until the claim has been turned into a retention record.
NoOrphanClaim ==
  \A h \in Hosts, m \in Machines :
    hosts[h].consumer = m => machines[m].phase # "gone"

\* The stored TartHosts, seen as bindings.
BindingOf(host) ==
  [registered |-> host.present, owner |-> host.consumer,
   last |-> host.previous, approved |-> host.reuse.uid]

bindings == [h \in Hosts |-> BindingOf(hosts[h])]

Binding == INSTANCE HostBinding WITH binding <- bindings

\* Allocation and release as the two controllers do them, on stale caches and
\* with retries and crashes, implement the abstract binding: one owner at a
\* time, and a used host changes hands only by matching approval.
ImplementsHostBinding == Binding!Spec
=============================================================================
