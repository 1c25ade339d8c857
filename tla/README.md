# Verification of cluster-api-provider-tart

TLA+ models of the controllers of this Cluster API provider for bare-metal
Talos hosts, the TLC instances that check them, and TLAPS proofs about them.
All modules are translated from the Go code; `PROJECT.json` maps each
definition to the lines it models.

## 1. The system

Three controller managers (infrastructure, bootstrap, control plane) and a
netboot server run beside Cluster API (CAPI). Each manager has one replica
with leader election, each controller one worker. All of them communicate
through objects in the API server: reads (`Get`, `List`) come from informer
caches that lag; writes are either compare-and-swap (`Update`, `Patch` with an
optimistic lock) or merge patches without a lock (all status patches). Outside
the API server they call Talos nodes, power backends and etcd (through Talos).

| Component | State | Operations | Hard behaviour |
|---|---|---|---|
| Host allocation (`usecase/host`, `adapter/kubernetes/tarthostrepository.go`) | `TartHost.spec`: consumerRef, previousConsumerRef, reuse, hostID, labels | select, claim (CAS, three attempts), retain (CAS, three attempts) | decided on stale lists; retries must decide anew |
| TartMachine controller, provisioning | finalizer, ProviderID, CAPI ProviderID, status.hostRef | claim, publish in four writes | a reconcile may end after any write |
| TartMachine controller, deletion | the reason of the Ready condition; drain state of the CAPI Machine | request shutdown, wait, observe, retain, remove finalizer | the condition's reason is the only record of how far it got |
| TartHost controller | HostID, finalizer, inventory, power-on attempts | register, discover, power on, approve deletion | powers on the host that a deletion shuts down |
| TartControlPlane controller | Machines, pre-terminate hook, member annotation, status.initialization | create, bootstrap, scale down, remove etcd members, start upgrades | many RPCs per decision, lists that lag, CAPI going on in parallel |
| Kubernetes upgrade | a Lease, node versions | acquire, renew, run, release | the Lease may expire while the upgrade runs |
| CA rotation | bundle Secrets, stages Stable, DualTrust, Cutover, Rotated | stage by stage, recomputed | a promotion is several writes |
| Talos convergence and reprovisioning | Talos identity reference of the host, approvals, recovery Secret, conditions | install, upgrade, reconfigure, reset | destructive steps decided from objects that stay; conditions are the only memory of an update |
| Talos recovery secrets | recovery Secrets, references of hosts | garbage collection | races with a reset that needs the secret |
| Runtime extension | update state of a Machine | CAPI in-place update hooks | repeated hook calls |
| TartBootstrapConfig, TartCluster | data Secret, endpoint, readiness | generate, adopt, publish | ordering, endpoint ownership |
| Netboot server, power, Talos and configuration adapters | none of their own | protocol clients, builders | I/O and data |

What makes them correct: a host belongs to one machine and changes hands only
with approval; what a machine publishes names the host it holds; a host is
released only after it was off; only the box that was approved is reset; a
removal or a restart never costs etcd its quorum; nodes accept each other's
certificates at every stage of a CA rotation; one upgrade runs at a time; a
cluster is bootstrapped once; deletions, bootstraps, updates and rotations end.
`PROJECT.json` lists the hazards at their lines.

## 2. The modules

* `Informer`: one watched kind. `stored`, `cache` and the `events` between
  them. A cached version is fresh when no write to that object is on its way;
  a CAS write needs a fresh version. Used by INSTANCE in the next two models.
* `HostRecord`: the `TartHost` spec as a record and the pure decisions on it:
  `Classify`, `MatchesForFailureDomain`, `DecideClaim`, `DecideRetention`,
  `ValidateClaimCandidate`, `DeletionApproved`.
* `HostClaim`: composes the two informers, the TartMachine controller
  (`work` is its reconcile in flight, one step per API call), the TartHost
  controller's writes, and users who register, relabel, approve and delete.
  `BeginProvisioning` is the List with the conflict check and the selection from
  it; a host named by `spec.hostRef` or `status.hostRef` is read by a Get of its
  own afterwards (`GetNamedHost`). A host's identity is one value that stands for
  registration MAC, system UUID and disk identities; it may be corrected or
  observed at any time (`Reidentify`). Disk identities that repeat within one host
  are not modelled. `Abort` is a crash or a failing call at any step. That a host
  has stopped is one step of the environment here.
* `HostBinding`: what allocation promises, without caches, versions or
  retries. `HostClaim` implements it (`ImplementsHostBinding`), under the
  mapping `bindings`: consumer, previous consumer and approval of each host.
* `EtcdQuorum`: `quorum.go` as operators on what was counted of the members.
* `ControlPlane`: the TartControlPlane controller, one step per call, with the
  parts of CAPI it depends on (waiting for the hook, infrastructure deletion),
  the nodes and etcd membership. A Machine is an ordinal and a uid; the member
  ID of its node is the uid.
* `MachineShutdown`: one machine, one host: the deletion path of the
  TartMachine controller and the discovery of the TartHost controller, each a
  reconcile in flight on cached objects, around the same physical host.
  `wasOff`, `request` and `sent` are history and decide nothing.
* `TalosReprovision`: one host through several machines of two clusters: the
  reconcile that dials, resets, unbinds, binds and installs, call by call; the
  recovery Secrets and their collector; rotation of a cluster's CAs; another box
  that may answer at the host's address. An installation is the cluster it
  belongs to and the generations of CAs it accepts. The user may approve, edit
  or withdraw the reuse of the host at any moment (`Approve`, `Withdraw`), Adopt of
  an empty host included: nothing in the code checks it. The Reset RPC reaches
  whatever accepts the CA at the address by then, since the connection is made
  lazily (`client.go:661`). `wiped`, `inherited` and `resolute` are history.
* `CARotation`: the TartCluster controller (identity, a Secret per generation,
  active generation), the TartControlPlane controller's rotation (`work`), the
  nodes with what they run and what is staged, and the rendering of joining
  nodes. Of a node `issuing` and `accepted` are those of the machine CA; `api` is what
  the Kubernetes API and the aggregator of a control plane accept, whose lists are
  written by a strategic merge patch that does not remove an entry
  (`configmutate.go:195-210,282-296`; how Talos merges is external). The stage is
  computed from both; where they differ it is Unknown and ends the pass
  (`rotation.go:36-43`). `DropAcceptedCA` is an operator who removes by hand what
  the patch left. The pause of a rotation while a scale-down is pending
  (`carotation.go:81`) is left out, and a pass that ended in Unknown, which is not
  requeued, may be begun again here. `Restore` loses the status and keeps the
  Secrets.
* `InPlaceUpdate`: updates of running nodes by the TartMachine controller and by
  the UpdateMachine hook: image, configuration, endpoint. `work` has the two
  actors in flight and `EngineStep` is the engine they share: quorum gate, drain,
  apply, reboot, recovery. `EtcdQuorum` has the gate's arithmetic. `capi[n]` is
  what the gate reads of a CAPI Machine: Ready, and the annotation that CAPI
  is updating it in place (`update.go:332`). A node in `Lingering` goes on
  answering for a while after it has accepted a reboot. `overlooked`, the nodes
  that did so when the gate was passed, is history.
* `KubernetesUpgrade`: replicas of the TartControlPlane controller, the Lease
  with its resourceVersion (two replicas run at once when a leader that lost its
  election has not stopped yet), the goroutine that renews it, and the upgrade
  component by component. Time is counted in renew intervals; a read and write of the Lease
  or the status under way arrive within theirs, although
  `kubernetesupgrade.go:200-269` give them no timeout. UpToDate asks for a condition
  of every Machine that nothing in the repository sets (`status.go:20,50`):
  `MachinesMarked` is whether somebody else does, and is FALSE where a run does not
  ask what would follow.
* `BootstrapConfig`: one TartBootstrapConfig with the objects it is rendered
  from. The work queue is explicit: an item is there because a watch, an error
  or a requeue put it there, so an input without a watch is seen late or never.
  Left out: a paused object (`reconciler.go:58`), the errors of a raw ownership or
  identity conflict (`reconciler.go:355`, `capi_machine.go:50-54`) and the wording
  of some failures (`reconciler.go:75-91,174`).
* `MC*`: the instances. `HostClaimProofs`, `ControlPlaneProofs`,
  `MachineShutdownProofs`, `KubernetesUpgradeProofs`, `TalosReprovisionProofs`,
  `CARotationProofs`, `InPlaceUpdateProofs` and `BootstrapConfigProofs`: the
  theorems about the module each is named after.

Abstractions. Names, endpoints, certificates, messages and inventories are
dropped or reduced to what is compared. The API server's versions are freshness
(HostClaim, ControlPlane) or equality with the copy read (MachineShutdown,
where a conflict with an equal object is the failing call of
`DeletionCallFails`). Time is `aged` and `request`: whether the confirmation
interval has passed since the condition's transition time and since the
request. Metadata merges of a list-typed condition replace the list, as the
JSON merge patch does. A rendered configuration is what its properties compare:
generation of the CAs, Kubernetes version, install disk. Its digest is itself.
Trust in `CARotation` treats the CAs of the Kubernetes API and its aggregator as
one, because they are written alike, and keeps the machine's apart. The
initialization in `ControlPlane` is unset, false or true, as the pointer is.

## 3. What the runs check

Passing runs:

* `host_contend`: two hosts (perhaps registered twice with one identity, or
  found to share one later) and two machines. A published ProviderID names a host
  the machine holds (`LiveMachineHoldsItsHost`); TartMachine, CAPI Machine and
  status agree: the host with the published HostID, while it is registered, is the
  one `status.hostRef` names (`ProviderIDsAgree`; a host deleted and registered
  again under its name has a new HostID, and a machine whose watch lags two
  writes may claim it under its old ProviderID); allocation never selects, for a
  machine that does not name its host, one registered with the identity of a
  claimed one (`SelectsNoDuplicate`). The last holds although the check reads a
  lagging list: allocation stops on any conflict, and a new entry gets its
  HostID, without which it is not claimed, only once it is itself cached. It says
  nothing of a host a machine names, which is read after the check, nor of an
  identity that comes to be shared after the claims.
* `host_reuse`: one host goes from machine to machine and between failure
  domains. Claims are not stolen, land on eligible hosts only, a finalized host
  goes only with approval, and the abstract `HostBinding` is implemented.
* `cp_scale`: a formed control plane of three, scaled twice, one Machine
  deleted by a user, one call or node failing. `RemovalKeepsQuorum`,
  `HookHoldsUntilRemoved`; and whatever becomes of the first Machine and its node,
  no second cluster is bootstrapped (`NoSecondCluster`).
* `cp_bootstrap`: a new control plane of up to three ends initialized with every
  Machine a voter (`BecomesInitialized`).
* `shutdown_release`: a Redfish and a Wake-on-LAN host, discovery at the start or
  at the end of its budget, one fault among lost answers, failing calls, power
  loss, outage of Talos and crash: `ReleasedOnlyAfterStop`, `SilenceIsNoProof`,
  `GoneOnlyAfterRelease`, `PowerOnBudget`; and with the budget used up and
  nothing failing a deletion ends (`DeletionCompletes`). Without that
  condition it need not: discovery may power on the host that was shut down,
  and the shutdown is not requested again.
* `reprovision`: two machines of two clusters on one host, one cluster's CAs
  rotating, one disturbance: a failing call, a reboot, an address that moves or an
  edit of the approval under the claim. A reset that hits another box was sent to
  a target that had been verified (`ResetTargetIsVerified`); the binding is dropped
  only with approval and never goes from cluster to cluster in one step
  (`BindingIsKept`); what is installed for the holder is of its cluster, and named
  by another's identity only where the host was adopted or the approval edited,
  and then by the one it was claimed with (`InstalledUnderItsBinding`); a machine
  that needs no reset is provisioned (`InstallationCompletes`).
* `rotation`: a control plane, a worker and a node that joins late; one fault or
  restore. The nodes there from the start accept each other
  (`FoundersTrustEachOther`) and stay on a CA that controllers use
  (`FoundersAreReachable`); the active generation never falls back
  (`ActiveGenerationIsKept`); the rotation ends (`RotationCompletes`), but for
  the states named there: a control plane whose API still accepts the old CA, until
  somebody removes it, and two in which no controller goes on.
* `update_quorum`: three control planes, two of which linger, a new image or a new
  endpoint. Two control planes restart at once only where the gate itself took one
  that had accepted its reboot for healthy (`OverlapsOnlyIfOverlooked`); without
  lingering nodes they never do. `EndpointOrder`: on these bounds it holds largely
  because the endpoint does not get past the first control plane (see below).
* `update`: one node updated by controller and hook at once, image, settings and
  endpoint changing, one setting that is refused, one fault:
  `UpdateProceeds`.
* `kubernetes_upgrade`: two replicas, a Lease of three renew intervals, each
  trouble of the preflight, one fault, one change of the version.
  `AtMostOneUpgrade`, `LeaseIsNotStolen`; and the version wanted is installed,
  observed and no longer reported as upgrading (`UpgradeCompletes`), which is as
  far as it gets while no Machine is marked UpToDate.
* `bootstrap_config`: two disks, two bundles, the object created twice, two
  later changes, one fault: `StatusSettles`.

One more run shows a disagreement between the code and what it says of itself
(`findings` quotes the lines): in `reprovision_loop` the approval of a reset is
still there when the new holder's installation has been bound, and that
installation is reset too (`HoldersInstallationIsKept`).

### Further disagreements

Each property below is in its module and is violated when it is checked with
the constants of the configuration named; those not listed above are kept for
this.

| Property | Configuration | What the code says, and what happens |
|---|---|---|
| `OneHostPerMachine` | `MCHostClaim_contend` | `domain/machine/binding.go:32`, the CAS keeps the claim unique. The CAS is on one host, the choice of the host on a cached list: a machine whose claim is not cached yet claims another. |
| `NoOrphanClaim` | `MCHostClaim_contend` | `tartmachine/deletion.go:42`: deletion on a list without the claim removes the finalizer. |
| `DuplicatesAreNotBothClaimed` | `MCHostClaim_named` | `usecase/host/identity.go:50`, a duplicated identity stops everything. The conflict check reads a List (`provisioning.go:49`), the host of `spec.hostRef` comes from a Get after it (`talos_reconcile.go:452`): a duplicate cached, or given its HostID, in between is claimed beside its twin. |
| `ForgottenOnlyWhenApproved` | `MCHostClaim_contend` | `tarthost_types.go:231`: a host claimed between its HostID and its finalizer is deleted without approval. |
| `NoSecondCluster` | `MCControlPlane_split` | `tartcontrolplane/bootstrap.go:187`, no bootstrap after the first. A first Machine replaced before the status says initialized is bootstrapped beside the running cluster; after that the property holds (`cp_scale`, `OneCluster`). |
| `InitializationIsKept` | `MCControlPlane_split` | `status.go:30`. A reconcile whose cached status is still unset writes false over the true another one has stored. |
| `UpgradeWaitsForScaleDown` | `MCControlPlane_scale` | `tartcontrolplane/reconciler.go:196`. A removal that fails after the member ID was annotated is not tried again and no longer counts as pending. |
| `ScaleDownCompletes` | `MCControlPlane_stuck` | `tartcontrolplane/machines.go:220`. The removed hook is put back before CAPI has gone on. |
| `OneScaleDownAtATime` | `MCControlPlane_scale` | `tartcontrolplane/machines.go:220`. A Machine a user deletes and a scale-down target go at the same time. |
| `SeenStoppedIsReleased` | `MCMachineShutdown_release` | `tartmachine/deletion.go:339`, failures are temporary. A failing lookup after the host was seen off makes the deletion forget its request; the host, being off, can never be asked again. |
| `StoppedMeansOff` | `MCMachineShutdown_release` | `tartmachine/deletion.go:248`. The BootID compared is that of the last maintenance boot; an installed host that boots again keeps it. |
| `ObservedAfterInterval` | `MCMachineShutdown_release` | `domain/machine/shutdown.go:15`. The interval counts from the last change of the condition's status. |
| `ReachedHostBecomesReady` | `MCMachineShutdown_release` | `tarthost_types.go:314`. A host with its budget used up is not observed any more, so the reset of the count never comes. |
| `ReferencedSecretExists` | `MCTalosReprovision_collected` | `usecase/recovery/retention.go:12`, the grace period covers the moment before the reference. A Secret that exists already is older than that when the next installation refers to it. |
| `RetainedInstallationIsRecoverable` | `MCTalosReprovision_reuse` | The binding names the generation active when it was made; a promotion between rendering and binding leaves the host with one its installation does not accept. |
| `BindingNamesTheInstallation` | `MCTalosReprovision_adopt` | `tartmachine/reprovision.go:29`, the identity of an installation is established before it is applied. A host in mode Adopt may be empty and still bound to another cluster; `shouldRebindTalosIdentity` keeps that binding and the configuration is applied nevertheless. |
| `OtherBoxIsNeverReset` | `MCTalosReprovision_reuse` | `tartmachine/reprovision.go:126`, no Reset unless the identity matches completely. The identity is verified on one connection and the Reset sent on one made lazily (`client.go:661`): if the address moves in between, it reaches another box that accepts the CA. |
| `PromotionIsRecovered` | `MCCARotation_promotion` | `tartcontrolplane/carotation.go:374`, the next reconcile makes up for a failed label. `validateActiveBundle` (reconciler.go:164) comes first and refuses a Pending bundle. |
| `FinalizedIsRotated` | `MCCARotation_final` | `tartcontrolplane/carotation.go:318`, the last stage leaves only the issuing CA. The empty list of the Kubernetes API is merged and the old CA stays accepted: the node is Unknown, never Rotated, and the rotation stops one step before its end. |
| `NoMachineIsLeftBehind` | `MCCARotation_late` | `tartcontrolplane/carotation.go:357`, every Machine was seen. A Machine created after the observation renders with the old CA. |
| `UpdateCompletes` | `MCInPlaceUpdate_standoff` | A control plane with another image than wanted is reported not Ready (`talos_reconcile.go:180`) and the gate wants all others Ready (`update.go:335`): two that were observed wait for each other. |
| `AtMostOneRestart` | `MCInPlaceUpdate_quorum` | `runtimeextension/update.go:250`. Nothing waits for a node to stop: one that has accepted an upgrade serves on for a while, passes for healthy at the next gate, and two restart. |
| `AtMostOneRestart` | `MCInPlaceUpdate_hooked` | `runtimeextension/update.go:332`. The controller passes the gate for one control plane, then CAPI marks another as updating and its hook call passes as well: neither looks again before the reboot. |
| `EndpointReachesEveryNode` | `MCInPlaceUpdate_endpoint` | `configuration_update.go:239`. The observed endpoint is set before the copy the status patch is computed against, so it is never stored and nobody gets past the first control plane. |
| `RollbackStaysStopped` | `MCInPlaceUpdate_rollback` | `talos_reconcile.go:137`. A report of an outage overwrites the condition that records the rollback. |
| `ReadyNodeIsSchedulable` | `MCInPlaceUpdate_rollback` | `drain.go:297`. The first attempt to finalize, made before the Node is Ready, already reports UpToDate; the next one is not made and the cordon stays. |
| `AtMostOneUpgrade` | `MCKubernetesUpgrade_lapse` | The renewing goroutine only stops; an upgrade whose Lease lapsed goes on beside the next. |
| `UpgradedIsUpToDate` | `MCKubernetesUpgrade_marked` | `status.go:47`, UpToDate waits for the version to converge. It also asks that every Machine has CAPI's UpToDate condition (`status.go:20`), which nothing but `status_test.go:97` sets: a converged control plane is never reported UpToDate. |
| `UpToDateIsObserved` | `MCKubernetesUpgrade_cached` | `kubernetesupgrade.go:65`. A kept version is reported up to date, if Machines are marked (`MachinesMarked`). |
| `UpToDateIsUniform` | `MCKubernetesUpgrade_mixed` | The lowest version decides; components beyond the wanted version go unseen. |
| `ReadyNamesItsDisk` | `MCBootstrapConfig_settle` | `tartbootstrapconfig/reconciler.go:314`, validation fails closed. `EnsureInstallDisk` is skipped without a disk (`generate.go:98`), and the configuration is refused only when it is applied. |
| `ReadySecretIsItsOwn` | `MCBootstrapConfig_settle` | `tartbootstrapconfig_types.go:59`. The status patch carries no UID and lands on an object created again. |

Every property of a passing run has a mutant in the modules, marked as such: a
form of a definition with a plausible bug, under which TLC finds the property
violated.

### Bounds

`MaxHostLag`, `MaxMachineLag`, `MaxLag`: watch events on their way; two let a
reconcile see an object one and two writes old. `MaxEdits`: writes of users; a
full cycle of register, claim, release, approve, reuse needs three to five.
`MaxHostID`, `MaxUID`: each host or Machine, and its replacement. `MaxScales`,
`MaxDeletes`, `MaxFaults`: one or two disturbances, which is where the
interesting races are. `maxPowerOnAttempts` is 30 in the code and 1 or 2 here:
what matters is that the budget can run out. `MaxBoots` 3 is the maintenance
boot, the installed one and a boot after the shutdown. `RequeueOutlastsLag`
states that a controller starts a reconcile only on a current copy of its own
object, which the requeue intervals (30 s) make usual but nothing enforces;
`PowerOnBudget` and the liveness properties need it, and copies of other
objects lag in any case. Deadlock checking is off where users may stop acting
(all but ControlPlane), and in MachineShutdown because `MaxBoots` ends the model.

`MaxGeneration` 2: a rotation and what comes before it; every rotation is alike.
`MaxMachines` 2: one holder leaves its installation to the next; a Secret is
found again by a third (`_collected`). `LeaseDuration` 3 and `UpgradeTimeout` 4
renew intervals stand for 5 and 30 in the code: a lapse needs more
failing renewals than `MaxFaults` allows, as in the code, and the timeout outlasts
the Lease. `MaxFaults` in `TalosReprovision` counts edits of the approval under a
claim as well; before a claim they are free. `Neighbour` is the cluster of the box
that may take over the address. Three control planes are the least where a restart can cost a quorum;
the settings, the hook and the endpoint are explored on one node, where they
do not multiply. `Lingering` holds two of the three control planes in
`update_quorum`, which has no fault for that: a fault and two lingering nodes are
too many states; `update` has both for one node. `MaxUID` 2 in `BootstrapConfig` is an object and
the one created after it.

### Fairness

Weak fairness of the controllers' steps (the work queues retry until a
reconcile succeeds or asks to be requeued), of the watches, of CAPI, and of a
node that boots or shuts down. Users, the operator, faults and crashes are
never fair. A violated liveness property is reported only under this fairness.

`TalosReprovision` adds that an address which moved comes back and a deleted
machine lets its host go. `InPlaceUpdate` needs strong fairness of each
Machine's reconcile: one worker serves a queue in the order of arrival, and every
object comes back to it by its requeue or the resync. `KubernetesUpgrade` needs a
clock that goes on; clocks are taken to agree, and the Lease is read from the API
server, since it is excluded from the cache
(`cmd/internal/managersetup/managersetup.go:152`). `BootstrapConfig` is fair to
the queue, the requeue timer, the watches and the garbage collector.

## 4. What is proved

`HostClaimProofs`, for any hosts, machines, identities, failure domains, score
and lag, from the named assumptions of `HostRecord` and `HostClaim` (`None` is
no host, machine or failure domain; the sets of reuse modes, references and
placements are as the API allows):

* `TypeCorrect`: `Spec => []TypeOK`. `TypeOK` alone is not inductive: a
  reconcile must have a host wherever it uses one, and must have attempts left
  when it reads the host again (`WorkOK`). `TypeInv` adds that.
* `Implements`: `Spec => ImplementsHostBinding`. The inductive invariant is
  `CopyInv`: `TypeInv`, `HostInformer!Agree` (the last event of an object
  carries the stored object; an object without events is cached as stored) and
  `HostCopyCurrent` (a copy held by the reconcile and not overtaken by a write
  is the stored object). This is what makes a decision on a cached object valid
  at the moment the write lands. Each kind of step preserves it and maps to a
  step of `HostBinding` or to a stutter.

* `LiveMachineHolds`, `NamesAgree`, `NoDuplicateSelected`: the two invariants and
  the action property of `host_contend`, for any lag of the watches. They rest on `Ownership`, an
  invariant of all copies of a host and of a machine, stored, cached, on their
  way and in the reconcile: a HostID tells a host (`Sound`, `Unique`), and the
  identity it was registered with until that is corrected (`Known`); of a claimed host no copy from before its HostID is left,
  nor comes one (`Held`, `Behind`), which is why a lagging list cannot hide a
  duplicate; a copy that shows a machine as consumer is still right until the
  machine's deletion is cached (`Retained`); machines only move on (`Latest`,
  `InOrder`); and what a reconcile has decided stays valid while it provisions
  or releases (`Settled`, `Candidate`, `Tended`, `Deleting`, `Names`), between
  its List and its Get too (`Reading`). `Distinct`: a host that is selected and not
  named by the machine is no duplicate of a claimed one.
* `ClaimsNotStolen`, `ClaimsEligible`, `FinalizedWhenApproved`: the action
  properties of `host_reuse`, from `CopyInv`, `Ownership` and, for each action,
  what it writes.

`ControlPlaneProofs`, for any replicas, Machines, lag, changes, deletions and
faults, from `ReplicasAssumption`, for a new control plane (`Spec`) and for a formed
one (`FormedSpec`):

* `TypeCorrect`: `TypeOK`, which is inductive.
* `HookHolds` and `RemovalKeeps`: `HookHoldsUntilRemoved` and `RemovalKeepsQuorum`,
  from `Inv`. Scale-down decides on a list that lags and writes the Delete by
  name, so the invariant speaks of all copies of a Machine, stored, cached, on
  their way and listed: a uid is never used again and tells the ordinal
  (`Sound`, `Unique`); of a hooked Machine no copy from before its creation
  is left, nor comes one (`Hooked`, `HookedBehind`); a copy that shows the hook
  is right, or the Machine is being deleted or gone for good as far as this
  reconcile can tell (`HookKept`, `Vacant`); a version that was not overtaken is
  the stored one (`Current`, `Targeted`). Hence the Delete meets a Machine that has
  the hook, and the hook of one that scale-down deletes goes only when its
  member has gone (`Guarded`); a member does not come back, since only Machines
  that are not being deleted join. `Allowed` keeps what the quorum check was
  made on until the removal arrives, and `RemovalKeepsWorking` counts.
* `OneCluster`: `FormedSpec => []NoSecondCluster`, from `Initialized`: the
  initialization is never taken back, in the stored status, the cached one and
  every reconcile before its bootstrap step. `_split` shows that it does not hold
  of `Spec`.

`MachineShutdownProofs`, for any set of power backends, budget of power-on
requests, number of boots, confirmations and faults, and with caches that lag
without limit (`RequeueOutlastsLag` may be FALSE), from `BackendsAssumption` and
`BoundsAssumption`:

* `TypeCorrect`: `Spec => []TypeOK`, which is inductive as it stands.
* `ReleaseAfterStop`, `ReleaseNeedsConfirmation`, `GoneAfterRelease`:
  `ReleasedOnlyAfterStop`, `SilenceIsNoProof` and `GoneOnlyAfterRelease` are
  invariants. The inductive invariant `IInv` adds to `TypeOK`:
  `Copies` (cached and held copies of the host have its backend, so that what
  `observeHostStopped` decided by holds of the host that is released, and a
  copy without claim means that the stored host has none, so that the two paths
  that skip the update are right); `Asked` (the reason ShutdownRequested, in
  the stored, the cached or the held machine or in a report under way, means
  that a shutdown was requested: the condition is the deletion's only memory);
  `Power` (only a host that is on answers and is asked, so one that is off
  after a request went off after it); `Confirmed` (a confirmation in any copy
  was given by an operator); `Release` (from the observation to the release
  the proof of the stop is kept, and only a released host has its machine's
  finalizer removed).
* `PowerOnWithinBudget`: `PowerOnBudget`, under `RequeueOutlastsLag`, without
  which discovery counts from an old status. `Budget` relates the requests sent
  to the count stored, cached and about to be stored.

`KubernetesUpgradeProofs`, for any replicas, versions, components, troubles,
faults and changes, from `UpgradeAssumption` and `NobodyAssumption`:

* `TypeCorrect`: `TypeOK`, with `Targets` (only a version that is set is
  upgraded to).
* `LeaseNotStolen`: a holder loses the Lease only by giving it up or by expiry.
  `Copies`: a copy of the Lease that is still current is held only between a
  read and its write, and what was checked on it still holds.
* `OneUpgradeAtATime`: `AtMostOneUpgrade`, if `MaxFaults + 2 <= LeaseDuration`:
  fewer renewals fail than the Lease lasts (5 intervals in the code).
  `_lapse` shows that the condition is needed. `Holds`: a replica that
  upgrades holds the Lease, renews it, and the Lease is no older than the
  renewals that failed, plus the one that is due.

`TalosReprovisionProofs`, for any clusters, generations, machines, rotations
and faults, from `ReprovisionAssumption`:

* `TypeCorrect`: `TypeOK`, with `Attended` (no reconcile without a machine).
* `InstalledUnderOwnBinding`, `BindingKept`, `VerifiedReset`, from `Safe`:
  the holder is the consumer, and a binding of another cluster is the one the host
  was claimed with, in the cache as well (`Tenure`); an unused host has none
  (`Unused`); what the holder's configuration becomes is of its cluster, and only an
  irresolute holder, one that adopted or whose approval was edited, installs under
  another cluster's binding (`Box`, `Named`); what a reconcile has read of such a
  binding still holds, it passes it over only without approval, and it sends a
  reset only once the box was found to be the host (`Pass`).

`CARotationProofs`, for any founders, joiners, workers, generations, requests,
restores and faults, from `RotationAssumption`:

* `TypeCorrect`: `TypeOK`, with `Aimed` (a rotation has a generation to go to,
  and advances nodes of one stage only).
* `FoundersTrust`, `FoundersReachable`, `ActiveKept`, from `Rotation`: some
  generation t is the latest Active one (`Top`); the founders are all on t, all on
  t + 1 or within one stage of each other on the way, what is staged on
  them included (`Founded`); the status may be ahead of the label only when all
  have arrived (`Status`); caches are at most one generation late, and late
  ones are read only when no founder has left (`Lag`); and the two reconciles in
  flight are about t, or late and harmless (`Creating`, `Working`). None of it
  rests on an accepted CA being removed.

`InPlaceUpdateProofs`, for any control planes, workers, images, settings,
endpoints, wishes, refusals, strategy and faults, from `UpdateAssumption`:

* `TypeCorrect` and `EndpointInOrder`: `TypeOK` and `EndpointOrder`, from `Inv`:
  the observed endpoint is never stored (`Unstored`), so that only the first
  control plane gets a new one (`Behind`), and work in flight past the endpoint
  gate keeps to that (`Course`).
* `OverlapOnlyIfOverlooked`: `OverlapsOnlyIfOverlooked`, whichever nodes linger, if
  no control plane is updated through the hook; `_hooked` shows that this is
  needed. `Clear`: while the controller has a control plane past the gate, no other
  is restarting but those the gate overlooked.

`BootstrapConfigProofs`, for any disks, bundles, recreations, changes and faults,
from `BootstrapConfigAssumption`:

* `TypeCorrect`: `TypeOK`, which says that no two Bootstrap Secrets hold one
  configuration, with `JobOK` (a Secret is created for a configuration that was
  rendered, by an object that existed). A configuration is rendered only from a
  bundle that is there (`ConfigurationType`).

Each inductive invariant was checked by TLC on the instance of the runs, those of
`HostClaim` and `ControlPlane` on other instances as well, before it was proved.

Every invariant and every action property of the passing runs is a theorem. Only
model-checked is all liveness (`BecomesInitialized`, `DeletionCompletes`,
`InstallationCompletes`, `RotationCompletes`, `UpdateProceeds`, `UpgradeCompletes`,
`StatusSettles`), which the prover does not reach; and the disagreements above are
TLC's counterexamples.

## 5. Not modelled, and the plan

Not to be modelled: protocol clients, DHCP/TFTP/HTTP answers, YAML and
certificate construction, wiring, telemetry and generated code. They have no
protocol state of their own. The answers of the CanUpdate hooks and the reports
of the TartCluster controller on endpoint and failure domains are functions of
one request or list.

Left out, and why: provider resources, templates, pausing and the deletion of the
control plane (`ControlPlane` is at the limit of what TLC explores in a few
minutes with the Machines alone); etcd under a CA rotation, whose nodes of
one stage are all rebooted in one reconcile without the quorum gate
(`carotation.go:139`; a model of it needs `CARotation` and `EtcdQuorum` in one
state); the deletion that stops when its host was released and reused
(`deletion.go:139`; needs fairness in `HostClaim`).

Next, theorems:

1. Abstract specifications that the other components implement, as `HostClaim`
   does `HostBinding`: a lock for the Lease of `KubernetesUpgrade`, which
   `LeaseIsNotStolen` is half of, and the history of one host for
   `TalosReprovision`.
2. Conditions under which the properties listed as disagreements hold, as
   `OneCluster` is one for `NoSecondCluster`.
