--------------------------- MODULE BootstrapConfig ---------------------------
(***************************************************************************)
(* The TartBootstrapConfig controller.                                     *)
(*                                                                         *)
(* One TartBootstrapConfig of one Machine.  The controller renders a Talos *)
(* machine configuration from what its caches hold of six other objects,   *)
(* stores it in an immutable Secret named after the configuration's        *)
(* digest, and names that Secret in the status, where the TartMachine      *)
(* controller looks for it.                                                *)
(*                                                                         *)
(* A work item is in the queue only when a watch, an error or a requeue    *)
(* put it there: which input has a watch is part of the model.  `in' is    *)
(* what the controller's caches hold of the inputs, each object cached by  *)
(* itself, so its fields change one at a time.                             *)
(***************************************************************************)
EXTENDS Naturals, FiniteSets

CONSTANTS
    Disks,          \* disks the host may have
    None,
    MaxGeneration,  \* generations of the cluster's secrets bundle
    MaxUID,         \* times the configuration object is created
    MaxChanges,     \* later changes of the inputs
    MaxFaults       \* failed writes and restarts of the controller

ASSUME BootstrapConfigAssumption ==
    /\ {MaxGeneration, MaxUID} \subseteq Nat \ {0}
    /\ {MaxChanges, MaxFaults} \subseteq Nat

VARIABLES
    in,         \* the inputs as the controller's caches hold them
    uid,        \* UID of the TartBootstrapConfig that exists now
    status,     \* its status
    view,       \* the TartBootstrapConfig as cached
    secrets,    \* Bootstrap Secrets: what they hold, and their owner's UID
    secretView, \* the Bootstrap Secrets as cached
    events,     \* the watch of the Secrets has something to deliver
    queued,     \* the work queue holds the configuration
    timer,      \* RequeueAfter is running
    job,        \* the reconcile in progress, at its next write
    changes, faults

vars == <<in, uid, status, view, secrets, secretView, events, queued, timer,
          job, changes, faults>>

\* A rendered configuration: the bundle and the Kubernetes version it was
\* rendered from and the disk it installs Talos on.  Two configurations have
\* the same digest exactly when they are the same, the secrets included.
Content == [generation : 1..MaxGeneration, version : 1..2,
            target : Disks \cup {None}]

\* What configPatchesSecretRef leads to: no reference, a Secret that is not
\* there, one that is not immutable, patches that contradict what the
\* provider owns, or patches that name an install disk.
Patches == Disks \cup {None, "missing", "mutable", "conflicting"}

Inputs == [machine : BOOLEAN,      \* the CAPI Machine refers to the config
           generation : 0..MaxGeneration,
           active : BOOLEAN,       \* the bundle carries the Active label
           bound : BOOLEAN,        \* TartMachine has HostRef and ProviderID
           claimed : BOOLEAN,      \* the TartHost names the TartMachine
           conflicting : BOOLEAN,  \* two TartHosts claim one identity
           seen : BOOLEAN,         \* the inventory was observed
           disks : SUBSET Disks,   \* the writable disks of the inventory
           readOnly : BOOLEAN,     \* none is writable, and others are there
           version : 1..2,
           patches : Patches]

Reasons == {"Unset", "DataSecretCreated", "ConfigurationSecretUnavailable",
            "ClusterContextPending", "HostBindingMismatch",
            "IdentityConflict", "InstallDiskUnavailable",
            "ConfigurationConflict", "BootstrapSecretInvalid"}

TartBootstrapConfigStatus ==
    [reason : Reasons, dataSecretName : Content \cup {None}]

NoStatus == [reason |-> "Unset", dataSecretName |-> None]
Idle == [step |-> "idle", uid |-> 0, from |-> NoStatus, to |-> NoStatus]

TypeOK ==
    /\ in \in Inputs
    /\ uid \in 1..MaxUID
    /\ status \in TartBootstrapConfigStatus
    /\ view \in [uid : 1..MaxUID, status : TartBootstrapConfigStatus]
    /\ secrets \subseteq [content : Content, owner : 1..MaxUID]
    /\ \A s, t \in secrets : s.content = t.content => s = t
    /\ secretView \subseteq [content : Content, owner : 1..MaxUID]
    /\ events \in BOOLEAN
    /\ queued \in BOOLEAN
    /\ timer \in BOOLEAN
    /\ job \in [step : {"idle", "create", "patch"}, uid : 0..MaxUID,
                from : TartBootstrapConfigStatus,
                to : TartBootstrapConfigStatus]
    /\ changes \in 0..MaxChanges
    /\ faults \in 0..MaxFaults

Init ==
    /\ in = [machine |-> FALSE, generation |-> 0, active |-> TRUE,
             bound |-> FALSE, claimed |-> FALSE, conflicting |-> FALSE,
             seen |-> FALSE, disks |-> {}, readOnly |-> FALSE, version |-> 1,
             patches |-> None]
    /\ uid = 1
    /\ status = NoStatus
    /\ view = [uid |-> 1, status |-> NoStatus]
    /\ secrets = {}
    /\ secretView = {}
    /\ events = FALSE
    /\ queued = TRUE
    /\ timer = FALSE
    /\ job = Idle
    /\ changes = 0
    /\ faults = 0

-----------------------------------------------------------------------------
(* What changes around the controller.  The TartMachine, the TartHosts, the *)
(* Cluster, the TartCluster and the patches Secret are watched; the CAPI    *)
(* Machine and the bundle Secret are not.                                   *)

controllerVars == <<uid, status, view, secrets, secretView, events, timer,
                    job, faults>>

Watched(next) == in' = next /\ queued' = TRUE /\ UNCHANGED controllerVars
Unwatched(next) == in' = next /\ UNCHANGED <<queued, controllerVars>>

\* The prerequisites, which come in any order.
CreateMachine ==
    ~in.machine /\ Unwatched([in EXCEPT !.machine = TRUE])
        /\ UNCHANGED changes

CreateBundle ==
    in.generation = 0 /\ Watched([in EXCEPT !.generation = 1])
        /\ UNCHANGED changes

BindMachine ==
    in.machine /\ ~in.bound /\ Watched([in EXCEPT !.bound = TRUE])
        /\ UNCHANGED changes

ClaimHost ==
    ~in.claimed /\ Watched([in EXCEPT !.claimed = TRUE]) /\ UNCHANGED changes

ObserveInventory ==
    /\ ~in.seen
    /\ \E d \in SUBSET Disks :
          Watched([in EXCEPT !.seen = TRUE, !.disks = d])
    /\ UNCHANGED changes

\* Later changes, counted by MaxChanges.  A CA rotation makes the next
\* generation current first and gives its bundle the Active label after.
Change == changes < MaxChanges /\ changes' = changes + 1

PromoteBundle ==
    /\ Change
    /\ in.generation \in 1..MaxGeneration - 1
    /\ Watched([in EXCEPT !.generation = @ + 1, !.active = FALSE])

LabelBundle ==
    ~in.active /\ Unwatched([in EXCEPT !.active = TRUE]) /\ UNCHANGED changes

ChangePatches ==
    /\ Change
    /\ \E p \in Patches \ {in.patches} : Watched([in EXCEPT !.patches = p])

ChangeDisks ==
    /\ Change
    /\ in.seen
    /\ \E d \in SUBSET Disks, r \in BOOLEAN :
          /\ r => d = {}
          /\ d # in.disks \/ r # in.readOnly
          /\ Watched([in EXCEPT !.disks = d, !.readOnly = r])

ChangeIdentity ==
    Change /\ Watched([in EXCEPT !.conflicting = ~@])

ChangeVersion ==
    Change /\ in.version = 1 /\ Unwatched([in EXCEPT !.version = 2])

\* The configuration object is deleted and created again under its name.
Recreate ==
    /\ Change
    /\ uid < MaxUID
    /\ uid' = uid + 1
    /\ status' = NoStatus
    /\ UNCHANGED <<in, view, secrets, secretView, events, queued, timer, job,
                   faults>>

\* Kubernetes deletes a Secret when the object that owns it is gone.
CollectGarbage ==
    /\ \E s \in secrets : s.owner # uid /\ secrets' = secrets \ {s}
    /\ events' = TRUE
    /\ UNCHANGED <<in, uid, status, view, secretView, queued, timer, job,
                   changes, faults>>

\* A user deletes a Bootstrap Secret.
DeleteSecret ==
    /\ Change
    /\ \E s \in secrets : secrets' = secrets \ {s}
    /\ events' = TRUE
    /\ UNCHANGED <<in, uid, status, view, secretView, queued, timer, job,
                   faults>>

DeliverConfig ==
    /\ view # [uid |-> uid, status |-> status]
    /\ view' = [uid |-> uid, status |-> status]
    /\ queued' = TRUE
    /\ UNCHANGED <<in, uid, status, secrets, secretView, events, timer, job,
                   changes, faults>>

\* The owner is found by its name: a Secret of the deleted object queues the
\* one that has its name now.
DeliverSecrets ==
    /\ events
    /\ events' = FALSE
    /\ secretView' = secrets
    /\ queued' = TRUE
    /\ UNCHANGED <<in, uid, status, view, secrets, timer, job, changes, faults>>

-----------------------------------------------------------------------------
(* Rendering.                                                               *)

\* The only writable disk; there is no choice among several.
SelectDisk(disks) ==
    IF Cardinality(disks) = 1 THEN CHOOSE d \in disks : TRUE ELSE None

Report(reason) == [kind |-> "report", reason |-> reason, content |-> None]

\* The disk to install on, of the patches or selected; the patches must name
\* the selected one when there is one.
InstallTarget(patches, selected) ==
    IF patches \in Disks THEN patches ELSE selected

InstallTargetInvalid(patches, selected) ==
    patches \in Disks /\ selected \notin {None, patches}

GenerateMachineConfiguration(input, selected) ==
    CASE InstallTargetInvalid(input.patches, selected) ->
            Report("InstallDiskUnavailable")
      [] input.patches = "conflicting" -> Report("ConfigurationConflict")
      [] OTHER ->
            [kind |-> "content", reason |-> "DataSecretCreated",
             content |-> [generation |-> input.generation,
                          version |-> input.version,
                          target |-> InstallTarget(input.patches, selected)]]

\* The claimed host and its disks, or why they cannot be told.
hostAndDisksForMachine(input) ==
    CASE ~input.bound -> "ClusterContextPending"
      [] input.bound /\ ~input.claimed -> "HostBindingMismatch"
      [] input.bound /\ input.claimed /\ input.conflicting ->
            "IdentityConflict"
      [] input.bound /\ input.claimed /\ ~input.conflicting /\ ~input.seen ->
            "ClusterContextPending"
      [] OTHER -> IF input.disks = {} /\ ~input.readOnly
                   THEN "InstallDiskUnavailable" ELSE "ok"

\* The Machine, the Cluster and its active bundle come before the host.
machineConfigurationContext(input) ==
    IF ~input.machine \/ input.generation = 0 \/ ~input.active
    THEN "ClusterContextPending"
    ELSE hostAndDisksForMachine(input)

\* The patches come first.  A Secret that is not immutable is none of the
\* errors the controller knows.
configuration(input) ==
    CASE input.patches = "missing" -> Report("ConfigurationSecretUnavailable")
      [] input.patches = "mutable" ->
            [kind |-> "error", reason |-> "Unset", content |-> None]
      [] OTHER ->
            LET context == machineConfigurationContext(input)
            IN  IF context = "ok"
                THEN GenerateMachineConfiguration(input, SelectDisk(input.disks))
                ELSE Report(context)

-----------------------------------------------------------------------------
(* The controller.                                                          *)

\* A Bootstrap Secret is usable when this object owns it.
IsContractSecret(secret, owner) == secret.owner = owner

Patch(to) == [step |-> "patch", uid |-> view.uid, from |-> view.status,
              to |-> to]

\* Ready is false for a reason; the name of the Secret is left as it is.
report(reason) == Patch([view.status EXCEPT !.reason = reason])

ready(content) ==
    [reason |-> "DataSecretCreated", dataSecretName |-> content]

ensureBootstrapSecret(content) ==
    LET found == {s \in secretView : s.content = content}
    IN  CASE found = {} -> [Patch(ready(content)) EXCEPT !.step = "create"]
          [] \E s \in found : IsContractSecret(s, view.uid) ->
                Patch(ready(content))
          [] OTHER -> report("BootstrapSecretInvalid")

\* A reconcile reads the caches and decides on its first write.  An error
\* outside the known ones is returned and retried, and nothing is written.
Reconcile ==
    /\ job = Idle
    /\ queued
    /\ LET rendered == configuration(in)
       IN  CASE rendered.kind = "error" -> UNCHANGED <<job, queued>>
             [] rendered.kind = "report" ->
                   job' = report(rendered.reason) /\ queued' = FALSE
             [] OTHER ->
                   /\ job' = ensureBootstrapSecret(rendered.content)
                   /\ queued' = FALSE
    /\ UNCHANGED <<in, uid, status, view, secrets, secretView, events, timer,
                   changes, faults>>

\* Mutant: the Secret in the cache is the only one looked at.
CreateSecretAgain ==
    /\ job.step = "create"
    /\ secrets' = secrets \cup
          {[content |-> job.to.dataSecretName, owner |-> job.uid]}
    /\ events' = TRUE
    /\ job' = [job EXCEPT !.step = "patch"]
    /\ UNCHANGED <<in, uid, status, view, secretView, queued, timer, changes,
                   faults>>

CreateSecret ==
    /\ job.step = "create"
    /\ LET content == job.to.dataSecretName
       IN  IF \E s \in secrets : s.content = content
           THEN job' = Idle /\ queued' = TRUE /\ UNCHANGED <<secrets, events>>
           ELSE /\ secrets' = secrets \cup
                       {[content |-> content, owner |-> job.uid]}
                /\ events' = TRUE
                /\ job' = [job EXCEPT !.step = "patch"]
                /\ UNCHANGED queued
    /\ UNCHANGED <<in, uid, status, view, secretView, timer, changes,
                   faults>>

\* Mutant: the controller waits for its watches.
NoRequeue(reason) == FALSE

\* RequeueAfter follows a report that waits for something without a watch.
requeueAfter(reason) == reason = "ClusterContextPending"

\* A merge patch sends what differs from the object that was read, to the
\* object that has the name now, whatever its UID and version.
PatchStatus ==
    /\ job.step = "patch"
    /\ status' = [f \in DOMAIN status |->
                     IF job.to[f] # job.from[f] THEN job.to[f] ELSE status[f]]
    /\ timer' = (timer \/ requeueAfter(job.to.reason))
    /\ job' = Idle
    /\ UNCHANGED <<in, uid, view, secrets, secretView, events, queued, changes, faults>>

Requeue ==
    /\ timer
    /\ timer' = FALSE
    /\ queued' = TRUE
    /\ UNCHANGED <<in, uid, status, view, secrets, secretView, events, job,
                   changes, faults>>

\* A write fails, or the controller restarts: what it was doing is lost and
\* the configuration is queued.
Fail ==
    /\ job # Idle
    /\ faults < MaxFaults
    /\ faults' = faults + 1
    /\ job' = Idle
    /\ queued' = TRUE
    /\ UNCHANGED <<in, uid, status, view, secrets, secretView, events, timer,
                   changes>>

-----------------------------------------------------------------------------
Prerequisites == CreateMachine \/ CreateBundle \/ BindMachine \/ ClaimHost
                    \/ ObserveInventory \/ LabelBundle

Next ==
    \/ Prerequisites
    \/ PromoteBundle
    \/ ChangePatches
    \/ ChangeDisks
    \/ ChangeIdentity
    \/ ChangeVersion
    \/ Recreate
    \/ CollectGarbage
    \/ DeleteSecret
    \/ DeliverConfig
    \/ DeliverSecrets
    \/ Reconcile
    \/ CreateSecret
    \/ PatchStatus
    \/ Requeue
    \/ Fail

\* The work queue, the requeue timer, the watches and the garbage collector
\* keep going.
Fairness ==
    /\ WF_vars(Reconcile)
    /\ WF_vars(CreateSecret)
    /\ WF_vars(PatchStatus)
    /\ WF_vars(Requeue)
    /\ WF_vars(DeliverConfig)
    /\ WF_vars(DeliverSecrets)
    /\ WF_vars(CollectGarbage)

Spec == Init /\ [][Next]_vars /\ Fairness

-----------------------------------------------------------------------------
(* Properties.                                                              *)

\* The status reflects the inputs: a Secret of this object that holds the
\* configuration rendered from them, or the reason why there is none.  The
\* Kubernetes version is left out: nothing watches the Machine.
Reflects(rendered) ==
    CASE rendered.kind = "error" -> TRUE
      [] rendered.kind = "report" -> status.reason = rendered.reason
      [] OTHER ->
            /\ status.reason = "DataSecretCreated"
            /\ status.dataSecretName # None
            /\ [status.dataSecretName EXCEPT !.version = in.version]
                  = rendered.content
            /\ [content |-> status.dataSecretName, owner |-> uid] \in secrets

\* Once the inputs stay as they are, the status comes to reflect them and
\* stays so: with merge patches computed from a stale object, with inputs
\* that have no watch (the bundle's label, the Machine), after the object is
\* created again while the Secrets of the old one have the names the new one
\* needs, and after a Secret is deleted.
StatusSettles == <>[]Reflects(configuration(in))

\* A configuration called Ready names its install disk: "render continues in
\* the expectation that the raw patch names the install target; if it does
\* not, validation fails closed".
ReadyNamesItsDisk ==
    status.reason = "DataSecretCreated" =>
        status.dataSecretName.target # None

\* The Secret the status of a Ready configuration names is owned by that
\* configuration: dataSecretName is "the name of a Secret that satisfies the
\* contract (single key, cluster name label, owner reference)".
ReadySecretIsItsOwn ==
    status.reason = "DataSecretCreated" =>
        \A s \in secrets : s.content = status.dataSecretName => s.owner = uid

=============================================================================
