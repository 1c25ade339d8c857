--------------------------- MODULE MachineShutdown ---------------------------
(***************************************************************************)
(* The end of a machine: the TartMachine controller's deletion path asks   *)
(* the claimed host to shut down, waits until it is seen to have stopped,  *)
(* turns the claim into a retention record and lets the machine go, while  *)
(* the TartHost controller powers the same host on for discovery.          *)
(*                                                                         *)
(* One machine holds one host.  Each controller runs one reconcile at a    *)
(* time (work and discovery) on objects read from a cache; every RPC to    *)
(* the host and every write is a step of its own.  HostClaim models the    *)
(* claim itself and the compare-and-swap of the retention.                 *)
(***************************************************************************)
EXTENDS Naturals

CONSTANTS
  Backends,             \* the power backends the host may have
  maxPowerOnAttempts,   \* the budget of power-on requests for discovery
  StartAttempts,        \* the attempts recorded when the model starts
  RequeueOutlastsLag,   \* a reconcile starts only when its object's cache is current
  MaxBoots,             \* bound: boots of the host
  MaxConfirmations,     \* bound: confirmations by the operator
  MaxFaults             \* bound: failing calls, crashes, outages

PowerBackend == {"Redfish", "IntelManageability", "WakeOnLAN", "Manual"}

ASSUME BackendsAssumption == Backends \subseteq PowerBackend

ASSUME BoundsAssumption ==
  /\ maxPowerOnAttempts \in Nat /\ StartAttempts \subseteq 0..maxPowerOnAttempts
  /\ RequeueOutlastsLag \in BOOLEAN
  /\ MaxBoots \in Nat /\ MaxBoots >= 2
  /\ MaxConfirmations \in Nat /\ MaxFaults \in Nat

hasIndependentPowerControl(backend) == backend \in {"Redfish", "IntelManageability"}

isShutdownConfirmationRequired(backend) == backend \in {"WakeOnLAN", "Manual"}

VARIABLES
  machine, machineCache,   \* the TartMachine: stored, cached
  host, hostCache,         \* the TartHost: stored, cached
  drained,                 \* CAPI has drained the node and detached its volumes
  physical,                \* the physical host
  aged,                    \* 30 s have passed since Ready last changed its status
  request,                 \* the age of the last shutdown request made (history)
  work,                    \* the deletion reconcile in flight, or Idle
  discovery,               \* the TartHost reconcile in flight, or Idle
  wasOff,                  \* the host was off after a shutdown request (history)
  sent,                    \* power-on requests since Talos was last reached (history)
  confirmations, faults    \* counters of bounded things

apiVars == <<machine, machineCache, host, hostCache>>
timeVars == <<aged, request>>
history == <<wasOff, sent>>
counters == <<confirmations, faults>>
vars == <<apiVars, drained, physical, timeVars, work, discovery, history, counters>>

-----------------------------------------------------------------------------
(* Types and initial states.                                               *)

\* What the Ready condition says, by the message reported: the first two are
\* of a live machine, then those with the reason ShutdownUnconfirmed, then
\* those with the reason ShutdownRequested.
Unconfirmed == {"NotDrained", "ShutdownFailed", "NotReachable", "NoProvenance", "RetainFailed"}
Requested == {"Requested", "Waiting", "ConfirmationRequired", "Unverified", "StillResponds"}
Conditions == {"Provisioned", "Provisioning"} \union Unconfirmed \union Requested

Boots == 0..MaxBoots
NoConfirmation == MaxBoots + 1

TartMachine == [phase: {"live", "deleting", "gone"}, ready: Conditions]

\* bootID 0: no inventory.  observed: the generation the status was made for.
TartHost ==
  [backend: PowerBackend, claimed: BOOLEAN, confirmation: Boots \union {NoConfirmation},
   generation: Nat, bootID: Boots, ready: BOOLEAN,
   attempts: 0..maxPowerOnAttempts, observed: Nat]

Physical ==
  [on: BOOLEAN, api: {"down", "maintenance", "authenticated"}, boot: Boots,
   installed: BOOLEAN, stopping: BOOLEAN]

Idle == [step |-> "idle"]

claimAttempts == 3

Work ==
  [step: {"request", "report", "observe", "provenance", "retain", "refresh", "finalizer"},
   machine: TartMachine, host: TartHost, attempt: 1..claimAttempts, why: Conditions]

Discovery == [step: {"powerOn", "observe", "patch"}, host: TartHost, new: TartHost]

TypeOK ==
  /\ machine \in TartMachine /\ machineCache \in TartMachine
  /\ host \in TartHost /\ hostCache \in TartHost
  /\ drained \in BOOLEAN /\ physical \in Physical
  /\ aged \in BOOLEAN /\ request \in {"none", "new", "old"}
  /\ work \in Work \union {Idle} /\ discovery \in Discovery \union {Idle}
  /\ wasOff \in BOOLEAN /\ sent \in Nat
  /\ confirmations \in 0..MaxConfirmations /\ faults \in 0..MaxFaults

\* A running host: either its Talos is installed, and it has booted once more
\* since it was discovered in maintenance mode, or it is still discovered.
Init ==
  /\ machine \in [phase: {"live"}, ready: {"Provisioned", "Provisioning"}]
  /\ machineCache = machine
  /\ \E installed, ready \in BOOLEAN, n \in StartAttempts, backend \in Backends :
       /\ ready => n = 0
       /\ physical = [on |-> TRUE, boot |-> IF installed THEN 2 ELSE 1,
                      api |-> IF installed THEN "authenticated" ELSE "maintenance",
                      installed |-> installed, stopping |-> FALSE]
       /\ host = [backend |-> backend, claimed |-> TRUE, confirmation |-> NoConfirmation,
                  generation |-> 1, bootID |-> 1, ready |-> ready,
                  attempts |-> n, observed |-> 1]
       /\ sent = n
  /\ hostCache = host
  /\ drained = FALSE /\ aged = FALSE /\ request = "none"
  /\ work = Idle /\ discovery = Idle
  /\ wasOff = FALSE
  /\ confirmations = 0 /\ faults = 0

-----------------------------------------------------------------------------
(* The environment.                                                        *)

DeliverMachine ==
  /\ machineCache # machine /\ machineCache' = machine
  /\ UNCHANGED <<machine, host, hostCache, drained, physical, timeVars, work,
                 discovery, history, counters>>

DeliverHost ==
  /\ hostCache # host /\ hostCache' = host
  /\ UNCHANGED <<machine, machineCache, host, drained, physical, timeVars, work,
                 discovery, history, counters>>

DeleteMachine ==
  /\ machine.phase = "live"
  /\ machine' = [machine EXCEPT !.phase = "deleting"]
  /\ UNCHANGED <<machineCache, host, hostCache, drained, physical, timeVars, work,
                 discovery, history, counters>>

CAPIDrains ==
  /\ machine.phase = "deleting" /\ ~drained /\ drained' = TRUE
  /\ UNCHANGED <<apiVars, physical, timeVars, work, discovery, history, counters>>

\* The confirmation interval (30 s) passes.
IntervalPasses ==
  /\ aged' = (machine.ready # "Provisioned")
  /\ request' = IF request = "new" THEN "old" ELSE request
  /\ timeVars' # timeVars
  /\ UNCHANGED <<apiVars, drained, physical, work, discovery, history, counters>>

\* The physical host changes; history notes that it was off.
HostBecomes(p) ==
  /\ physical' = p
  /\ wasOff' = (wasOff \/ (~p.on /\ request # "none"))

Off == [physical EXCEPT !.on = FALSE, !.api = "down", !.stopping = FALSE]

TalosComesUp ==
  /\ physical.on /\ physical.api = "down" /\ ~physical.stopping
  /\ HostBecomes([physical EXCEPT !.api =
       IF physical.installed THEN "authenticated" ELSE "maintenance"])
  /\ UNCHANGED <<apiVars, drained, timeVars, work, discovery, sent, counters>>

\* A host that shuts down first stops to answer and is off a while later.
HostStops ==
  /\ physical.stopping
  /\ HostBecomes(IF physical.api = "down" THEN Off ELSE [physical EXCEPT !.api = "down"])
  /\ UNCHANGED <<apiVars, drained, timeVars, work, discovery, sent, counters>>

Fault == faults < MaxFaults /\ faults' = faults + 1

\* Power is lost, or Talos does not answer for a while.
Outage ==
  /\ Fault
  /\ physical.on
  /\ HostBecomes(Off) \/ HostBecomes([physical EXCEPT !.api = "down"])
  /\ UNCHANGED <<apiVars, drained, timeVars, work, discovery, sent, confirmations>>

\* The operator has seen that the host is off and confirms it, with the
\* BootID of the inventory.
OperatorConfirms ==
  /\ confirmations < MaxConfirmations /\ confirmations' = confirmations + 1
  /\ host.claimed /\ ~physical.on
  /\ host' = [host EXCEPT !.confirmation = host.bootID, !.generation = @ + 1]
  /\ UNCHANGED <<machine, machineCache, hostCache, drained, physical, timeVars,
                 work, discovery, history, faults>>

-----------------------------------------------------------------------------
(* The TartHost controller: discovery.                                     *)

needsPowerOnForDiscovery(h) ==
  /\ h.backend # "Manual"
  /\ \/ h.bootID = 0 \/ ~h.ready
     \/ ~h.claimed /\ h.observed < h.generation

\* Mutant: the budget is never used up.
NeverExhausted(h) == FALSE

powerOnRetriesExhausted(h) == h.attempts >= maxPowerOnAttempts

\* Mutant: a pass that did not reach Talos starts the budget anew.
UnreadyResetsBudget(h) ==
  [h EXCEPT !.ready = FALSE, !.attempts = 0, !.observed = h.generation]

\* The result of a pass that did not reach Talos.
Unready(h) == [h EXCEPT !.ready = FALSE, !.observed = h.generation]

\* A reconcile reads the host and decides on power.  A host whose budget is
\* used up is reported without being looked at.
BeginDiscovery ==
  LET h == hostCache
      counted == [h EXCEPT !.attempts = @ + 1]
  IN /\ discovery = Idle
     /\ RequeueOutlastsLag => hostCache = host
     /\ discovery' =
          IF ~needsPowerOnForDiscovery(h)
          THEN [step |-> "observe", host |-> h, new |-> h]
          ELSE IF powerOnRetriesExhausted(h)
          THEN [step |-> "patch", host |-> h, new |-> Unready(h)]
          ELSE [step |-> "powerOn", host |-> h, new |-> counted]
     /\ UNCHANGED <<apiVars, drained, physical, timeVars, work, history, counters>>

\* History counts as far as the budget can be exceeded.
CountSent == sent' = IF sent <= maxPowerOnAttempts + MaxFaults THEN sent + 1 ELSE sent

\* PowerOnHost: a host that is off boots, one that is on is left alone.
PowerOnHost ==
  /\ discovery.step = "powerOn"
  /\ physical.on \/ physical.boot < MaxBoots
  /\ HostBecomes(IF physical.on THEN physical
                 ELSE [physical EXCEPT !.on = TRUE, !.boot = @ + 1])
  /\ CountSent
  /\ discovery' = [discovery EXCEPT !.step = "observe"]
  /\ UNCHANGED <<apiVars, drained, timeVars, work, counters>>

PowerOnFails ==
  /\ discovery.step = "powerOn"
  /\ Fault
  /\ CountSent
  /\ discovery' = [discovery EXCEPT !.step = "patch", !.new = Unready(@)]
  /\ UNCHANGED <<apiVars, drained, physical, timeVars, work, wasOff, confirmations>>

\* observeHost asks the maintenance API only.
ObserveHost ==
  /\ discovery.step = "observe"
  /\ LET reached == physical.api = "maintenance"
         h == discovery.new
     IN /\ discovery' = [discovery EXCEPT !.step = "patch", !.new =
             IF reached
             THEN [h EXCEPT !.attempts = 0, !.bootID = physical.boot,
                            !.ready = TRUE, !.observed = h.generation]
             ELSE Unready(h)]
        /\ sent' = IF reached THEN 0 ELSE sent
  /\ UNCHANGED <<apiVars, drained, physical, timeVars, work, wasOff, counters>>

\* A merge patch without a lock: it carries the fields that differ from the
\* host read.
PatchHostStatus ==
  LET old == discovery.host
      new == discovery.new
      Merge(f) == IF new[f] # old[f] THEN new[f] ELSE host[f]
  IN /\ discovery.step = "patch"
     /\ host' = [host EXCEPT !.bootID = Merge("bootID"), !.ready = Merge("ready"),
                             !.attempts = Merge("attempts"), !.observed = Merge("observed")]
     /\ discovery' = Idle
     /\ UNCHANGED <<machine, machineCache, hostCache, drained, physical, timeVars,
                    work, history, counters>>

-----------------------------------------------------------------------------
(* The TartMachine controller: deletion.                                   *)

\* Mutant: only the first message counts as a request.
HasFirstShutdownRequest(m) == m.ready = "Requested"

HasShutdownRequest(m) == m.ready \in Requested

\* Mutant: a confirmation is not asked for.
ConfirmationIgnored(h) == TRUE

\* The confirmation is for the boot in the inventory, when there is one.
shutdownConfirmed(h) ==
  /\ h.confirmation # NoConfirmation
  /\ h.bootID # 0 => h.confirmation = h.bootID

DeletionWork(step, why) ==
  [step |-> step, machine |-> machineCache,
   host |-> hostCache, attempt |-> 1, why |-> why]

Report(why) == work' = [work EXCEPT !.step = "report", !.why = why]

\* Reconcile reads machine and host, and goes on from where the Ready
\* condition says the deletion is.  A claim that has already become a
\* retention record leaves only the finalizer to remove.
BeginDeletion ==
  /\ work = Idle
  /\ RequeueOutlastsLag => machineCache = machine
  /\ machineCache.phase = "deleting"
  /\ work' =
       IF ~drained THEN DeletionWork("report", "NotDrained")
       ELSE IF ~hostCache.claimed THEN DeletionWork("finalizer", "Provisioned")
       ELSE IF ~HasShutdownRequest(machineCache) THEN DeletionWork("request", "Requested")
       ELSE IF ~aged THEN DeletionWork("report", "Waiting")
       ELSE DeletionWork("observe", "Requested")
  /\ UNCHANGED <<apiVars, drained, physical, timeVars, discovery, history, counters>>

\* requestHostShutdown: an installed Talos shuts down; in maintenance mode,
\* where Talos cannot, the host is powered off by a backend that can tell
\* afterwards; a host that does not answer was not asked.
RequestHostShutdown ==
  LET asked == \/ physical.api = "authenticated"
               \/ /\ physical.api = "maintenance"
                  /\ hasIndependentPowerControl(work.host.backend)
  IN /\ work.step = "request"
     /\ IF asked
        THEN /\ physical' = [physical EXCEPT !.stopping = TRUE]
             /\ request' = "new"
             /\ Report("Requested")
        ELSE /\ Report(IF physical.api = "down" THEN "NotReachable" ELSE "ShutdownFailed")
             /\ UNCHANGED <<physical, request>>
     /\ UNCHANGED <<apiVars, drained, aged, discovery, history, counters>>

\* The call fails, or only its answer is lost.
RequestFails ==
  /\ work.step = "request" /\ physical.api # "down"
  /\ Fault
  /\ \/ UNCHANGED physical
     \/ physical' = [physical EXCEPT !.stopping = TRUE]
  /\ Report(IF physical.api = "maintenance" THEN "ShutdownFailed" ELSE "NotReachable")
  /\ UNCHANGED <<apiVars, drained, timeVars, discovery, history, confirmations>>

\* Mutant: a silent endpoint is taken for a host that has stopped.
SeenSilent == physical.api = "down"

\* observeHostStopped: the power state where the backend knows it, otherwise
\* the silence of Talos together with the operator's confirmation.
SeenStopped ==
  IF hasIndependentPowerControl(work.host.backend) THEN ~physical.on
  ELSE physical.api = "down" /\ shutdownConfirmed(work.host)

\* What is reported of a host not seen to have stopped: without the
\* confirmation that its backend needs, that it is missing.
NotStopped(why) ==
  IF isShutdownConfirmationRequired(work.host.backend) /\ ~shutdownConfirmed(work.host)
  THEN "ConfirmationRequired" ELSE why

ObserveHostStopped ==
  /\ work.step = "observe"
  /\ IF SeenStopped THEN work' = [work EXCEPT !.step = "provenance"]
     ELSE Report(NotStopped("StillResponds"))
  /\ UNCHANGED <<apiVars, drained, physical, timeVars, discovery, history, counters>>

\* previousConsumerRef resolves the ClusterID.
ResolveProvenance ==
  /\ work.step = "provenance"
  /\ work' = [work EXCEPT !.step = "retain"]
  /\ UNCHANGED <<apiVars, drained, physical, timeVars, discovery, history, counters>>

\* Mutant: a conflict is taken for success.
RetainHostOnce ==
  /\ work.step = "retain"
  /\ work' = [work EXCEPT !.step = "finalizer"]
  /\ host' = IF work.host.claimed /\ work.host = host
             THEN [host EXCEPT !.claimed = FALSE, !.generation = @ + 1] ELSE host
  /\ UNCHANGED <<machine, machineCache, hostCache, drained, physical, timeVars,
                 discovery, history, counters>>

\* One round of RetainHost: an Update of the host as it was read; a conflict
\* is tried again on the host the cache holds then.
RetainHost ==
  /\ work.step = "retain"
  /\ \/ /\ ~work.host.claimed
        /\ work' = [work EXCEPT !.step = "finalizer"]
        /\ UNCHANGED host
     \/ /\ work.host.claimed /\ work.host = host
        /\ host' = [host EXCEPT !.claimed = FALSE, !.generation = @ + 1]
        /\ work' = [work EXCEPT !.step = "finalizer"]
     \/ /\ work.host.claimed /\ work.host # host
        /\ IF work.attempt = claimAttempts THEN Report("RetainFailed")
           ELSE work' = [work EXCEPT !.step = "refresh", !.attempt = @ + 1]
        /\ UNCHANGED host
  /\ UNCHANGED <<machine, machineCache, hostCache, drained, physical, timeVars,
                 discovery, history, counters>>

RefreshRetain ==
  /\ work.step = "refresh"
  /\ work' = [work EXCEPT !.step = "retain", !.host = hostCache]
  /\ UNCHANGED <<apiVars, drained, physical, timeVars, discovery, history, counters>>

\* The power state, the ClusterID or the API server cannot be reached.
DeletionCallFails ==
  /\ work.step \in {"observe", "provenance", "retain"}
  /\ Fault
  /\ Report(CASE work.step = "observe" -> NotStopped("Unverified")
              [] work.step = "provenance" -> "NoProvenance"
              [] work.step = "retain" -> "RetainFailed")
  /\ UNCHANGED <<apiVars, drained, physical, timeVars, discovery, history, confirmations>>

\* SetStatusCondition renews the transition time only when the status of
\* Ready changes; the merge patch is empty when nothing changes.
ReportCondition ==
  /\ work.step = "report"
  /\ IF work.why = work.machine.ready \/ machine.phase = "gone"
     THEN UNCHANGED <<machine, aged>>
     ELSE /\ machine' = [machine EXCEPT !.ready = work.why]
          /\ aged' = (aged /\ work.machine.ready # "Provisioned")
  /\ work' = Idle
  /\ UNCHANGED <<machineCache, host, hostCache, drained, physical, request,
                 discovery, history, counters>>

\* A Patch with an optimistic lock; a conflict ends the reconcile.
RemoveFinalizer ==
  /\ work.step = "finalizer"
  /\ machine' = IF work.machine = machine THEN [machine EXCEPT !.phase = "gone"] ELSE machine
  /\ work' = Idle
  /\ UNCHANGED <<machineCache, host, hostCache, drained, physical, timeVars,
                 discovery, history, counters>>

\* The manager dies: both reconciles are lost with everything they read.
Crash ==
  /\ Fault
  /\ work # Idle \/ discovery # Idle
  /\ work' = Idle /\ discovery' = Idle
  /\ UNCHANGED <<apiVars, drained, physical, timeVars, history, confirmations>>

-----------------------------------------------------------------------------
DeletionStep ==
  \/ BeginDeletion \/ RequestHostShutdown \/ ObserveHostStopped
  \/ ResolveProvenance \/ RetainHost \/ RefreshRetain \/ ReportCondition \/ RemoveFinalizer

DiscoveryStep == BeginDiscovery \/ PowerOnHost \/ ObserveHost \/ PatchHostStatus

Next ==
  \/ DeletionStep \/ DiscoveryStep
  \/ DeliverMachine \/ DeliverHost \/ DeleteMachine \/ CAPIDrains
  \/ IntervalPasses \/ TalosComesUp \/ HostStops \/ OperatorConfirms
  \/ Outage \/ PowerOnFails \/ RequestFails \/ DeletionCallFails \/ Crash

Spec == Init /\ [][Next]_vars

\* Both work queues, the watches, CAPI, the clock and the host go on; the
\* machine is deleted some day, the operator need not act.
Fairness ==
  /\ WF_vars(DeletionStep) /\ WF_vars(DiscoveryStep)
  /\ WF_vars(DeliverMachine) /\ WF_vars(DeliverHost)
  /\ WF_vars(DeleteMachine) /\ WF_vars(CAPIDrains)
  /\ WF_vars(IntervalPasses) /\ WF_vars(TalosComesUp) /\ WF_vars(HostStops)

FairSpec == Spec /\ Fairness

-----------------------------------------------------------------------------
(* Properties.                                                             *)

\* A host whose power state can be read is released only after it was off at
\* some moment since its shutdown was requested, whatever discovery, outages,
\* lost answers and crashes did in between.
ReleasedOnlyAfterStop ==
  ~host.claimed /\ hasIndependentPowerControl(host.backend) => wasOff

\* The machine goes only after its host has been released.
GoneOnlyAfterRelease == machine.phase = "gone" => ~host.claimed

\* Power-on requests between two contacts with Talos stay within the budget;
\* only a request whose count a crash lost comes on top.
PowerOnBudget == sent <= maxPowerOnAttempts + faults

\* A machine that is deleted goes in the end, and its host is retained, when
\* its power state can be read, discovery has used up its power-on requests and
\* nothing fails and nobody touches the host.
DeletionCompletes ==
  /\ hasIndependentPowerControl(host.backend)
  /\ host.attempts = maxPowerOnAttempts
  /\ [](faults = 0 /\ confirmations = 0)
  => <>(machine.phase = "gone" /\ ~host.claimed)

\* A backend that cannot see the power state never releases a host on the
\* silence of its endpoint alone: an operator has confirmed the stop, and the
\* host had been asked to shut down before.
SilenceIsNoProof ==
  ~host.claimed /\ isShutdownConfirmationRequired(host.backend)
    => confirmations > 0 /\ request # "none"

\* deletion.go: a failure to resolve the previous consumer is temporary, so a
\* host that was seen to have stopped is released in the end.
SeenStoppedIsReleased == (work.step = "provenance") ~> ~host.claimed

\* deletion.go: a confirmation given before a reboot does not make a host that
\* runs again count as stopped.
StoppedMeansOff ==
  [][work.step = "observe" /\ work'.step = "provenance" => ~physical.on]_vars

\* domain/machine/shutdown.go: the host is looked at only when the
\* confirmation interval after the shutdown request has passed.
ObservedAfterInterval == work.step = "observe" => request = "old"

\* api/infrastructure/v1alpha1/tarthost_types.go: a host whose maintenance
\* API answers for good is seen to be ready, and its budget starts anew.
ReachedHostBecomesReady ==
  <>[](physical.api = "maintenance") => <>(host.ready /\ host.attempts = 0)
=============================================================================
