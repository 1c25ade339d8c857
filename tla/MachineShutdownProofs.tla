------------------------ MODULE MachineShutdownProofs ------------------------
(***************************************************************************)
(* Type correctness of MachineShutdown, and that a host is released only   *)
(* after it has stopped and its machine goes only after that, for every    *)
(* backend, budget, number of boots and faults, and any lag of the caches. *)
(***************************************************************************)
EXTENDS MachineShutdown, TLAPS

\* The steps of a deletion that come after the host was seen to have stopped.
Stopped == {"provenance", "retain", "refresh"}

\* Copies of the host are of its backend, and one that is released is so for
\* good: nothing claims the host again for this machine.
Copies ==
  /\ hostCache.backend = host.backend
  /\ ~hostCache.claimed => ~host.claimed
  /\ work # Idle => /\ work.host.backend = host.backend
                    /\ ~work.host.claimed => ~host.claimed

\* Wherever the reason ShutdownRequested is, stored, cached, read or about to
\* be reported, a shutdown has been requested.
Asked ==
  /\ machine.ready \in Requested => request # "none"
  /\ machineCache.ready \in Requested => request # "none"
  /\ work # Idle =>
       /\ work.machine.ready \in Requested => request # "none"
       /\ work.step = "report" /\ work.why \in Requested => request # "none"
       /\ work.step \in Stopped \union {"observe"} => request # "none"

\* Only a host that is on is asked, so one that is off later was seen to go.
Power ==
  /\ physical.api # "down" => physical.on
  /\ request # "none" /\ ~physical.on => wasOff

\* A confirmation, in any copy of the host, was given by an operator.
Confirmed ==
  /\ host.confirmation # NoConfirmation => confirmations > 0
  /\ hostCache.confirmation # NoConfirmation => confirmations > 0
  /\ work # Idle /\ work.host.confirmation # NoConfirmation => confirmations > 0

\* What is known of the host once it was seen to have stopped.
Proof(backend) ==
  /\ hasIndependentPowerControl(backend) => wasOff
  /\ isShutdownConfirmationRequired(backend) => confirmations > 0 /\ request # "none"

Release ==
  /\ work.step \in Stopped => Proof(host.backend)
  /\ ~host.claimed => Proof(host.backend)
  /\ work.step = "finalizer" => ~host.claimed
  /\ machine.phase = "gone" => ~host.claimed

\* The inductive invariant behind the three theorems on the release.
IInv == TypeOK /\ Copies /\ Asked /\ Power /\ Confirmed /\ Release

-----------------------------------------------------------------------------
(* Type correctness.                                                       *)

\* The edits made to each record keep its type.
LEMMA HostEdits ==
  ASSUME NEW x \in TartHost
  PROVE  /\ [x EXCEPT !.claimed = FALSE, !.generation = @ + 1] \in TartHost
         /\ [x EXCEPT !.confirmation = x.bootID, !.generation = @ + 1] \in TartHost
         /\ Unready(x) \in TartHost
         /\ ~powerOnRetriesExhausted(x) => [x EXCEPT !.attempts = @ + 1] \in TartHost
         /\ \A b \in Boots :
              [x EXCEPT !.attempts = 0, !.bootID = b,
                        !.ready = TRUE, !.observed = x.generation] \in TartHost
         /\ \A b \in Boots, r \in BOOLEAN, n \in 0..maxPowerOnAttempts, g \in Nat :
              [x EXCEPT !.bootID = b, !.ready = r,
                        !.attempts = n, !.observed = g] \in TartHost
<1>1. /\ x.generation + 1 \in Nat /\ x.generation \in Nat
      /\ x.bootID \in Boots
      /\ 0 \in 0..maxPowerOnAttempts
  BY BoundsAssumption DEF TartHost
<1>2. ~powerOnRetriesExhausted(x) => x.attempts + 1 \in 0..maxPowerOnAttempts
  BY BoundsAssumption DEF TartHost, powerOnRetriesExhausted
<1>3. /\ [x EXCEPT !.claimed = FALSE, !.generation = @ + 1] \in TartHost
      /\ [x EXCEPT !.confirmation = x.bootID, !.generation = @ + 1] \in TartHost
  BY <1>1 DEF TartHost
<1>4. Unready(x) \in TartHost
  BY <1>1 DEF TartHost, Unready
<1>5. ~powerOnRetriesExhausted(x) => [x EXCEPT !.attempts = @ + 1] \in TartHost
  BY <1>2 DEF TartHost
<1>6. \A b \in Boots :
        [x EXCEPT !.attempts = 0, !.bootID = b,
                  !.ready = TRUE, !.observed = x.generation] \in TartHost
  BY <1>1 DEF TartHost
<1>7. \A b \in Boots, r \in BOOLEAN, n \in 0..maxPowerOnAttempts, g \in Nat :
        [x EXCEPT !.bootID = b, !.ready = r,
                  !.attempts = n, !.observed = g] \in TartHost
  BY DEF TartHost
<1>8. QED
  BY <1>3, <1>4, <1>5, <1>6, <1>7

\* So do those made to the physical host,
LEMMA PhysicalEdits ==
  ASSUME NEW p \in Physical
  PROVE  /\ [p EXCEPT !.stopping = TRUE] \in Physical
         /\ [p EXCEPT !.on = FALSE, !.api = "down", !.stopping = FALSE] \in Physical
         /\ \A a \in {"down", "maintenance", "authenticated"} :
              [p EXCEPT !.api = a] \in Physical
         /\ p.boot < MaxBoots => [p EXCEPT !.on = TRUE, !.boot = @ + 1] \in Physical
<1>1. p.boot < MaxBoots => p.boot + 1 \in Boots
  BY BoundsAssumption DEF Physical, Boots
<1>2. /\ [p EXCEPT !.stopping = TRUE] \in Physical
      /\ [p EXCEPT !.on = FALSE, !.api = "down", !.stopping = FALSE] \in Physical
      /\ \A a \in {"down", "maintenance", "authenticated"} :
           [p EXCEPT !.api = a] \in Physical
  BY DEF Physical
<1>3. p.boot < MaxBoots => [p EXCEPT !.on = TRUE, !.boot = @ + 1] \in Physical
  BY <1>1 DEF Physical
<1>4. QED
  BY <1>2, <1>3

Steps == {"request", "report", "observe", "provenance", "retain", "refresh", "finalizer"}

\* to the deletion in flight
LEMMA WorkEdits ==
  ASSUME NEW w \in Work
  PROVE  /\ \A s \in Steps : [w EXCEPT !.step = s] \in Work
         /\ \A c \in Conditions : [w EXCEPT !.step = "report", !.why = c] \in Work
         /\ w.attempt # claimAttempts
              => [w EXCEPT !.step = "refresh", !.attempt = @ + 1] \in Work
         /\ \A x \in TartHost : [w EXCEPT !.step = "retain", !.host = x] \in Work
<1>1. w.attempt # claimAttempts => w.attempt + 1 \in 1..claimAttempts
  BY DEF Work, claimAttempts
<1>2. w.attempt # claimAttempts
        => [w EXCEPT !.step = "refresh", !.attempt = @ + 1] \in Work
  BY <1>1 DEF Work
<1>3. /\ \A s \in Steps : [w EXCEPT !.step = s] \in Work
      /\ \A c \in Conditions : [w EXCEPT !.step = "report", !.why = c] \in Work
      /\ \A x \in TartHost : [w EXCEPT !.step = "retain", !.host = x] \in Work
  BY DEF Work, Steps
<1>4. QED
  BY <1>2, <1>3

\* and to the discovery in flight.
LEMMA DiscoveryEdits ==
  ASSUME NEW d \in Discovery
  PROVE  /\ d.host \in TartHost /\ d.new \in TartHost
         /\ [d EXCEPT !.step = "observe"] \in Discovery
         /\ \A x \in TartHost : [d EXCEPT !.step = "patch", !.new = x] \in Discovery
BY DEF Discovery

\* The environment's steps keep the types.
LEMMA EnvironmentType ==
  ASSUME TypeOK,
         \/ DeliverMachine \/ DeliverHost \/ DeleteMachine \/ CAPIDrains
         \/ IntervalPasses \/ TalosComesUp \/ HostStops \/ Outage
         \/ OperatorConfirms \/ Crash
  PROVE  TypeOK'
<1> USE BoundsAssumption DEF TypeOK, apiVars, timeVars, history, counters
<1>1. CASE DeliverMachine \/ DeliverHost \/ CAPIDrains \/ IntervalPasses
  BY <1>1 DEF DeliverMachine, DeliverHost, CAPIDrains, IntervalPasses
<1>2. CASE DeleteMachine
  BY <1>2 DEF DeleteMachine, TartMachine
<1>3. CASE TalosComesUp \/ HostStops \/ Outage
  <2>1. physical' \in Physical
    BY <1>3, PhysicalEdits DEF TalosComesUp, HostStops, Outage, HostBecomes, Off
  <2>2. wasOff' \in BOOLEAN
    BY <1>3 DEF TalosComesUp, HostStops, Outage, HostBecomes
  <2>3. QED
    BY <1>3, <2>1, <2>2 DEF TalosComesUp, HostStops, Outage, Fault
<1>4. CASE OperatorConfirms
  <2>1. host' \in TartHost
    BY <1>4, HostEdits DEF OperatorConfirms
  <2>2. confirmations' \in 0..MaxConfirmations
    BY <1>4 DEF OperatorConfirms
  <2>3. QED
    BY <1>4, <2>1, <2>2 DEF OperatorConfirms
<1>5. CASE Crash
  BY <1>5 DEF Crash, Fault
<1>6. QED
  BY <1>1, <1>2, <1>3, <1>4, <1>5

\* The TartHost controller's steps keep the types.
LEMMA DiscoveryType ==
  ASSUME TypeOK, DiscoveryStep \/ PowerOnFails
  PROVE  TypeOK'
<1> USE BoundsAssumption DEF TypeOK, apiVars, timeVars, history, counters
<1>1. CASE BeginDiscovery
  <2>1. \A h \in TartHost : Unready(h) \in TartHost
    BY HostEdits
  <2>2. discovery' \in Discovery
    BY <1>1, <2>1, HostEdits DEF BeginDiscovery, Discovery
  <2>3. QED
    BY <1>1, <2>2 DEF BeginDiscovery
<1>2. CASE PowerOnHost
  <2>1. discovery \in Discovery
    BY <1>2 DEF PowerOnHost, Idle
  <2>2. discovery' \in Discovery
    BY <1>2, <2>1, DiscoveryEdits DEF PowerOnHost
  <2>3. physical' \in Physical
    BY <1>2, PhysicalEdits DEF PowerOnHost, HostBecomes
  <2>4. wasOff' \in BOOLEAN /\ sent' \in Nat
    BY <1>2 DEF PowerOnHost, HostBecomes, CountSent
  <2>5. QED
    BY <1>2, <2>2, <2>3, <2>4 DEF PowerOnHost
<1>3. CASE PowerOnFails
  <2>1. discovery \in Discovery
    BY <1>3 DEF PowerOnFails, Idle
  <2>2. Unready(discovery.new) \in TartHost
    BY <2>1, DiscoveryEdits, HostEdits
  <2>3. discovery' \in Discovery
    BY <1>3, <2>1, <2>2, DiscoveryEdits DEF PowerOnFails
  <2>4. QED
    BY <1>3, <2>3 DEF PowerOnFails, CountSent, Fault
<1>4. CASE ObserveHost
  <2>1. discovery \in Discovery
    BY <1>4 DEF ObserveHost, Idle
  <2>2. discovery.new \in TartHost /\ physical.boot \in Boots
    BY <2>1, DiscoveryEdits DEF Physical
  <2>3. discovery' \in Discovery
    BY <1>4, <2>1, <2>2, HostEdits, DiscoveryEdits DEF ObserveHost
  <2>4. QED
    BY <1>4, <2>3 DEF ObserveHost
<1>5. CASE PatchHostStatus
  <2>0. discovery \in Discovery
    BY <1>5 DEF PatchHostStatus, Idle
  <2>1. discovery.host \in TartHost /\ discovery.new \in TartHost
    BY <2>0, DiscoveryEdits
  <2> DEFINE Merge(f) == IF discovery.new[f] # discovery.host[f]
                         THEN discovery.new[f] ELSE host[f]
  <2>2. /\ Merge("bootID") \in Boots /\ Merge("ready") \in BOOLEAN
        /\ Merge("attempts") \in 0..maxPowerOnAttempts /\ Merge("observed") \in Nat
    BY <2>1 DEF TartHost
  <2>3. host' = [host EXCEPT !.bootID = Merge("bootID"), !.ready = Merge("ready"),
                   !.attempts = Merge("attempts"), !.observed = Merge("observed")]
    BY <1>5 DEF PatchHostStatus
  <2> HIDE DEF Merge
  <2>4. host' \in TartHost
    BY <2>2, <2>3, HostEdits
  <2>5. QED
    BY <1>5, <2>4 DEF PatchHostStatus
<1>6. QED
  BY <1>1, <1>2, <1>3, <1>4, <1>5 DEF DiscoveryStep

\* The TartMachine controller's steps keep the types.
LEMMA DeletionType ==
  ASSUME TypeOK, DeletionStep \/ RequestFails \/ DeletionCallFails
  PROVE  TypeOK'
<1> USE BoundsAssumption DEF TypeOK, apiVars, timeVars, history, counters
<1>1. CASE BeginDeletion
  <2>1. \A s \in Steps, c \in Conditions : DeletionWork(s, c) \in Work
    BY DEF DeletionWork, Work, Steps, claimAttempts
  <2>2. work' \in Work
    BY <1>1, <2>1 DEF BeginDeletion, Steps, Conditions, Unconfirmed, Requested
  <2>3. QED
    BY <1>1, <2>2 DEF BeginDeletion
<1>2. CASE RequestHostShutdown \/ RequestFails
  <2>1. work \in Work
    BY <1>2 DEF RequestHostShutdown, RequestFails, Idle
  <2>2. work' \in Work
    <3>1. PICK c \in Conditions : Report(c)
      BY <1>2 DEF RequestHostShutdown, RequestFails, Conditions, Unconfirmed, Requested
    <3>2. QED
      BY <2>1, <3>1, WorkEdits DEF Report
  <2>3. physical' \in Physical
    BY <1>2, PhysicalEdits DEF RequestHostShutdown, RequestFails
  <2>4. QED
    BY <1>2, <2>2, <2>3 DEF RequestHostShutdown, RequestFails, Fault
<1>3. CASE ObserveHostStopped \/ DeletionCallFails
  <2>1. work \in Work
    BY <1>3 DEF ObserveHostStopped, DeletionCallFails, Idle
  <2>2. \A c \in Conditions : NotStopped(c) \in Conditions
    BY DEF NotStopped, Conditions, Requested
  <2>3. work' \in Work
    <3>1. \/ work' = [work EXCEPT !.step = "provenance"]
          \/ \E c \in Conditions : Report(c)
      BY <1>3, <2>2 DEF ObserveHostStopped, DeletionCallFails,
                        Conditions, Unconfirmed, Requested
    <3>2. QED
      BY <2>1, <3>1, WorkEdits DEF Report, Steps
  <2>4. QED
    BY <1>3, <2>3 DEF ObserveHostStopped, DeletionCallFails, Fault
<1>4. CASE ResolveProvenance \/ RefreshRetain
  <2>1. work \in Work
    BY <1>4 DEF ResolveProvenance, RefreshRetain, Idle
  <2>2. work' \in Work
    BY <1>4, <2>1, WorkEdits DEF ResolveProvenance, RefreshRetain, Steps
  <2>3. QED
    BY <1>4, <2>2 DEF ResolveProvenance, RefreshRetain
<1>5. CASE RetainHost
  <2>1. work \in Work
    BY <1>5 DEF RetainHost, Idle
  <2>2. work' \in Work
    <3>1. \/ work' = [work EXCEPT !.step = "finalizer"]
          \/ Report("RetainFailed")
          \/ /\ work.attempt # claimAttempts
             /\ work' = [work EXCEPT !.step = "refresh", !.attempt = @ + 1]
      BY <1>5 DEF RetainHost
    <3>2. "RetainFailed" \in Conditions
      BY DEF Conditions, Unconfirmed
    <3>3. QED
      BY <2>1, <3>1, <3>2, WorkEdits DEF Report, Steps
  <2>3. host' \in TartHost
    BY <1>5, HostEdits DEF RetainHost
  <2>4. QED
    BY <1>5, <2>2, <2>3 DEF RetainHost
<1>6. CASE ReportCondition
  <2>1. work \in Work
    BY <1>6 DEF ReportCondition, Idle
  <2>2. machine' \in TartMachine
    BY <1>6, <2>1 DEF ReportCondition, TartMachine, Work
  <2>3. QED
    BY <1>6, <2>2 DEF ReportCondition
<1>7. CASE RemoveFinalizer
  BY <1>7 DEF RemoveFinalizer, TartMachine
<1>8. QED
  BY <1>1, <1>2, <1>3, <1>4, <1>5, <1>6, <1>7 DEF DeletionStep

\* Every step keeps the types.
LEMMA TypeStep == TypeOK /\ [Next]_vars => TypeOK'
<1> SUFFICES ASSUME TypeOK, [Next]_vars PROVE TypeOK'
  OBVIOUS
<1>1. CASE UNCHANGED vars
  BY <1>1 DEF vars, apiVars, timeVars, history, counters, TypeOK
<1>2. CASE Next
  BY <1>2, EnvironmentType, DiscoveryType, DeletionType DEF Next
<1>3. QED
  BY <1>1, <1>2

\* The initial states are well typed.
LEMMA InitType == Init => TypeOK
<1> SUFFICES ASSUME Init PROVE TypeOK
  OBVIOUS
<1>1. machine \in TartMachine /\ machineCache \in TartMachine
  BY DEF Init, TartMachine, Conditions
<1>2. physical \in Physical
  BY BoundsAssumption DEF Init, Physical, Boots
<1>3. host \in TartHost /\ sent \in Nat
  BY BoundsAssumption, BackendsAssumption DEF Init, TartHost, Boots, NoConfirmation
<1>4. confirmations \in 0..MaxConfirmations /\ faults \in 0..MaxFaults
  BY BoundsAssumption DEF Init
<1>5. QED
  BY <1>1, <1>2, <1>3, <1>4 DEF Init, TypeOK

\* The cached objects, the two reconciles in flight, the host and its budget
\* keep their types, whatever the backend, the lag and the failures: in
\* particular the recorded attempts never exceed the budget.
THEOREM TypeCorrect == Spec => []TypeOK
BY InitType, TypeStep, PTL DEF Spec

-----------------------------------------------------------------------------
(* Release.                                                                *)

\* What a deletion step that only moves on, or reports, leaves as it was.
LEMMA MovesOn ==
  ASSUME NEW w \in Work, NEW s \in Steps
  PROVE  LET v == [w EXCEPT !.step = s]
         IN /\ v # Idle /\ v.step = s
            /\ v.host = w.host /\ v.machine = w.machine
BY DEF Work, Idle, Steps

\* A report keeps the copies the reconcile holds.
LEMMA Reports ==
  ASSUME work \in Work, NEW c, Report(c)
  PROVE  /\ work' # Idle /\ work'.step = "report" /\ work'.why = c
         /\ work'.host = work.host /\ work'.machine = work.machine
BY DEF Work, Idle, Report

\* A step that changes the reconcile in flight only by a report of a reason
\* other than ShutdownRequested, or of that one after a request.
LEMMA ReportInv ==
  ASSUME IInv, TypeOK', work \in Work, NEW c, Report(c),
         c \in Requested => request # "none",
         UNCHANGED <<machine, machineCache, host, hostCache, physical, request,
                     wasOff, confirmations>>
  PROVE  IInv'
<1>1. /\ work # Idle
      /\ work' # Idle /\ work'.step = "report" /\ work'.why = c
      /\ work'.host = work.host /\ work'.machine = work.machine
  BY Reports DEF Work, Idle
<1>2. Copies' /\ Confirmed'
  BY <1>1 DEF IInv, Copies, Confirmed
<1>3. Asked'
  BY <1>1 DEF IInv, Asked, Stopped
<1>4. Power' /\ Release'
  BY <1>1 DEF IInv, Power, Release, Stopped, Proof
<1>5. QED
  BY <1>2, <1>3, <1>4 DEF IInv

\* The host, its operator and CAPI keep the invariant: a host that goes off
\* after a request is noted, and no cache learns what is not stored.
LEMMA EnvironmentInv ==
  ASSUME IInv, TypeOK',
         \/ DeliverMachine \/ DeliverHost \/ DeleteMachine \/ CAPIDrains
         \/ IntervalPasses \/ TalosComesUp \/ HostStops \/ Outage
         \/ OperatorConfirms \/ Crash
  PROVE  IInv'
<1> USE DEF IInv, TypeOK, apiVars, timeVars, history, counters
<1>1. CASE DeliverMachine \/ DeliverHost \/ CAPIDrains \/ IntervalPasses
  BY <1>1 DEF DeliverMachine, DeliverHost, CAPIDrains, IntervalPasses,
              Copies, Asked, Power, Confirmed, Release, Proof
<1>2. CASE DeleteMachine
  BY <1>2 DEF DeleteMachine, TartMachine, Copies, Asked, Power, Confirmed, Release, Proof
<1>3. CASE TalosComesUp \/ HostStops \/ Outage
  <2>1. Power'
    BY <1>3 DEF TalosComesUp, HostStops, Outage, HostBecomes, Off, Physical, Power
  <2>2. wasOff => wasOff'
    BY <1>3 DEF TalosComesUp, HostStops, Outage, HostBecomes
  <2>3. QED
    BY <1>3, <2>1, <2>2 DEF TalosComesUp, HostStops, Outage,
                            Copies, Asked, Confirmed, Release, Proof
<1>4. CASE OperatorConfirms
  <2>1. host'.backend = host.backend /\ host'.claimed = host.claimed
    BY <1>4 DEF OperatorConfirms, TartHost
  <2>2. confirmations \in 0..MaxConfirmations /\ confirmations' = confirmations + 1
    BY <1>4 DEF OperatorConfirms
  <2>3. confirmations' > 0
    BY <2>2, BoundsAssumption
  <2>4. QED
    BY <1>4, <2>1, <2>3 DEF OperatorConfirms, Copies, Asked, Power, Confirmed, Release, Proof
<1>5. CASE Crash
  BY <1>5 DEF Crash, Idle, Copies, Asked, Power, Confirmed, Release, Proof, Stopped
<1>6. QED
  BY <1>1, <1>2, <1>3, <1>4, <1>5

\* Discovery boots the host and patches its status, but touches neither the
\* claim nor what the deletion knows.
LEMMA DiscoveryInv ==
  ASSUME IInv, TypeOK', DiscoveryStep \/ PowerOnFails
  PROVE  IInv'
<1> USE DEF IInv, TypeOK, apiVars, timeVars, history, counters
<1>1. CASE BeginDiscovery \/ PowerOnFails \/ ObserveHost
  BY <1>1 DEF BeginDiscovery, PowerOnFails, ObserveHost,
              Copies, Asked, Power, Confirmed, Release, Proof
<1>2. CASE PowerOnHost
  <2>1. Power'
    BY <1>2 DEF PowerOnHost, HostBecomes, Physical, Power
  <2>2. wasOff => wasOff'
    BY <1>2 DEF PowerOnHost, HostBecomes
  <2>3. QED
    BY <1>2, <2>1, <2>2 DEF PowerOnHost, Copies, Asked, Confirmed, Release, Proof
<1>3. CASE PatchHostStatus
  <2>1. /\ host'.backend = host.backend /\ host'.claimed = host.claimed
        /\ host'.confirmation = host.confirmation
    BY <1>3 DEF PatchHostStatus, TartHost
  <2>2. QED
    BY <1>3, <2>1 DEF PatchHostStatus, Copies, Asked, Power, Confirmed, Release, Proof
<1>4. QED
  BY <1>1, <1>2, <1>3 DEF DiscoveryStep

\* The deletion keeps it: it acts only on a request it has recorded, and
\* releases only after an observation.
LEMMA DeletionInv ==
  ASSUME IInv, TypeOK', DeletionStep \/ RequestFails \/ DeletionCallFails
  PROVE  IInv'
<1> USE DEF IInv, TypeOK, apiVars, timeVars, history, counters
<1>1. CASE BeginDeletion
  <2>1. PICK s \in Steps, c \in Conditions :
          /\ work' = DeletionWork(s, c)
          /\ s \notin Stopped
          /\ s = "report" /\ c \in Requested => machineCache.ready \in Requested
          /\ s = "observe" => machineCache.ready \in Requested
          /\ s = "finalizer" => ~hostCache.claimed
    BY <1>1 DEF BeginDeletion, HasShutdownRequest, Steps, Stopped,
                Conditions, Unconfirmed, Requested
  <2>2. /\ work' # Idle /\ work'.step = s /\ work'.why = c
        /\ work'.host = hostCache /\ work'.machine = machineCache
    BY <2>1 DEF DeletionWork, Steps, Idle
  <2>3. Copies' /\ Confirmed' /\ Power'
    BY <1>1, <2>2 DEF BeginDeletion, Copies, Confirmed, Power
  <2>4. Asked'
    BY <1>1, <2>1, <2>2 DEF BeginDeletion, Asked, Stopped
  <2>5. Release'
    BY <1>1, <2>1, <2>2 DEF BeginDeletion, Release, Proof, Copies
  <2>6. QED
    BY <2>3, <2>4, <2>5
<1>2. CASE RequestHostShutdown
  <2>1. work \in Work /\ work # Idle /\ work.step = "request"
    BY <1>2 DEF RequestHostShutdown, Idle
  <2>2. CASE /\ physical.api # "down" /\ physical' = [physical EXCEPT !.stopping = TRUE]
             /\ Report("Requested") /\ request' = "new"
    <3>1. /\ work' # Idle /\ work'.step = "report"
          /\ work'.host = work.host /\ work'.machine = work.machine
      BY <2>1, <2>2, Reports
    <3>2. physical.on /\ physical'.on /\ wasOff' = wasOff
      <4>1. physical.on
        BY <2>2 DEF Power
      <4>2. physical'.on = physical.on /\ physical'.api = physical.api
        BY <2>2 DEF Physical
      <4>3. wasOff' = wasOff
        BY <1>2 DEF RequestHostShutdown
      <4>4. QED
        BY <4>1, <4>2, <4>3
    <3>3. Copies' /\ Confirmed'
      BY <1>2, <2>1, <3>1 DEF RequestHostShutdown, Copies, Confirmed
    <3>4. Asked' /\ Power'
      BY <2>2, <3>2 DEF Asked, Power
    <3>5. Release'
      BY <1>2, <2>2, <3>1, <3>2 DEF RequestHostShutdown, Release, Proof, Stopped
    <3>6. QED
      BY <3>3, <3>4, <3>5
  <2>3. CASE /\ \E c \in {"NotReachable", "ShutdownFailed"} : Report(c)
             /\ UNCHANGED <<physical, request>>
    BY <1>2, <2>1, <2>3, ReportInv DEF RequestHostShutdown, Requested
  <2>4. QED
    BY <1>2, <2>2, <2>3 DEF RequestHostShutdown
<1>3. CASE RequestFails
  <2>1. work \in Work /\ work # Idle
    BY <1>3 DEF RequestFails, Idle
  <2>2. PICK c \in {"NotReachable", "ShutdownFailed"} : Report(c)
    BY <1>3 DEF RequestFails
  <2>3. /\ work' # Idle /\ work'.step = "report" /\ work'.why = c
        /\ work'.host = work.host /\ work'.machine = work.machine
    BY <2>1, <2>2, Reports
  <2>4. physical'.on = physical.on /\ physical'.api = physical.api
    BY <1>3 DEF RequestFails, Physical
  <2>5. Copies' /\ Confirmed' /\ Power'
    BY <1>3, <2>1, <2>3, <2>4 DEF RequestFails, Copies, Confirmed, Power
  <2>6. Asked'
    BY <1>3, <2>1, <2>3 DEF RequestFails, Asked, Requested, Stopped
  <2>7. Release'
    BY <1>3, <2>3 DEF RequestFails, Release, Proof, Stopped
  <2>8. QED
    BY <2>5, <2>6, <2>7
<1>4. CASE ObserveHostStopped
  <2>1. work \in Work /\ work # Idle /\ work.step = "observe" /\ request # "none"
    BY <1>4 DEF ObserveHostStopped, Idle, Asked
  <2>2. CASE SeenStopped
    <3>1. work' = [work EXCEPT !.step = "provenance"]
      BY <1>4, <2>2 DEF ObserveHostStopped
    <3>2. /\ work' # Idle /\ work'.step = "provenance"
          /\ work'.host = work.host /\ work'.machine = work.machine
      BY <2>1, <3>1, MovesOn DEF Steps
    <3>3. Copies' /\ Confirmed' /\ Power' /\ Asked'
      BY <1>4, <2>1, <3>2 DEF ObserveHostStopped, Copies, Confirmed, Power, Asked
    <3>4. Proof(host.backend)
      <4>1. work.host.backend = host.backend
        BY <2>1 DEF Copies
      <4>2. CASE hasIndependentPowerControl(host.backend)
        BY <2>1, <2>2, <4>1, <4>2 DEF SeenStopped, Power, Proof,
             hasIndependentPowerControl, isShutdownConfirmationRequired
      <4>3. CASE ~hasIndependentPowerControl(host.backend)
        BY <2>1, <2>2, <4>1, <4>3 DEF SeenStopped, shutdownConfirmed, Confirmed, Proof
      <4>4. QED
        BY <4>2, <4>3
    <3>5. Release'
      BY <1>4, <3>2, <3>4 DEF ObserveHostStopped, Release, Proof
    <3>6. QED
      BY <3>3, <3>5
  <2>3. CASE ~SeenStopped
    BY <1>4, <2>1, <2>3, ReportInv DEF ObserveHostStopped
  <2>4. QED
    BY <2>2, <2>3
<1>5. CASE ResolveProvenance
  <2>1. work \in Work /\ work # Idle /\ work.step = "provenance"
    BY <1>5 DEF ResolveProvenance, Idle
  <2>2. /\ work' # Idle /\ work'.step = "retain"
        /\ work'.host = work.host /\ work'.machine = work.machine
    BY <1>5, <2>1, MovesOn DEF ResolveProvenance, Steps
  <2>3. QED
    BY <1>5, <2>1, <2>2 DEF ResolveProvenance, Copies, Asked, Power, Confirmed,
                            Release, Proof, Stopped
<1>6. CASE RetainHost
  <2>1. /\ work \in Work /\ work # Idle /\ work.step = "retain"
        /\ Proof(host.backend) /\ request # "none"
    BY <1>6 DEF RetainHost, Idle, Release, Asked, Stopped
  <2>2. /\ host'.backend = host.backend /\ host'.confirmation = host.confirmation
        /\ ~host.claimed => ~host'.claimed
    BY <1>6 DEF RetainHost, TartHost
  <2>3. CASE work' = [work EXCEPT !.step = "finalizer"] /\ ~host'.claimed
    <3>1. /\ work' # Idle /\ work'.step = "finalizer"
          /\ work'.host = work.host /\ work'.machine = work.machine
      BY <2>1, <2>3, MovesOn DEF Steps
    <3>2. Copies' /\ Confirmed' /\ Power' /\ Asked'
      BY <1>6, <2>1, <2>2, <2>3, <3>1
        DEF RetainHost, Copies, Confirmed, Power, Asked, Stopped
    <3>3. Release'
      BY <1>6, <2>1, <2>2, <2>3, <3>1 DEF RetainHost, Release, Proof, Stopped
    <3>4. QED
      BY <3>2, <3>3
  <2>4. CASE Report("RetainFailed") /\ UNCHANGED host
    BY <1>6, <2>1, <2>4, ReportInv DEF RetainHost
  <2>5. CASE /\ work' = [work EXCEPT !.step = "refresh", !.attempt = @ + 1]
             /\ UNCHANGED host
    <3>1. /\ work' # Idle /\ work'.step = "refresh"
          /\ work'.host = work.host /\ work'.machine = work.machine
      BY <2>1, <2>5 DEF Work, Idle
    <3>2. Copies' /\ Confirmed' /\ Power' /\ Asked'
      BY <1>6, <2>1, <2>5, <3>1
        DEF RetainHost, Copies, Confirmed, Power, Asked, Stopped
    <3>3. Release'
      BY <1>6, <2>1, <2>5, <3>1 DEF RetainHost, Release, Proof, Stopped
    <3>4. QED
      BY <3>2, <3>3
  <2>6. QED
    <3>1. work.host.claimed /\ work.host = host => ~host'.claimed
             \/ work.host # host
      BY <1>6 DEF RetainHost, TartHost
    <3>2. ~work.host.claimed => ~host.claimed
      BY <2>1 DEF Copies
    <3>3. QED
      BY <1>6, <2>2, <2>3, <2>4, <2>5, <3>1, <3>2 DEF RetainHost
<1>7. CASE RefreshRetain
  <2>1. work \in Work /\ work # Idle /\ work.step = "refresh"
    BY <1>7 DEF RefreshRetain, Idle
  <2>2. /\ work' # Idle /\ work'.step = "retain"
        /\ work'.host = hostCache /\ work'.machine = work.machine
    BY <1>7, <2>1 DEF RefreshRetain, Work, Idle
  <2>3. QED
    BY <1>7, <2>1, <2>2 DEF RefreshRetain, Copies, Asked, Power, Confirmed,
                            Release, Proof, Stopped
<1>8. CASE DeletionCallFails
  <2>1. work \in Work /\ request # "none"
    BY <1>8 DEF DeletionCallFails, Idle, Asked, Stopped
  <2>2. PICK c : Report(c)
    BY <1>8 DEF DeletionCallFails
  <2>3. QED
    BY <1>8, <2>1, <2>2, ReportInv DEF DeletionCallFails
<1>9. CASE ReportCondition
  <2>1. work \in Work /\ work # Idle /\ work.step = "report" /\ work' = Idle
    BY <1>9 DEF ReportCondition, Idle
  <2>2. /\ machine'.phase = machine.phase
        /\ machine'.ready \in {machine.ready, work.why}
    BY <1>9 DEF ReportCondition, TartMachine
  <2>3. Asked'
    BY <1>9, <2>1, <2>2 DEF ReportCondition, Asked
  <2>4. Copies' /\ Confirmed' /\ Power'
    BY <1>9, <2>1 DEF ReportCondition, Copies, Confirmed, Power
  <2>5. Release'
    BY <1>9, <2>1, <2>2 DEF ReportCondition, Release, Proof, Stopped, Idle
  <2>6. QED
    BY <2>3, <2>4, <2>5
<1>10. CASE RemoveFinalizer
  <2>1. /\ work # Idle /\ work.step = "finalizer" /\ work' = Idle
        /\ machine'.ready = machine.ready /\ ~host.claimed
    BY <1>10 DEF RemoveFinalizer, Idle, TartMachine, Release
  <2>2. QED
    BY <1>10, <2>1 DEF RemoveFinalizer, Idle, Copies, Asked, Power, Confirmed,
                       Release, Proof, Stopped
<1>11. QED
  BY <1>1, <1>2, <1>3, <1>4, <1>5, <1>6, <1>7, <1>8, <1>9, <1>10 DEF DeletionStep

\* Every step keeps the invariant.
LEMMA InvStep == IInv /\ [Next]_vars => IInv'
<1> SUFFICES ASSUME IInv, [Next]_vars PROVE IInv'
  OBVIOUS
<1>0. TypeOK'
  BY TypeStep DEF IInv
<1>1. CASE UNCHANGED vars
  BY <1>0, <1>1 DEF vars, apiVars, timeVars, history, counters, IInv, Copies, Asked,
                    Power, Confirmed, Release, Proof
<1>2. CASE Next
  BY <1>0, <1>2, EnvironmentInv, DiscoveryInv, DeletionInv DEF Next
<1>3. QED
  BY <1>1, <1>2

\* The invariant holds of every behaviour.
LEMMA InvHolds == Spec => []IInv
<1>1. Init => IInv
  <2> SUFFICES ASSUME Init PROVE IInv
    OBVIOUS
  <2>1. Copies /\ Confirmed
    BY DEF Init, Copies, Confirmed
  <2>2. Asked
    BY DEF Init, Asked, Requested
  <2>3. Power
    BY DEF Init, Power
  <2>4. Release
    BY DEF Init, Release, Idle, Stopped
  <2>5. QED
    BY InitType, <2>1, <2>2, <2>3, <2>4 DEF IInv
<1>2. QED
  BY <1>1, InvStep, PTL DEF Spec

\* A host whose power state can be read is released only after it was off
\* since its shutdown was requested: neither a boot by discovery, nor a lost
\* answer, a stale copy or a crash makes the deletion skip that.
THEOREM ReleaseAfterStop == Spec => []ReleasedOnlyAfterStop
<1>1. IInv => ReleasedOnlyAfterStop
  BY DEF IInv, Release, Proof, ReleasedOnlyAfterStop
<1>2. QED
  BY <1>1, InvHolds, PTL

\* A host whose backend cannot see the power state is released only after a
\* request and an operator's confirmation.
THEOREM ReleaseNeedsConfirmation == Spec => []SilenceIsNoProof
<1>1. IInv => SilenceIsNoProof
  BY DEF IInv, Release, Proof, SilenceIsNoProof
<1>2. QED
  BY <1>1, InvHolds, PTL

\* The machine's finalizer is removed only after its claim has become a
\* retention record.
THEOREM GoneAfterRelease == Spec => []GoneOnlyAfterRelease
<1>1. IInv => GoneOnlyAfterRelease
  BY DEF IInv, Release, GoneOnlyAfterRelease
<1>2. QED
  BY <1>1, InvHolds, PTL

-----------------------------------------------------------------------------
(* The power-on budget.                                                    *)

\* Only discovery writes the count of the attempts.  The count it is about to
\* write covers every request it has sent, and runs ahead of the stored one by
\* the request that a crash would make it forget.
Budget ==
  /\ discovery = Idle => sent <= host.attempts + faults
  /\ discovery # Idle =>
       /\ discovery.host.attempts = host.attempts
       /\ discovery.new.attempts <= host.attempts + 1
       /\ discovery.step = "powerOn" =>
            /\ discovery.new.attempts = host.attempts + 1
            /\ sent <= host.attempts + faults
       /\ discovery.step # "powerOn" => sent <= discovery.new.attempts + faults

\* The numbers of the budget are natural numbers.
LEMMA BudgetNumbers ==
  ASSUME TypeOK
  PROVE  /\ host.attempts \in Nat /\ host.attempts <= maxPowerOnAttempts
         /\ sent \in Nat /\ faults \in Nat
         /\ discovery # Idle =>
              /\ discovery \in Discovery
              /\ discovery.new \in TartHost
              /\ discovery.host.attempts \in Nat
              /\ discovery.new.attempts \in Nat
              /\ discovery.new.attempts <= maxPowerOnAttempts
<1> USE BoundsAssumption
<1>1. \A h \in TartHost : h.attempts \in Nat /\ h.attempts <= maxPowerOnAttempts
  BY DEF TartHost
<1>2. discovery # Idle => discovery \in Discovery
  BY DEF TypeOK
<1>3. discovery \in Discovery => discovery.host \in TartHost /\ discovery.new \in TartHost
  BY DiscoveryEdits
<1>4. QED
  BY <1>1, <1>2, <1>3 DEF TypeOK

\* The steps that leave discovery and the count alone.
LEMMA BudgetKept ==
  ASSUME TypeOK, TypeOK', Budget,
         UNCHANGED <<discovery, sent>>, host'.attempts = host.attempts,
         faults' = faults \/ faults' = faults + 1
  PROVE  Budget'
BY BudgetNumbers DEF Budget

\* The edits of a host that other steps make leave its count alone.
LEMMA CountKept ==
  ASSUME NEW h \in TartHost
  PROVE  /\ [h EXCEPT !.claimed = FALSE, !.generation = @ + 1].attempts = h.attempts
         /\ [h EXCEPT !.confirmation = h.bootID, !.generation = @ + 1].attempts = h.attempts
         /\ Unready(h).attempts = h.attempts
         /\ [h EXCEPT !.attempts = @ + 1].attempts = h.attempts + 1
BY DEF TartHost, Unready

\* The deletion and the environment do not touch the budget; a crash forgets
\* at most one request and is itself a fault.
LEMMA OthersBudget ==
  ASSUME TypeOK, TypeOK', Budget,
         \/ DeliverMachine \/ DeliverHost \/ DeleteMachine \/ CAPIDrains
         \/ IntervalPasses \/ TalosComesUp \/ HostStops \/ Outage
         \/ OperatorConfirms \/ Crash
         \/ DeletionStep \/ RequestFails \/ DeletionCallFails
  PROVE  Budget'
<1> USE DEF apiVars, timeVars, history, counters
<1>0. host \in TartHost
  BY DEF TypeOK
<1>1. CASE Crash
  <2>1. faults' = faults + 1 /\ discovery' = Idle /\ UNCHANGED <<host, sent>>
    BY <1>1 DEF Crash, Fault
  <2>2. QED
    BY <2>1, BudgetNumbers DEF Budget
<1>2. CASE \/ DeliverMachine \/ DeliverHost \/ DeleteMachine \/ CAPIDrains
           \/ IntervalPasses \/ TalosComesUp \/ HostStops \/ Outage \/ OperatorConfirms
  <2>1. UNCHANGED <<discovery, sent>>
    BY <1>2 DEF DeliverMachine, DeliverHost, DeleteMachine, CAPIDrains, IntervalPasses,
                TalosComesUp, HostStops, Outage, OperatorConfirms
  <2>2. host'.attempts = host.attempts
    BY <1>0, <1>2, CountKept
       DEF DeliverMachine, DeliverHost, DeleteMachine, CAPIDrains, IntervalPasses,
           TalosComesUp, HostStops, Outage, OperatorConfirms
  <2>3. faults' = faults \/ faults' = faults + 1
    BY <1>2 DEF DeliverMachine, DeliverHost, DeleteMachine, CAPIDrains, IntervalPasses,
                TalosComesUp, HostStops, Outage, OperatorConfirms, Fault
  <2>4. QED
    BY <2>1, <2>2, <2>3, BudgetKept
<1>3. CASE DeletionStep \/ RequestFails \/ DeletionCallFails
  <2> USE DEF DeletionStep, BeginDeletion, RequestHostShutdown, ObserveHostStopped,
              ResolveProvenance, RetainHost, RefreshRetain, ReportCondition,
              RemoveFinalizer, RequestFails, DeletionCallFails
  <2>1. UNCHANGED <<discovery, sent>>
    BY <1>3
  <2>2. host'.attempts = host.attempts
    BY <1>0, <1>3, CountKept
  <2>3. faults' = faults \/ faults' = faults + 1
    BY <1>3 DEF Fault
  <2>4. QED
    BY <2>1, <2>2, <2>3, BudgetKept
<1>4. QED
  BY <1>1, <1>2, <1>3

\* Discovery counts a request before it sends it, on the count as stored.
LEMMA DiscoveryBudget ==
  ASSUME RequeueOutlastsLag, TypeOK, TypeOK', Budget, DiscoveryStep \/ PowerOnFails
  PROVE  Budget'
<1> USE DEF apiVars, timeVars, history, counters
<1>0. host \in TartHost /\ hostCache \in TartHost
  BY DEF TypeOK
<1>1. CASE BeginDiscovery
  <2>1. /\ discovery = Idle /\ hostCache = host
        /\ UNCHANGED <<host, sent, faults>>
    BY <1>1 DEF BeginDiscovery
  <2>2. /\ discovery' # Idle
        /\ discovery'.host = host
        /\ \/ discovery'.step # "powerOn" /\ discovery'.new \in {host, Unready(host)}
           \/ /\ discovery'.step = "powerOn"
              /\ discovery'.new = [host EXCEPT !.attempts = @ + 1]
    BY <1>1, <2>1 DEF BeginDiscovery, Idle
  <2>3. \/ discovery'.step # "powerOn" /\ discovery'.new.attempts = host.attempts
        \/ discovery'.step = "powerOn" /\ discovery'.new.attempts = host.attempts + 1
    BY <1>0, <2>2, CountKept
  <2>4. QED
    BY <2>1, <2>2, <2>3, BudgetNumbers DEF Budget
<1>2. CASE PowerOnHost \/ PowerOnFails
  <2>1. /\ discovery # Idle /\ discovery.step = "powerOn"
        /\ UNCHANGED host
        /\ faults' = faults \/ faults' = faults + 1
        /\ sent' = sent \/ sent' = sent + 1
    BY <1>2 DEF PowerOnHost, PowerOnFails, CountSent, Fault, Idle
  <2>2. discovery \in Discovery /\ discovery.new \in TartHost
    BY <2>1, BudgetNumbers
  <2>3. /\ discovery' # Idle
        /\ discovery'.step # "powerOn" /\ discovery'.host = discovery.host
        /\ discovery'.new \in {discovery.new, Unready(discovery.new)}
    BY <1>2, <2>2 DEF PowerOnHost, PowerOnFails, Discovery, Idle
  <2>4. discovery'.new.attempts = discovery.new.attempts
    BY <2>2, <2>3, CountKept
  <2>5. QED
    BY <2>1, <2>3, <2>4, BudgetNumbers DEF Budget
<1>3. CASE ObserveHost
  <2>1. /\ discovery # Idle /\ discovery.step = "observe"
        /\ UNCHANGED <<host, faults>>
    BY <1>3 DEF ObserveHost, Idle
  <2>2. discovery \in Discovery /\ discovery.new \in TartHost
    BY <2>1, BudgetNumbers
  <2>3. /\ discovery' # Idle
        /\ discovery'.step = "patch" /\ discovery'.host = discovery.host
    BY <1>3, <2>2 DEF ObserveHost, Discovery, Idle
  <2>4. \/ sent' = 0 /\ discovery'.new.attempts = 0
        \/ sent' = sent /\ discovery'.new = Unready(discovery.new)
    BY <1>3, <2>2 DEF ObserveHost, Discovery, TartHost
  <2>5. Unready(discovery.new).attempts = discovery.new.attempts
    BY <2>2, CountKept
  <2>6. QED
    BY <2>1, <2>3, <2>4, <2>5, BudgetNumbers DEF Budget
<1>4. CASE PatchHostStatus
  <2>1. /\ discovery # Idle /\ discovery.step = "patch"
        /\ discovery' = Idle
        /\ UNCHANGED <<sent, faults>>
    BY <1>4 DEF PatchHostStatus, Idle
  <2>2. host'.attempts = IF discovery.new.attempts # discovery.host.attempts
                         THEN discovery.new.attempts ELSE host.attempts
    BY <1>0, <1>4 DEF PatchHostStatus, TartHost
  <2>3. host'.attempts = discovery.new.attempts
    BY <2>1, <2>2 DEF Budget
  <2>4. QED
    BY <2>1, <2>3, BudgetNumbers DEF Budget
<1>5. QED
  BY <1>1, <1>2, <1>3, <1>4 DEF DiscoveryStep

\* When the requeue after a pass outlasts the cache's lag, so that every pass
\* starts from the count the last one stored, discovery sends no more power-on
\* requests between two contacts with Talos than its budget, but for one per
\* crash that lost a count.  Without that it may count the same request twice.
THEOREM PowerOnWithinBudget ==
  ASSUME RequeueOutlastsLag
  PROVE  Spec => []PowerOnBudget
<1>1. Init => TypeOK /\ Budget
  <2> SUFFICES ASSUME Init PROVE Budget
    BY InitType
  <2>1. sent = host.attempts /\ faults = 0 /\ discovery = Idle
    BY DEF Init
  <2>2. QED
    BY <2>1, InitType, BudgetNumbers DEF Budget
<1>2. TypeOK /\ Budget /\ [Next]_vars => (TypeOK /\ Budget)'
  <2> SUFFICES ASSUME TypeOK, Budget, [Next]_vars PROVE Budget'
    BY TypeStep
  <2>1. TypeOK'
    BY TypeStep
  <2>2. CASE UNCHANGED vars
    BY <2>2 DEF vars, apiVars, history, counters, Budget
  <2>3. CASE Next
    BY <2>1, <2>3, OthersBudget, DiscoveryBudget DEF Next
  <2>4. QED
    BY <2>2, <2>3
<1>3. TypeOK /\ Budget => PowerOnBudget
  BY BudgetNumbers, BoundsAssumption DEF Budget, PowerOnBudget
<1>4. QED
  BY <1>1, <1>2, <1>3, PTL DEF Spec

=============================================================================
