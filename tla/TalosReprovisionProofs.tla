----------------------- MODULE TalosReprovisionProofs -----------------------
(***************************************************************************)
(* Type correctness of TalosReprovision; that only a verified box is reset; *)
(* and that the host's binding is never lost or replaced behind the back   *)
(* of an installation: for any clusters, generations, machines and faults. *)
(***************************************************************************)
EXTENDS TalosReprovision, TLAPS

\* A reconcile in flight, and what runs on the host.
Passes ==
  [step: Steps, selected: TartHost, new: Identities \union {NoIdentity},
   configuration: Generations, box: {"none", "host", "other"}]
Physicals ==
  [up: BOOLEAN, installation: Installations \union {NoInstallation},
   accepted: Installations \union {NoInstallation}]

\* A reconcile is in flight only for a machine that holds the host.
Attended == machine = NoMachine => work = Idle

TypeInv == TypeOK /\ Attended

\* Two copies of the host that differ at most in the binding.
Same(h, g) ==
  /\ h.consumer = g.consumer /\ h.previous = g.previous
  /\ h.approval = g.approval /\ h.mode = g.mode

\* The identity of another cluster than the holder's.
Foreign(i) == i.cluster \notin {"none", machine.cluster}

\* The holder is the consumer.  The cache is behind in the binding only where that
\* is of the holder's own cluster; another cluster's is the one the host was claimed
\* with.  While the holder is resolute, the approval has not changed under its claim.
Tenure ==
  /\ machine = NoMachine =>
       host.consumer = NoUID /\ physical.accepted = NoInstallation
  /\ machine # NoMachine =>
       /\ machine.uid = host.consumer /\ host.consumer = host.previous + 1
       /\ Foreign(host.identity) =>
            hostCache.identity = host.identity /\ host.identity = machine.inherited
       /\ machine.resolute =>
            Same(hostCache, host) /\ (host.previous # NoUID => ReprovisionApproved(host))

\* An unused host has no binding of another cluster.
Unused == host.previous = NoUID => ~Foreign(host.identity)

\* Only an irresolute holder installs under another cluster's binding.
Named == machine.resolute => ~Foreign(host.identity)

\* What the holder's configuration became, or is becoming, is of its cluster, and
\* then the binding is not another cluster's.
Box ==
  /\ physical.installation.madeFor <=
       IF machine = NoMachine THEN host.previous ELSE machine.uid
  /\ physical.accepted # NoInstallation =>
       /\ physical.installation = NoInstallation /\ physical.accepted.madeFor = machine.uid
       /\ physical.accepted.cluster = machine.cluster /\ Named
  /\ (machine # NoMachine /\ physical.installation.madeFor = machine.uid) =>
       physical.installation.cluster = machine.cluster /\ Named

\* What a reconcile has read of another cluster's binding is still the binding, and
\* is passed over only without approval; a resolute holder has read the approval too.
\* A reset is sent once the box was found to be the host.
Pass ==
  work # Idle =>
    /\ work.step = "reset" => work.box = "host"
    /\ machine.resolute => Same(work.selected, host)
    /\ Foreign(host.identity) => work.selected.identity = host.identity
    /\ work.step \in {"dial", "reset", "confirm", "unbind"} =>
         ReprovisionApproved(work.selected) /\ work.selected.identity # NoIdentity
    /\ (work.step \in {"bind", "refer", "talos"} /\ Foreign(work.selected.identity)) =>
         ~ReprovisionApproved(work.selected)
    /\ work.step = "refer" =>
         ~Foreign(work.selected.identity) /\ work.new.cluster = machine.cluster

Safe == Tenure /\ Unused /\ Box /\ Pass

-----------------------------------------------------------------------------
(* Type correctness.                                                       *)

\* TypeOK as its parts.
LEMMA TypeParts ==
  TypeOK <=>
    /\ active \in [Clusters -> Generations]
    /\ machine \in Machines \union {NoMachine}
    /\ host \in TartHost /\ hostCache \in TartHost
    /\ secrets \in [Identities -> {"absent", "young", "old"}]
    /\ physical \in Physicals
    /\ answering \in {"host", "other"} /\ other \in Clusters \union {"none"}
    /\ work \in Passes \union {Idle}
    /\ collecting \in Identities \union {NoIdentity}
    /\ wiped \in 0..1
    /\ faults \in 0..MaxFaults
BY DEF TypeOK, Passes, Physicals

\* A reconcile with a step is one in flight.
LEMMA InFlight ==
  ASSUME work \in Passes \union {Idle}
  PROVE  /\ work # Idle => work \in Passes
         /\ work.step \in Steps => work # Idle
         /\ \A s \in Steps : work.step = s => work # Idle /\ work \in Passes
         /\ work \in Passes => work # Idle /\ work.step \in Steps
BY DEF Passes, Idle, Steps

\* The edits of a reconcile in flight keep its type.
LEMMA PassEdits ==
  ASSUME NEW w \in Passes
  PROVE  /\ \A s \in Steps : [w EXCEPT !.step = s] \in Passes
         /\ [w EXCEPT !.step = "reset", !.box = "host"] \in Passes
         /\ [w EXCEPT !.step = "reset", !.box = "other"] \in Passes
         /\ [w EXCEPT !.step = "bind", !.selected.identity = NoIdentity] \in Passes
         /\ \A i \in Identities : [w EXCEPT !.step = "refer", !.new = i] \in Passes
         /\ [w EXCEPT !.step = "talos", !.selected.identity = w.new, !.new = NoIdentity] \in Passes
BY DEF Passes, Steps, TartHost

\* What a client sees at the endpoint is one of the two boxes.
LEMMA ObservedBox ==
  ASSUME NEW i, NEW o \in Observed(i)
  PROVE  o.mac \in {"host", "other"}
BY DEF Observed

\* The state is typed at the start.
LEMMA InitialType == Init => TypeInv
<1> SUFFICES ASSUME Init PROVE TypeInv
  OBVIOUS
<1> USE ReprovisionAssumption
<1>1. host \in TartHost
  BY DEF Init, TartHost
<1>2. physical \in Physicals
  BY DEF Init, Physicals
<1>3. active \in [Clusters -> Generations]
  BY DEF Init, Generations
<1>4. QED
  BY <1>1, <1>2, <1>3, TypeParts DEF Init, TypeInv, Attended

\* The holder as an edit of the approval leaves it.
LEMMA EditedMachine ==
  ASSUME NEW m \in Machines, NEW n, n = [m EXCEPT !.resolute = FALSE]
  PROVE  /\ n \in Machines /\ n # NoMachine /\ ~n.resolute
         /\ n.uid = m.uid /\ n.cluster = m.cluster /\ n.inherited = m.inherited
<1>1. n \in Machines /\ n.uid = m.uid /\ n.cluster = m.cluster /\ n.inherited = m.inherited
  BY DEF Machines
<1>2. n.resolute = FALSE
  BY DEF Machines
<1>3. QED
  BY <1>1, <1>2, ReprovisionAssumption DEF Machines, NoMachine, UIDs, NoUID

\* Approving and withdrawing are edits of the approval.
LEMMA EditsOfUser ==
  ASSUME host \in TartHost, User
  PROVE  \/ \E uid \in UIDs \union {NoUID}, mode \in {"none", "Adopt", "Reprovision"} :
              EditApproval(uid, mode)
         \/ (\E c \in Clusters : Claim(c)) \/ DeleteMachine \/ RetainHost
<1>1. ASSUME NEW mode \in {"Adopt", "Reprovision"}, Approve(mode)
      PROVE  \E uid \in UIDs \union {NoUID} : EditApproval(uid, mode)
  BY <1>1 DEF Approve, TartHost
<1>2. QED
  BY <1>1 DEF User, Withdraw

\* The steps of the user, the cluster and the host.
LEMMA OutsideType ==
  ASSUME TypeInv, User \/ Environment
  PROVE  TypeInv'
<1> USE ReprovisionAssumption
<1>t. TypeOK /\ Attended
  BY DEF TypeInv
<1>p. /\ machine \in Machines \union {NoMachine} /\ host \in TartHost /\ hostCache \in TartHost
      /\ physical \in Physicals /\ faults \in 0..MaxFaults /\ active \in [Clusters -> Generations]
  BY <1>t, TypeParts
<1>1. ASSUME NEW uid \in UIDs \union {NoUID}, NEW mode \in {"none", "Adopt", "Reprovision"},
             EditApproval(uid, mode)
      PROVE  TypeInv'
  <2>1. host' \in TartHost /\ hostCache' \in TartHost
    BY <1>1, <1>p DEF EditApproval, TartHost
  <2>2. /\ machine' \in Machines \union {NoMachine}
        /\ machine' = NoMachine => machine = NoMachine
    BY <1>1, <1>p, EditedMachine DEF EditApproval
  <2>3. UNCHANGED <<active, secrets, realVars, work, collecting, wiped>>
    BY <1>1 DEF EditApproval
  <2>4. faults' \in 0..MaxFaults
    BY <1>1, <1>p DEF EditApproval
  <2>5. QED
    BY <2>1, <2>2, <2>3, <2>4, <1>t DEF TypeInv, TypeOK, Attended, realVars
<1>2. ASSUME NEW c \in Clusters, Claim(c)
      PROVE  TypeInv'
  <2>1. host.previous + 1 \in UIDs
    BY <1>2, <1>p DEF Claim, TartHost, UIDs, NoUID
  <2>2. host' \in TartHost /\ machine' \in Machines
    BY <2>1, <1>2, <1>p DEF Claim, TartHost, Machines, ReprovisionApproved
  <2>3. work = Idle
    BY <1>2, <1>t DEF Claim, Attended
  <2>4. QED
    BY <2>2, <2>3, <1>2, <1>t DEF Claim, TypeInv, TypeOK, Attended, realVars
<1>3. ASSUME DeleteMachine
      PROVE  TypeInv'
  <2>1. machine' \in Machines /\ machine # NoMachine
    BY <1>3, <1>p DEF DeleteMachine, Machines
  <2>2. machine' # NoMachine
    BY <2>1, <1>3 DEF DeleteMachine, Machines, NoMachine, UIDs, NoUID
  <2>3. QED
    BY <2>1, <2>2, <1>3, <1>t DEF DeleteMachine, TypeInv, TypeOK, Attended, realVars
<1>4. ASSUME RetainHost
      PROVE  TypeInv'
  <2>1. host' \in TartHost /\ hostCache' \in TartHost
    BY <1>4, <1>p DEF RetainHost, TartHost
  <2>2. physical' \in Physicals
    BY <1>4, <1>p DEF RetainHost, PoweredOff, Physicals
  <2>3. QED
    BY <2>1, <2>2, <1>4, <1>t DEF RetainHost, TypeInv, TypeOK, Attended, Physicals
<1>5. ASSUME DeliverHost
      PROVE  TypeInv'
  BY <1>5, <1>t DEF DeliverHost, TypeInv, TypeOK, Attended, realVars
<1>6. ASSUME Render
      PROVE  TypeInv'
  <2>1. machine \in Machines /\ active[machine.cluster] \in Generations
    BY <1>6, <1>p DEF Render, Machines
  <2>2. machine' \in Machines /\ machine' # NoMachine
    BY <2>1, <1>6 DEF Render, Machines, NoMachine, UIDs, NoUID
  <2>3. UNCHANGED <<active, host, hostCache, secrets, realVars, work, collecting, wiped, faults>>
    BY <1>6 DEF Render
  <2>4. QED
    BY <2>2, <2>3, <1>t DEF TypeInv, TypeOK, Attended, realVars
<1>7. ASSUME Boots \/ Installs
      PROVE  TypeInv'
  <2>1. physical' \in Physicals
    <3>1. /\ [physical EXCEPT !.up = TRUE] \in Physicals
          /\ [up |-> FALSE, installation |-> physical.accepted, accepted |-> NoInstallation] \in Physicals
      BY <1>p DEF Physicals
    <3>2. QED
      BY <3>1, <1>7 DEF Boots, Installs
  <2>2. QED
    BY <2>1, <1>7, <1>t DEF Boots, Installs, TypeInv, TypeOK, Attended, Physicals, objectVars
<1>8. ASSUME Outage
      PROVE  TypeInv'
  <2>1. physical' \in Physicals
    BY <1>8, <1>p DEF Outage, PoweredOff, Physicals
  <2>2. faults' \in 0..MaxFaults
    BY <1>8, <1>p DEF Outage
  <2>3. QED
    BY <2>1, <2>2, <1>8, <1>t DEF Outage, TypeInv, TypeOK, Attended, Physicals, objectVars
<1>9. ASSUME AddressReturns
      PROVE  TypeInv'
  BY <1>9, <1>t DEF AddressReturns, TypeInv, TypeOK, Attended, objectVars
<1>10. ASSUME RotateTrust
       PROVE  TypeInv'
  <2> DEFINE i == physical.installation
             n == NextGeneration(active[i.cluster])
  <2>1. i.cluster \in Clusters
    BY <1>10 DEF RotateTrust
  <2>2. n \in Generations /\ i \in Installations
    BY <2>1, <1>10, <1>p DEF RotateTrust, NextGeneration, Generations, Physicals, NoInstallation
  <2>3. [i EXCEPT !.trust = @ \union {n}] \in Installations /\ [i EXCEPT !.trust = {n}] \in Installations
    BY <2>2 DEF Installations
  <2>4. physical' = [physical EXCEPT !.installation = [i EXCEPT !.trust = @ \union {n}]]
        \/ physical' = [physical EXCEPT !.installation = [i EXCEPT !.trust = {n}]]
    BY <1>10, <1>p DEF RotateTrust, Physicals
  <2>5. physical' \in Physicals
    BY <2>3, <2>4, <1>p DEF Physicals
  <2>6. QED
    BY <2>5, <1>10, <1>t DEF RotateTrust, TypeInv, TypeOK, Attended, Physicals, objectVars
<1>11. ASSUME NEW c \in Rotating, Promote(c)
       PROVE  TypeInv'
  <2>1. active' \in [Clusters -> Generations]
    BY <1>11, <1>p DEF Promote, NextGeneration, Generations
  <2>2. QED
    BY <2>1, <1>11, <1>t DEF Promote, TypeInv, TypeOK, Attended, realVars
<1>12. User => \/ \E uid \in UIDs \union {NoUID}, mode \in {"none", "Adopt", "Reprovision"} :
                      EditApproval(uid, mode)
               \/ (\E c \in Clusters : Claim(c)) \/ DeleteMachine \/ RetainHost
  BY <1>p, EditsOfUser
<1>13. QED
  BY <1>1, <1>2, <1>3, <1>4, <1>5, <1>6, <1>7, <1>8, <1>9, <1>10, <1>11, <1>12 DEF Environment

\* The reconcile's calls.
LEMMA ReconcileType ==
  ASSUME TypeInv, reconcileTalos \/ BundleUnavailable \/ ReconcileFails
  PROVE  TypeInv'
<1> USE ReprovisionAssumption
<1>t. TypeOK /\ Attended
  BY DEF TypeInv
<1>p. /\ machine \in Machines \union {NoMachine} /\ host \in TartHost /\ hostCache \in TartHost
      /\ physical \in Physicals /\ faults \in 0..MaxFaults /\ active \in [Clusters -> Generations]
      /\ work \in Passes \union {Idle} /\ secrets \in [Identities -> {"absent", "young", "old"}]
      /\ wiped \in 0..1 /\ other \in Clusters \union {"none"}
  BY <1>t, TypeParts
<1>w. ASSUME NEW s \in Steps, work.step = s
      PROVE  work \in Passes /\ machine \in Machines
  <2>1. work # Idle /\ work \in Passes
    BY <1>w, <1>p, InFlight
  <2>2. QED
    BY <2>1, <1>t, <1>p DEF Attended
<1>1. ASSUME Reconcile
      PROVE  TypeInv'
  <2>1. machine.data \in Generations
    BY <1>1, <1>p DEF Reconcile, Machines
  <2>2. work' \in Passes
    BY <2>1, <1>1, <1>p DEF Reconcile, Passes, Steps
  <2>3. QED
    BY <2>2, <1>1, <1>t DEF Reconcile, TypeInv, TypeOK, Attended, objectVars, realVars, Passes
<1>2. ASSUME reconcileReprovision \/ confirmReprovisionCompleted
      PROVE  TypeInv'
  <2>1. work \in Passes /\ machine \in Machines
    BY <1>2, <1>w DEF reconcileReprovision, confirmReprovisionCompleted, Steps
  <2>2. work' \in Passes \union {Idle}
    <3>1. \A s \in {"bind", "dial", "unbind"} : [work EXCEPT !.step = s] \in Passes
      BY <2>1, PassEdits DEF Steps
    <3>2. work' = Idle \/ \E s \in {"bind", "dial", "unbind"} : work' = [work EXCEPT !.step = s]
      BY <1>2 DEF reconcileReprovision, confirmReprovisionCompleted, Continue, Report
    <3>3. QED
      BY <3>1, <3>2
  <2>3. UNCHANGED <<objectVars, realVars, collecting, wiped, faults>>
    BY <1>2 DEF reconcileReprovision, confirmReprovisionCompleted
  <2>4. machine # NoMachine
    BY <2>1 DEF Machines, NoMachine, UIDs, NoUID
  <2>5. QED
    BY <2>2, <2>3, <2>4, <1>t DEF TypeInv, TypeOK, Attended, objectVars, realVars, Passes
<1>3. ASSUME DialRecovery
      PROVE  TypeInv'
  <2>1. work \in Passes /\ machine \in Machines
    BY <1>3, <1>w DEF DialRecovery, Steps
  <2>2. work' \in Passes \union {Idle}
    <3>1. [work EXCEPT !.step = "confirm"] \in Passes
      BY <2>1, PassEdits DEF Steps
    <3>2. \A b \in {"host", "other"} : [work EXCEPT !.step = "reset", !.box = b] \in Passes
      BY <2>1, PassEdits
    <3>3. \A o \in Observed(work.selected.identity) : o.mac \in {"host", "other"}
      BY ObservedBox
    <3>4. \/ work' = Idle \/ work' = [work EXCEPT !.step = "confirm"]
          \/ \E o \in Observed(work.selected.identity) : work' = [work EXCEPT !.step = "reset", !.box = o.mac]
      BY <1>3, Zenon DEF DialRecovery, Continue, Report
    <3>5. QED
      BY <3>1, <3>2, <3>3, <3>4
  <2>3. UNCHANGED <<objectVars, realVars, collecting, wiped, faults>>
    BY <1>3 DEF DialRecovery
  <2>4. machine # NoMachine
    BY <2>1 DEF Machines, NoMachine, UIDs, NoUID
  <2>5. QED
    BY <2>2, <2>3, <2>4, <1>t DEF TypeInv, TypeOK, Attended, objectVars, realVars, Passes
<1>4. ASSUME Reset
      PROVE  TypeInv'
  <2>1. physical' \in Physicals
    <3>1. [up |-> FALSE, installation |-> NoInstallation, accepted |-> NoInstallation] \in Physicals
      BY DEF Physicals
    <3>2. QED
      BY <3>1, <1>4, <1>p DEF Reset
  <2>2. wiped' \in 0..1 /\ other' \in Clusters \union {"none"}
    BY <1>4, <1>p DEF Reset
  <2>3. work' = Idle /\ UNCHANGED <<objectVars, answering, collecting, faults>>
    BY <1>4 DEF Reset, Report
  <2>4. QED
    BY <2>1, <2>2, <2>3, <1>t DEF TypeInv, TypeOK, Attended, objectVars, Physicals
<1>5. ASSUME Unbind
      PROVE  TypeInv'
  <2>1. work \in Passes /\ machine \in Machines
    BY <1>5, <1>w DEF Unbind, Steps
  <2>2. work' \in Passes
    BY <2>1, <1>5, PassEdits DEF Unbind
  <2>3. host' \in TartHost
    BY <1>5, <1>p DEF Unbind, TartHost
  <2>4. UNCHANGED <<active, machine, hostCache, secrets, realVars, collecting, wiped, faults>>
    BY <1>5 DEF Unbind
  <2>5. machine # NoMachine
    BY <2>1 DEF Machines, NoMachine, UIDs, NoUID
  <2>6. QED
    BY <2>2, <2>3, <2>4, <2>5, <1>t DEF TypeInv, TypeOK, Attended, realVars, Passes
<1>6. ASSUME ensureTalosIdentityBinding
      PROVE  TypeInv'
  <2> DEFINE name == SecretName(machine.cluster, active[machine.cluster])
  <2>1. work \in Passes /\ machine \in Machines
    BY <1>6, <1>w DEF ensureTalosIdentityBinding, Steps
  <2>2. name \in Identities
    BY <2>1, <1>p DEF Machines, SecretName, Identities
  <2>3. work' \in Passes
    <3>1. [work EXCEPT !.step = "refer", !.new = name] \in Passes /\ [work EXCEPT !.step = "talos"] \in Passes
      <4> HIDE DEF name
      <4>1. QED
        BY <2>1, <2>2, PassEdits DEF Steps
    <3>2. QED
      BY <3>1, <1>6 DEF ensureTalosIdentityBinding, Continue
  <2>4. secrets' \in [Identities -> {"absent", "young", "old"}]
    BY <2>2, <1>6, <1>p DEF ensureTalosIdentityBinding
  <2>5. UNCHANGED <<active, machine, host, hostCache, realVars, collecting, wiped, faults>>
    BY <1>6 DEF ensureTalosIdentityBinding
  <2>6. machine # NoMachine
    BY <2>1 DEF Machines, NoMachine, UIDs, NoUID
  <2>7. QED
    BY <2>3, <2>4, <2>5, <2>6, <1>t DEF TypeInv, TypeOK, Attended, realVars, Passes
<1>7. ASSUME BundleUnavailable
      PROVE  TypeInv'
  <2>1. work \in Passes /\ machine \in Machines
    BY <1>7, <1>w DEF BundleUnavailable, Steps
  <2>2. work' \in Passes \union {Idle}
    <3>1. [work EXCEPT !.step = "talos"] \in Passes
      BY <2>1, PassEdits DEF Steps
    <3>2. QED
      BY <3>1, <1>7 DEF BundleUnavailable, Continue, Report
  <2>3. faults' \in 0..MaxFaults
    BY <1>7, <1>p DEF BundleUnavailable
  <2>4. UNCHANGED <<objectVars, realVars, collecting, wiped>>
    BY <1>7 DEF BundleUnavailable
  <2>5. machine # NoMachine
    BY <2>1 DEF Machines, NoMachine, UIDs, NoUID
  <2>6. QED
    BY <2>2, <2>3, <2>4, <2>5, <1>t DEF TypeInv, TypeOK, Attended, objectVars, realVars, Passes
<1>8. ASSUME Refer
      PROVE  TypeInv'
  <2>1. work \in Passes /\ machine \in Machines
    BY <1>8, <1>w DEF Refer, Steps
  <2>2. work' \in Passes
    BY <2>1, <1>8, PassEdits DEF Refer
  <2>3. host' \in TartHost
    BY <2>1, <1>8, <1>p DEF Refer, TartHost, Passes
  <2>4. UNCHANGED <<active, machine, hostCache, secrets, realVars, collecting, wiped, faults>>
    BY <1>8 DEF Refer
  <2>5. machine # NoMachine
    BY <2>1 DEF Machines, NoMachine, UIDs, NoUID
  <2>6. QED
    BY <2>2, <2>3, <2>4, <2>5, <1>t DEF TypeInv, TypeOK, Attended, realVars, Passes
<1>9. ASSUME reconcileAuthenticatedTalos
      PROVE  TypeInv'
  <2>1. machine \in Machines
    BY <1>9, <1>w DEF reconcileAuthenticatedTalos, Steps
  <2>2. machine' \in Machines
    BY <2>1, <1>9 DEF reconcileAuthenticatedTalos, Machines
  <2>3. work' = Idle /\ UNCHANGED <<active, host, hostCache, secrets, realVars, collecting, wiped, faults>>
    BY <1>9 DEF reconcileAuthenticatedTalos, Report
  <2>4. QED
    BY <2>2, <2>3, <1>t DEF TypeInv, TypeOK, Attended, realVars
<1>10. ASSUME reconcileMaintenanceTalos
       PROVE  TypeInv'
  <2>1. work \in Passes /\ machine \in Machines
    BY <1>10, <1>w DEF reconcileMaintenanceTalos, Steps
  <2>2. [cluster |-> machine.cluster, trust |-> {work.configuration}, madeFor |-> machine.uid] \in Installations
    BY <2>1 DEF Installations, Machines, Passes
  <2>3. physical' \in Physicals
    BY <2>2, <1>10, <1>p DEF reconcileMaintenanceTalos, Physicals
  <2>4. work' = Idle /\ UNCHANGED <<objectVars, answering, other, collecting, wiped, faults>>
    BY <1>10 DEF reconcileMaintenanceTalos, Report
  <2>5. QED
    BY <2>3, <2>4, <1>t DEF TypeInv, TypeOK, Attended, objectVars, Physicals
<1>11. ASSUME ReconcileFails
       PROVE  TypeInv'
  <2>1. faults' \in 0..MaxFaults
    BY <1>11, <1>p DEF ReconcileFails
  <2>2. QED
    BY <2>1, <1>11, <1>t DEF ReconcileFails, Report, TypeInv, TypeOK, Attended, objectVars, realVars
<1>12. QED
  BY <1>1, <1>2, <1>3, <1>4, <1>5, <1>6, <1>7, <1>8, <1>9, <1>10, <1>11 DEF reconcileTalos

\* The collector only touches the Secrets.
LEMMA CollectorType ==
  ASSUME TypeInv, Collector
  PROVE  TypeInv'
<1>t. TypeOK /\ Attended
  BY DEF TypeInv
<1>1. /\ secrets' \in [Identities -> {"absent", "young", "old"}]
      /\ collecting' \in Identities \union {NoIdentity}
  BY <1>t DEF Collector, SecretAges, Collect, DeleteSecret, TypeOK, objectVars
<1>2. UNCHANGED <<active, machine, host, hostCache, realVars, work, wiped, faults>>
  BY DEF Collector, SecretAges, Collect, DeleteSecret, objectVars
<1>3. QED
  BY <1>1, <1>2, <1>t DEF TypeInv, TypeOK, Attended, realVars

\* TypeInv is inductive.
LEMMA TypeStep == TypeInv /\ [Next]_vars => TypeInv'
<1> SUFFICES ASSUME TypeInv, [Next]_vars PROVE TypeInv'
  OBVIOUS
<1>1. CASE UNCHANGED vars
  BY <1>1 DEF TypeInv, TypeOK, Attended, vars, objectVars, realVars
<1>2. CASE Next
  BY <1>2, OutsideType, ReconcileType, CollectorType DEF Next
<1>3. QED
  BY <1>1, <1>2

\* TypeOK holds of every behaviour: every object, reconcile and installation keeps
\* its type, whatever the reconcile and its environment do.
THEOREM TypeCorrect == Spec => []TypeOK
<1>1. Spec => []TypeInv
  BY InitialType, TypeStep, PTL DEF Spec
<1>2. TypeInv => TypeOK
  BY DEF TypeInv
<1>3. QED
  BY <1>1, <1>2, PTL

-----------------------------------------------------------------------------
(* The binding.                                                            *)

\* TypeInv as the facts the cases below need.
LEMMA Facts ==
  ASSUME TypeInv
  PROVE  /\ machine \in Machines \union {NoMachine} /\ host \in TartHost /\ hostCache \in TartHost
         /\ physical \in Physicals /\ work \in Passes \union {Idle}
         /\ machine = NoMachine => work = Idle
         /\ active \in [Clusters -> Generations]
BY TypeParts DEF TypeInv, Attended

\* A step that changes nothing the invariant speaks of keeps it.
LEMMA SafeStutter ==
  ASSUME Safe, UNCHANGED <<machine, host, hostCache, physical, work>>
  PROVE  Safe'
BY DEF Safe, Tenure, Unused, Named, Box, Pass, Same, Foreign, ReprovisionApproved

\* The claim of an unused host or of one whose reuse was approved.
LEMMA SafeClaim ==
  ASSUME TypeInv, TypeInv', Safe, NEW c \in Clusters, Claim(c)
  PROVE  Safe'
<1> USE ReprovisionAssumption DEF NoUID
<1>1. work = Idle /\ work' = Idle
  BY Facts DEF Claim
<1>2. Pass'
  BY <1>1 DEF Pass
<1>3. /\ machine' # NoMachine /\ machine'.uid = host.previous + 1 /\ machine'.cluster = c
      /\ machine'.inherited = host.identity
      /\ machine'.resolute = (host.previous = NoUID \/ ReprovisionApproved(host))
  BY Facts DEF Claim, NoMachine, TartHost, UIDs
<1>4. /\ host'.consumer = host.previous + 1 /\ Same([host EXCEPT !.consumer = 0], [host' EXCEPT !.consumer = 0])
      /\ host'.previous = host.previous /\ host'.approval = host.approval /\ host'.mode = host.mode
      /\ host'.identity = host.identity /\ hostCache' = host' /\ physical' = physical
  BY Facts DEF Claim, TartHost, Same, realVars
<1>5. Tenure'
  BY <1>3, <1>4, Facts DEF Tenure, Same, ReprovisionApproved, TartHost, UIDs
<1>6. Unused'
  <2>1. machine = NoMachine
    BY DEF Claim
  <2>2. SUFFICES ASSUME host.previous = NoUID PROVE host.identity.cluster = "none"
    BY <1>4 DEF Unused, Foreign
  <2>3. QED
    BY <2>1, <2>2 DEF Safe, Unused, Foreign, NoMachine
<1>7. Box'
  <2>1. physical.accepted = NoInstallation /\ physical.installation.madeFor <= host.previous
    BY DEF Safe, Tenure, Box, Claim
  <2>2. host.previous \in Nat /\ physical.installation.madeFor \in Nat
    BY Facts DEF TartHost, UIDs, Physicals, Installations, NoInstallation
  <2>3. physical'.installation.madeFor # machine'.uid /\ physical'.installation.madeFor <= machine'.uid
    BY <1>3, <1>4, <2>1, <2>2
  <2>4. QED
    BY <1>3, <1>4, <2>1, <2>3 DEF Box
<1>8. QED
  BY <1>2, <1>5, <1>6, <1>7 DEF Safe

\* The deletion of the machine, and the retention of its host.
LEMMA SafeRetain ==
  ASSUME TypeInv, TypeInv', Safe, RetainHost
  PROVE  Safe'
<1> USE ReprovisionAssumption DEF NoUID
<1>1. work = Idle /\ work' = Idle /\ machine' = NoMachine
  BY DEF RetainHost
<1>2. machine # NoMachine
  BY DEF RetainHost, NoMachine
<1>3. /\ host'.consumer = 0 /\ host'.previous = host.consumer /\ host'.identity = host.identity
  BY Facts DEF RetainHost, TartHost
<1>4. physical'.installation = physical.installation /\ physical'.accepted = NoInstallation
  BY Facts DEF RetainHost, PoweredOff, Physicals
<1>5. host.consumer = host.previous + 1 /\ host.consumer = machine.uid /\ host.consumer # 0
  <2>1. machine.uid # 0
    BY <1>2, Facts DEF Machines, UIDs
  <2>2. QED
    BY <1>2, <2>1 DEF Safe, Tenure
<1>6. Tenure' /\ Pass' /\ Unused'
  BY <1>1, <1>3, <1>4, <1>5 DEF Tenure, Pass, Unused
<1>7. Box'
  BY <1>1, <1>2, <1>3, <1>4, <1>5 DEF Safe, Box
<1>8. QED
  BY <1>6, <1>7 DEF Safe

\* An edit of the approval: the holder, if any, is irresolute from then on.
LEMMA SafeEdit ==
  ASSUME TypeInv, TypeInv', Safe,
         NEW uid \in UIDs \union {NoUID}, NEW mode \in {"none", "Adopt", "Reprovision"},
         EditApproval(uid, mode)
  PROVE  Safe'
<1>1. /\ host'.consumer = host.consumer /\ host'.previous = host.previous
      /\ host'.identity = host.identity /\ hostCache'.identity = hostCache.identity
  BY Facts DEF EditApproval, TartHost
<1>2. work' = work /\ physical' = physical
  BY DEF EditApproval, realVars
<1>3. \/ machine = NoMachine /\ machine' = machine
      \/ /\ machine # NoMachine /\ machine' # NoMachine /\ ~machine'.resolute
         /\ machine'.uid = machine.uid /\ machine'.cluster = machine.cluster
         /\ machine'.inherited = machine.inherited
  BY Facts, EditedMachine DEF EditApproval
<1>4. machine = NoMachine => ~machine'.resolute /\ work = Idle
  BY <1>3, Facts DEF NoMachine
<1>5. Tenure' /\ Unused'
  BY <1>1, <1>2, <1>3 DEF Safe, Tenure, Unused, Foreign
<1>6. Box'
  BY <1>1, <1>2, <1>3, <1>4 DEF Safe, Box, Named
<1>7. Pass'
  BY <1>1, <1>2, <1>3, <1>4 DEF Safe, Pass, Foreign, ReprovisionApproved
<1>8. QED
  BY <1>5, <1>6, <1>7 DEF Safe

\* Rendering, deletion and provisioning change neither the machine's name nor its
\* cluster.
LEMMA SafeMachine ==
  ASSUME Safe, machine # NoMachine, machine' # NoMachine,
         machine'.uid = machine.uid, machine'.cluster = machine.cluster,
         machine'.inherited = machine.inherited, machine'.resolute = machine.resolute,
         UNCHANGED <<host, hostCache, physical>>, work' \in {work, Idle}
  PROVE  Safe'
BY DEF Safe, Tenure, Unused, Named, Box, Pass, Same, Foreign, ReprovisionApproved

\* The cache catches up.
LEMMA SafeDeliver ==
  ASSUME Safe, DeliverHost
  PROVE  Safe'
BY DEF DeliverHost, Safe, Tenure, Unused, Named, Box, Pass, Same, Foreign,
       ReprovisionApproved, realVars

\* What happens to the box itself, with the rest standing still.
LEMMA SafePhysical ==
  ASSUME TypeInv, TypeInv', Safe, Boots \/ Installs \/ Outage \/ AddressReturns \/ RotateTrust
  PROVE  Safe'
<1> USE ReprovisionAssumption DEF NoUID
<1>1. UNCHANGED <<machine, host, hostCache, work>>
  BY DEF Boots, Installs, Outage, AddressReturns, RotateTrust, objectVars
<1>2. \/ /\ physical'.installation = physical.installation
         /\ physical'.accepted \in {physical.accepted, NoInstallation}
      \/ /\ physical.accepted # NoInstallation /\ physical'.installation = physical.accepted
         /\ physical'.accepted = NoInstallation
      \/ /\ physical'.installation.madeFor = physical.installation.madeFor
         /\ physical'.installation.cluster = physical.installation.cluster
         /\ physical.installation # NoInstallation /\ physical'.accepted = physical.accepted
  <2>1. CASE Boots \/ Outage \/ AddressReturns
    BY <2>1, Facts DEF Boots, Outage, AddressReturns, PoweredOff, Physicals
  <2>2. CASE Installs
    BY <2>2 DEF Installs
  <2>3. CASE RotateTrust
    <3>1. physical.installation # NoInstallation
      BY <2>3 DEF RotateTrust, NoInstallation
    <3>2. physical.installation \in Installations
      BY <3>1, Facts DEF Physicals
    <3>3. \E t : physical' = [physical EXCEPT !.installation.trust = t]
      BY <2>3, Facts, <3>2 DEF RotateTrust, Physicals, Installations
    <3>4. QED
      BY <3>1, <3>2, <3>3, Facts DEF Physicals, Installations
  <2>4. QED
    BY <2>1, <2>2, <2>3
<1>3. Tenure' /\ Pass'
  <2>1. physical.accepted = NoInstallation => physical'.accepted = NoInstallation
    BY <1>2
  <2>2. QED
    BY <1>1, <2>1 DEF Safe, Tenure, Pass, Same, Foreign, ReprovisionApproved
<1>5. Unused'
  BY <1>1 DEF Safe, Unused, Foreign
<1>6. Box'
  <2>1. /\ Box /\ (machine = NoMachine => physical.accepted = NoInstallation)
        /\ Named' <=> Named
    BY <1>1 DEF Safe, Tenure, Named, Foreign
  <2>2. CASE /\ physical'.installation = physical.installation
             /\ physical'.accepted \in {physical.accepted, NoInstallation}
    BY <2>1, <2>2, <1>1 DEF Box
  <2>3. CASE /\ physical.accepted # NoInstallation /\ physical'.installation = physical.accepted
             /\ physical'.accepted = NoInstallation
    <3>1. machine.uid <= machine.uid
      BY <2>1, <2>3, Facts DEF Machines, UIDs
    <3>2. QED
      BY <2>1, <2>3, <3>1, <1>1 DEF Box
  <2>4. CASE /\ physical'.installation.madeFor = physical.installation.madeFor
             /\ physical'.installation.cluster = physical.installation.cluster
             /\ physical.installation # NoInstallation /\ physical'.accepted = physical.accepted
    BY <2>1, <2>4, <1>1 DEF Box
  <2>5. QED
    BY <1>2, <2>2, <2>3, <2>4
<1>7. QED
  BY <1>3, <1>5, <1>6 DEF Safe

\* A reconcile starts from the cache.
LEMMA SafeReconcile ==
  ASSUME TypeInv, TypeInv', Safe, Reconcile
  PROVE  Safe'
<1>1. UNCHANGED <<machine, host, hostCache, physical>> /\ machine # NoMachine
  BY DEF Reconcile, objectVars, realVars
<1>2. work'.selected = hostCache /\ work'.step = "reprovision" /\ work'.box = "none"
  BY DEF Reconcile
<1>3. Tenure' /\ Box' /\ Unused'
  BY <1>1 DEF Safe, Tenure, Box, Named, Unused, Same, Foreign, ReprovisionApproved
<1>4. Pass'
  BY <1>1, <1>2 DEF Safe, Tenure, Pass, Same, Foreign
<1>5. QED
  BY <1>3, <1>4 DEF Safe

\* A step that only moves the reconcile on, or ends it.
LEMMA SafeMove ==
  ASSUME TypeInv, Safe, UNCHANGED <<machine, host, hostCache, physical>>,
         work' = Idle \/ (/\ work # Idle /\ work'.selected = work.selected /\ Pass')
  PROVE  Safe'
<1>1. Tenure' /\ Box' /\ Unused'
  BY DEF Safe, Tenure, Box, Named, Unused, Same, Foreign, ReprovisionApproved
<1>2. Pass'
  BY DEF Pass
<1>3. QED
  BY <1>1, <1>2 DEF Safe

\* The decision to reset, the dial, and the wait for maintenance mode.
LEMMA SafeDecide ==
  ASSUME TypeInv, TypeInv', Safe,
         reconcileReprovision \/ DialRecovery \/ confirmReprovisionCompleted
  PROVE  Safe'
<1>1. UNCHANGED <<machine, host, hostCache, physical>>
  BY DEF reconcileReprovision, DialRecovery, confirmReprovisionCompleted, objectVars, realVars
<1>2. work # Idle /\ work \in Passes /\ machine # NoMachine
  BY Facts, InFlight DEF reconcileReprovision, DialRecovery, confirmReprovisionCompleted, Steps
<1>3. Pass /\ \A i : Foreign(i)' <=> Foreign(i)
  BY <1>1 DEF Safe, Foreign
<1>4. CASE work' = Idle
  BY <1>1, <1>4, SafeMove
<1>5. CASE work' = [work EXCEPT !.step = "bind"] /\ reconcileReprovision
  <2>1. work'.selected = work.selected /\ work'.step = "bind" /\ work'.box = work.box
    BY <1>2, <1>5 DEF Passes
  <2>2. ~ReprovisionApproved(work.selected) \/ work.selected.identity = NoIdentity
    <3>1. work'.step # "dial" /\ work'.step # "idle"
      BY <2>1
    <3>2. work' # [work EXCEPT !.step = "dial"] /\ work' # Idle
      BY <3>1, <1>2 DEF Passes, Idle
    <3>3. QED
      BY <3>2, <1>5 DEF reconcileReprovision, Continue, Report
  <2>3. ~Foreign(NoIdentity)
    BY DEF Foreign, NoIdentity
  <2>4. Pass'
    BY <2>1, <2>2, <2>3, <1>1, <1>2, <1>3 DEF Pass, Same, ReprovisionApproved
  <2>5. QED
    BY <1>1, <1>2, <2>1, <2>4, SafeMove
<1>6. CASE work' = [work EXCEPT !.step = "dial"] /\ reconcileReprovision
  <2>1. work'.selected = work.selected /\ work'.step = "dial" /\ work'.box = work.box
    BY <1>2, <1>6 DEF Passes
  <2>2. ReprovisionApproved(work.selected) /\ work.selected.identity # NoIdentity
    <3>1. work'.step # "bind" /\ work'.step # "idle"
      BY <2>1
    <3>2. work' # [work EXCEPT !.step = "bind"] /\ work' # Idle
      BY <3>1, <1>2 DEF Passes, Idle
    <3>3. QED
      BY <3>2, <1>6 DEF reconcileReprovision, Continue, Report
  <2>3. Pass'
    BY <2>1, <2>2, <1>1, <1>2, <1>3 DEF Pass, Same, ReprovisionApproved
  <2>4. QED
    BY <1>1, <1>2, <2>1, <2>3, SafeMove
<1>7. CASE /\ work.step \in {"dial", "confirm"}
           /\ \/ \E s \in {"confirm", "unbind"} : work' = [work EXCEPT !.step = s]
              \/ work' = [work EXCEPT !.step = "reset", !.box = "host"]
  <2>1. /\ work'.selected = work.selected /\ work'.step \in {"confirm", "unbind", "reset"}
        /\ work'.step = "reset" => work'.box = "host"
    BY <1>2, <1>7 DEF Passes
  <2>2. Pass'
    BY <2>1, <1>7, <1>1, <1>2, <1>3 DEF Pass, Same, ReprovisionApproved
  <2>3. QED
    BY <1>1, <1>2, <2>1, <2>2, SafeMove
<1>8. DialRecovery => \/ work' = Idle \/ work' = [work EXCEPT !.step = "confirm"]
                      \/ work' = [work EXCEPT !.step = "reset", !.box = "host"]
  BY DEF DialRecovery, Continue, Report, VerifyResetTarget
<1>9. QED
  BY <1>4, <1>5, <1>6, <1>7, <1>8
    DEF reconcileReprovision, DialRecovery, confirmReprovisionCompleted, Continue, Report

\* The reset empties the box.
LEMMA SafeReset ==
  ASSUME TypeInv, TypeInv', Safe, Reset
  PROVE  Safe'
<1>1. UNCHANGED <<machine, host, hostCache>> /\ work' = Idle
  BY DEF Reset, Report, objectVars
<1>2. work # Idle /\ machine # NoMachine
  BY Facts, InFlight DEF Reset, Steps
<1>4. \/ physical' = physical
      \/ physical'.installation = NoInstallation /\ physical'.accepted = NoInstallation
  BY DEF Reset
<1>5. CASE physical' = physical
  BY <1>1, <1>5, SafeMove
<1>6. CASE physical'.installation = NoInstallation /\ physical'.accepted = NoInstallation
  <2>1. Tenure' /\ Pass' /\ Unused'
    BY <1>1, <1>2, <1>6 DEF Safe, Tenure, Pass, Unused, Same, Foreign, ReprovisionApproved
  <2>2. Box'
    BY <1>1, <1>2, <1>6, Facts, ReprovisionAssumption
      DEF Box, NoInstallation, Machines, UIDs, NoUID
  <2>3. QED
    BY <2>1, <2>2 DEF Safe
<1>7. QED
  BY <1>4, <1>5, <1>6

\* The binding is dropped by the reconcile that found the box empty.
LEMMA SafeUnbind ==
  ASSUME TypeInv, TypeInv', Safe, Unbind
  PROVE  Safe' /\ ReprovisionApproved(work.selected) /\ host'.identity = NoIdentity
<1>1. UNCHANGED <<machine, hostCache, physical>>
  BY DEF Unbind, realVars
<1>2. work # Idle /\ work \in Passes /\ machine # NoMachine
  BY Facts, InFlight DEF Unbind, Steps
<1>3. Same(host', host) /\ host'.identity = NoIdentity
  BY Facts DEF Unbind, TartHost, Same
<1>4. /\ Same(work'.selected, work.selected) /\ work'.selected.identity = NoIdentity
      /\ work'.step = "bind" /\ work'.box = work.box
  BY <1>2 DEF Unbind, Passes, TartHost, Same
<1>5. ~Foreign(NoIdentity) /\ ~Foreign(NoIdentity)'
  BY DEF Foreign, NoIdentity
<1>6. ReprovisionApproved(work.selected)
  BY <1>2 DEF Unbind, Safe, Pass
<1>7. Tenure'
  BY <1>1, <1>2, <1>3, <1>5 DEF Safe, Tenure, Same, ReprovisionApproved
<1>8. Box'
  BY <1>1, <1>2, <1>3, <1>5 DEF Safe, Box, Named
<1>9. Unused'
  BY <1>3, <1>5 DEF Unused
<1>10. Pass'
  BY <1>1, <1>2, <1>3, <1>4, <1>5 DEF Safe, Pass, Same, Foreign
<1>11. QED
  BY <1>3, <1>6, <1>7, <1>8, <1>9, <1>10 DEF Safe

\* The new binding is decided, and kept for another cluster's.
LEMMA SafeBind ==
  ASSUME TypeInv, TypeInv', Safe, ensureTalosIdentityBinding \/ BundleUnavailable
  PROVE  Safe'
<1> DEFINE name == SecretName(machine.cluster, active[machine.cluster])
<1>1. UNCHANGED <<machine, host, hostCache, physical>>
  BY DEF ensureTalosIdentityBinding, BundleUnavailable, objectVars, realVars
<1>2. work # Idle /\ work \in Passes /\ machine # NoMachine /\ work.step = "bind"
  BY Facts, InFlight DEF ensureTalosIdentityBinding, BundleUnavailable, Steps
<1>3. Pass /\ \A i : Foreign(i)' <=> Foreign(i)
  BY <1>1 DEF Safe, Foreign
<1>4. CASE work' = Idle
  BY <1>1, <1>4, SafeMove
<1>5. CASE work' = [work EXCEPT !.step = "talos"]
  <2>1. work'.selected = work.selected /\ work'.step = "talos" /\ work'.box = work.box
    BY <1>2, <1>5 DEF Passes
  <2>2. Pass'
    BY <2>1, <1>1, <1>2, <1>3 DEF Pass, Same, ReprovisionApproved
  <2>3. QED
    BY <1>1, <1>2, <2>1, <2>2, SafeMove
<1>6. CASE /\ work' = [work EXCEPT !.step = "refer", !.new = name]
           /\ shouldRebindTalosIdentity(work.selected.identity, name)
  <2>1. /\ work'.selected = work.selected /\ work'.step = "refer" /\ work'.box = work.box
        /\ work'.new = name /\ name.cluster = machine.cluster
    BY <1>2, <1>6 DEF Passes, SecretName
  <2>2. ~Foreign(work.selected.identity)
    BY <1>6, <2>1 DEF shouldRebindTalosIdentity, Foreign, NoIdentity
  <2>3. Pass'
    <3> HIDE DEF name
    <3>1. QED
      BY <2>1, <2>2, <1>1, <1>2, <1>3 DEF Pass, Same, ReprovisionApproved
  <2>4. QED
    BY <1>1, <1>2, <2>1, <2>3, SafeMove
<1>7. QED
  BY <1>4, <1>5, <1>6 DEF ensureTalosIdentityBinding, BundleUnavailable, Continue, Report

\* The reference is written over none, or over one of the holder's own cluster.
LEMMA SafeRefer ==
  ASSUME TypeInv, TypeInv', Safe, Refer
  PROVE  /\ Safe' /\ host'.identity.cluster = machine.cluster
         /\ host.identity.cluster \in {"none", machine.cluster}
<1>1. UNCHANGED <<machine, hostCache, physical>>
  BY DEF Refer, realVars
<1>2. work # Idle /\ work \in Passes /\ machine # NoMachine
  BY Facts, InFlight DEF Refer, Steps
<1>3. Same(host', host) /\ host'.identity = work.new
  BY Facts DEF Refer, TartHost, Same
<1>4. /\ Same(work'.selected, work.selected) /\ work'.selected.identity = work.new
      /\ work'.step = "talos" /\ work'.box = work.box
  BY <1>2 DEF Refer, Passes, TartHost, Same
<1>5. work.new.cluster = machine.cluster /\ ~Foreign(work.selected.identity)
  BY <1>2 DEF Refer, Safe, Pass
<1>6. ~Foreign(host.identity) /\ host'.identity.cluster = machine.cluster
  BY <1>2, <1>3, <1>5 DEF Safe, Pass
<1>7. Tenure'
  BY <1>1, <1>2, <1>3, <1>6 DEF Safe, Tenure, Same, ReprovisionApproved, Foreign
<1>8. Box'
  BY <1>1, <1>2, <1>3, <1>6 DEF Safe, Box, Named, Foreign, Same
<1>9. Unused'
  BY <1>1, <1>6 DEF Unused, Foreign
<1>10. Pass'
  BY <1>1, <1>2, <1>3, <1>4, <1>5 DEF Safe, Pass, Same, Foreign
<1>11. QED
  BY <1>6, <1>7, <1>8, <1>9, <1>10 DEF Safe, Foreign

\* A resolute holder's configuration is accepted only under a binding that is not
\* another cluster's: that one is passed over without approval, and a resolute holder
\* has one, or an unused host.
LEMMA SafeInstall ==
  ASSUME TypeInv, TypeInv', Safe, reconcileMaintenanceTalos
  PROVE  Safe'
<1> USE ReprovisionAssumption DEF NoUID
<1>1. UNCHANGED <<machine, host, hostCache>> /\ work' = Idle
  BY DEF reconcileMaintenanceTalos, Report, objectVars
<1>2. work # Idle /\ machine # NoMachine /\ work.step = "talos"
  BY Facts, InFlight DEF reconcileMaintenanceTalos, Steps
<1>3. CASE physical' = physical
  BY <1>1, <1>3, SafeMove
<1>4. CASE /\ MaintenanceOfHost
           /\ physical' = [physical EXCEPT !.accepted =
                             [cluster |-> machine.cluster, trust |-> {work.configuration},
                              madeFor |-> machine.uid]]
  <2>1. /\ physical'.installation = NoInstallation /\ physical.installation = NoInstallation
        /\ physical'.accepted.cluster = machine.cluster
        /\ physical'.accepted.madeFor = machine.uid
    BY <1>4, Facts DEF MaintenanceOfHost, Physicals
  <2>2. Named
    <3>1. SUFFICES ASSUME machine.resolute, Foreign(host.identity) PROVE FALSE
      BY DEF Named
    <3>2. work.selected.identity = host.identity /\ Same(work.selected, host)
      BY <3>1, <1>2 DEF Safe, Pass
    <3>3. ~ReprovisionApproved(host)
      BY <3>1, <3>2, <1>2 DEF Safe, Pass, Same, ReprovisionApproved
    <3>4. host.previous = NoUID
      BY <3>1, <3>3, <1>2 DEF Safe, Tenure
    <3>5. QED
      BY <3>1, <3>4 DEF Safe, Unused
  <2>3. Tenure' /\ Pass' /\ Unused' /\ Named'
    BY <1>1, <1>2, <2>2 DEF Safe, Tenure, Pass, Unused, Named, Same, Foreign, ReprovisionApproved
  <2>4. Box'
    BY <1>1, <1>2, <2>1, <2>3, Facts DEF Box, NoInstallation, Machines, UIDs
  <2>5. QED
    BY <2>3, <2>4 DEF Safe
<1>5. QED
  BY <1>3, <1>4 DEF reconcileMaintenanceTalos

\* Safe is inductive relative to TypeInv.
LEMMA SafeStep == TypeInv /\ TypeInv' /\ Safe /\ [Next]_vars => Safe'
<1> SUFFICES ASSUME TypeInv, TypeInv', Safe, [Next]_vars PROVE Safe'
  OBVIOUS
<1>1. CASE UNCHANGED vars \/ Collector \/ \E c \in Rotating : Promote(c)
  <2>1. UNCHANGED <<machine, host, hostCache, physical, work>>
    BY <1>1 DEF vars, objectVars, realVars, Collector, SecretAges, Collect, DeleteSecret, Promote
  <2>2. QED
    BY <2>1, SafeStutter
<1>2. CASE Render \/ DeleteMachine \/ reconcileAuthenticatedTalos
  <2>1. machine # NoMachine
    BY <1>2, Facts, InFlight DEF Render, DeleteMachine, reconcileAuthenticatedTalos, Steps
  <2>2. machine \in Machines
    BY <2>1, Facts
  <2>3. /\ machine'.uid = machine.uid /\ machine'.cluster = machine.cluster
        /\ machine'.inherited = machine.inherited /\ machine'.resolute = machine.resolute
    BY <1>2, <2>2 DEF Render, DeleteMachine, reconcileAuthenticatedTalos, Machines
  <2>4. machine' # NoMachine
    BY <2>2, <2>3 DEF Machines, NoMachine, UIDs, NoUID
  <2>5. UNCHANGED <<host, hostCache, physical>> /\ work' \in {work, Idle}
    BY <1>2 DEF Render, DeleteMachine, reconcileAuthenticatedTalos, Report, realVars
  <2>6. QED
    BY <2>1, <2>3, <2>4, <2>5, SafeMachine
<1>3. CASE ReconcileFails
  <2>1. UNCHANGED <<machine, host, hostCache, physical>> /\ work' = Idle
    BY <1>3 DEF ReconcileFails, Report, objectVars, realVars
  <2>2. QED
    BY <2>1, SafeMove
<1>4. CASE User
  BY <1>2, <1>4, Facts, EditsOfUser, SafeEdit, SafeClaim, SafeRetain
<1>5. CASE Environment
  BY <1>1, <1>2, <1>5, SafeDeliver, SafePhysical DEF Environment
<1>6. CASE reconcileTalos
  BY <1>2, <1>6, SafeReconcile, SafeDecide, SafeReset, SafeUnbind, SafeBind, SafeRefer, SafeInstall
    DEF reconcileTalos
<1>7. QED
  BY <1>1, <1>3, <1>4, <1>5, <1>6, SafeBind DEF Next

\* The host starts unused, empty and unbound.
LEMMA SafeInit == Init => Safe
<1> SUFFICES ASSUME Init PROVE Safe
  OBVIOUS
<1>1. Tenure /\ Pass /\ Unused
  BY DEF Init, Tenure, Pass, Unused, Foreign, NoIdentity, NoMachine, NoUID
<1>2. Box
  BY DEF Init, Box, NoInstallation, NoMachine, NoUID
<1>3. QED
  BY <1>1, <1>2 DEF Safe

\* The invariant behind the theorems below.
LEMMA SafeInvariant == Spec => [](TypeInv /\ Safe)
<1>1. Init => TypeInv /\ Safe
  BY InitialType, SafeInit
<1>2. TypeInv /\ Safe /\ [Next]_vars => TypeInv' /\ Safe'
  BY TypeStep, SafeStep
<1>3. QED
  BY <1>1, <1>2, PTL DEF Spec

\* confirmReprovisionCompleted, reconcileMaintenanceTalos: whatever was bound and
\* installed before, a configuration accepted or installed for the holder is of its
\* cluster.  The host names another cluster's identity for it only if it was adopted
\* or its approval was edited under the claim, and then still the one it had before.
THEOREM InstalledUnderOwnBinding == Spec => []InstalledUnderItsBinding
<1>1. TypeInv /\ Safe => InstalledUnderItsBinding
  <2> SUFFICES ASSUME TypeInv, Safe, machine # NoMachine,
                      NEW i \in {physical.accepted, physical.installation},
                      i.madeFor = machine.uid
               PROVE  /\ i.cluster = machine.cluster
                      /\ \/ host.identity.cluster \in {i.cluster, "none"}
                         \/ ~machine.resolute /\ host.identity = machine.inherited
    BY DEF InstalledUnderItsBinding
  <2>1. i # NoInstallation
    BY Facts DEF Machines, NoInstallation, UIDs, NoUID
  <2>2. i.cluster = machine.cluster /\ Named
    BY <2>1 DEF Safe, Box
  <2>3. Foreign(host.identity) => host.identity = machine.inherited
    BY DEF Safe, Tenure
  <2>4. QED
    BY <2>2, <2>3 DEF Named, Foreign
<1>2. QED
  BY <1>1, SafeInvariant, PTL

\* identity.go, reprovision.go: the binding goes from none to a cluster's, or is
\* dropped where the reprovisioning of the host is approved; no patch of a stale
\* read replaces one cluster's identity by another's.
THEOREM BindingKept == Spec => BindingIsKept
<1> DEFINE Kept == host'.identity.cluster # host.identity.cluster =>
                     \/ host.identity = NoIdentity
                     \/ host'.identity = NoIdentity /\ ReprovisionApproved(work.selected)
<1>1. TypeInv /\ TypeInv' /\ Safe /\ [Next]_vars => [Kept]_vars
  <2> SUFFICES ASSUME TypeInv, TypeInv', Safe, Next PROVE Kept
    OBVIOUS
  <2>1. CASE Unbind
    BY <2>1, SafeUnbind
  <2>2. CASE Refer
    BY <2>2, SafeRefer, Facts, ReprovisionAssumption DEF TartHost, Identities
  <2>3. CASE ~Unbind /\ ~Refer
    <3>1. host'.identity = host.identity
      BY <2>3, Facts DEF Next, reconcileTalos, User, Environment, Collector, Approve, Withdraw, EditApproval, Claim,
        RetainHost, TartHost, Reconcile, reconcileReprovision, DialRecovery, Reset,
        confirmReprovisionCompleted, ensureTalosIdentityBinding, reconcileAuthenticatedTalos,
        reconcileMaintenanceTalos, BundleUnavailable, ReconcileFails, DeleteMachine, DeliverHost,
        Render, Boots, Installs, Outage, AddressReturns, RotateTrust, Promote, SecretAges,
        Collect, DeleteSecret, objectVars
    <3>2. QED
      BY <3>1
  <2>4. QED
    BY <2>1, <2>2, <2>3
<1>2. QED
  BY <1>1, SafeInvariant, TypeStep, PTL DEF Spec, BindingIsKept

\* domain/recovery: another box's installation is destroyed only by a reset whose
\* target was verified to be the host itself, hence if the address moved since.
THEOREM VerifiedReset == Spec => ResetTargetIsVerified
<1> DEFINE Verified == other' # other => work.box = "host"
<1>1. TypeInv /\ Safe /\ [Next]_vars => [Verified]_vars
  <2> SUFFICES ASSUME TypeInv, Safe, Next PROVE Verified
    OBVIOUS
  <2>1. CASE Reset
    <3>1. work # Idle /\ work.step = "reset"
      BY <2>1, Facts, InFlight DEF Reset, Steps
    <3>2. QED
      BY <3>1 DEF Safe, Pass
  <2>2. CASE ~Reset
    BY <2>2 DEF Next, reconcileTalos, User, Environment, Collector, Approve, Withdraw, EditApproval, Claim,
      RetainHost, Reconcile, reconcileReprovision, DialRecovery, Unbind, Refer,
      confirmReprovisionCompleted, ensureTalosIdentityBinding, reconcileAuthenticatedTalos,
      reconcileMaintenanceTalos, BundleUnavailable, ReconcileFails, DeleteMachine, DeliverHost,
      Render, Boots, Installs, Outage, AddressReturns, RotateTrust, Promote, SecretAges,
      Collect, DeleteSecret, realVars
  <2>3. QED
    BY <2>1, <2>2
<1>2. QED
  BY <1>1, SafeInvariant, PTL DEF Spec, ResetTargetIsVerified

=============================================================================
