----------------------------- MODULE HostBinding -----------------------------
(***************************************************************************)
(* What allocation promises about a host, without caches, versions,        *)
(* retries or crashes: it has at most one owner; a new owner comes only to *)
(* a host without one, and to a host somebody owned before only after the  *)
(* reuse after that very machine was approved; an owner that leaves is     *)
(* remembered.                                                             *)
(***************************************************************************)
CONSTANTS Hosts, Machines, None

VARIABLE binding

Unregistered == [registered |-> FALSE, owner |-> None, last |-> None, approved |-> None]

Registered == [registered |-> TRUE, owner |-> None, last |-> None, approved |-> None]

Init == binding = [h \in Hosts |-> Unregistered]

Set(h, b) == binding' = [binding EXCEPT ![h] = b]

Register(h) == ~binding[h].registered /\ Set(h, Registered)

Forget(h) == binding[h].registered /\ Set(h, Unregistered)

Approve(h, m) ==
  /\ m \in {binding[h].owner, binding[h].last}
  /\ Set(h, [binding[h] EXCEPT !.approved = m])

Claim(h, m) ==
  /\ binding[h].registered
  /\ binding[h].owner = None
  /\ binding[h].last # None => binding[h].approved = binding[h].last
  /\ Set(h, [binding[h] EXCEPT !.owner = m])

Release(h) ==
  /\ binding[h].owner # None
  /\ Set(h, [binding[h] EXCEPT !.owner = None, !.last = binding[h].owner])

Next ==
  \E h \in Hosts :
    \/ Register(h) \/ Forget(h) \/ Release(h)
    \/ \E m \in Machines : Approve(h, m) \/ Claim(h, m)

Spec == Init /\ [][Next]_binding
=============================================================================
