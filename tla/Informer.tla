------------------------------ MODULE Informer ------------------------------
(***************************************************************************)
(* One watched kind of Kubernetes object, as a controller-runtime client   *)
(* of this repository sees it.  Reads (Get, List) are served from the      *)
(* informer cache; writes go to the API server; the watch delivers the     *)
(* writes to the cache later and in order.  resourceVersion is modelled    *)
(* by what it is used for: an object's version is fresh when no write to   *)
(* that object is still on its way to the cache.                           *)
(***************************************************************************)
EXTENDS Naturals, Sequences

CONSTANT MaxLag      \* bound: watch events that may be on their way

VARIABLES
  stored,            \* the objects in the API server, by key
  cache,             \* the objects in the informer cache, by key
  events             \* the watch events not yet delivered, oldest first

\* The version of k in the cache is the one the API server holds now.
Fresh(k) == \A i \in 1..Len(events) : events[i].key # k

\* A write accepted by the API server.
Write(k, obj) ==
  /\ Len(events) < MaxLag
  /\ stored' = [stored EXCEPT ![k] = obj]
  /\ events' = Append(events, [key |-> k, object |-> obj])
  /\ cache' = cache

\* The watch delivers its oldest event.
Deliver ==
  /\ events # <<>>
  /\ cache' = [cache EXCEPT ![Head(events).key] = Head(events).object]
  /\ events' = Tail(events)
  /\ stored' = stored

\* The event list and the two views agree: the last event of a key carries
\* the stored object, and a key without events is cached as it is stored.
Agree ==
  /\ \A i \in 1..Len(events) :
       (\A j \in (i + 1)..Len(events) : events[j].key # events[i].key)
         => events[i].object = stored[events[i].key]
  /\ \A k \in DOMAIN stored : Fresh(k) => cache[k] = stored[k]
=============================================================================
