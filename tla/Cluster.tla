------------------------------- MODULE Cluster -------------------------------
(***************************************************************************)
(* The cluster as the collector sees it: the stores of the informers,      *)
(* external, and the watch handlers that filter and enqueue their events   *)
(* (predicatesWithMetrics with the nodeNameFilter of the pod collector).   *)
(* All the collectors and dispatchers read the same stores.  The stores of *)
(* different kinds are filled by different watches, so nothing orders the  *)
(* appearance of a pod and of its owners.                                  *)
(***************************************************************************)
EXTENDS WorkQueue

CONSTANTS
  Initial,    \* the owners that exist when the collector starts
  Deletable,  \* the names that may be deleted
  MaxInc,     \* bound: incarnations of each name
  MaxVer,     \* bound: the last version of each object
  FaultSites, \* where calls may fail: in a "dispatch", in a "reconcile" or
              \* in a "send"
  MaxFaults   \* bound: the failed calls of a behaviour

ASSUME ClusterAssumption ==
  /\ Initial \subseteq Owners
  /\ Deletable \subseteq Keys
  /\ MaxInc \in [Keys -> Nat]
  /\ MaxVer \in [Keys -> Nat]
  /\ MaxFaults \in Nat

VARIABLES store, born, faults

clusterVars == <<store, born, faults>>

ClusterTypeOK ==
  /\ store \in [Keys -> Object \cup {None}]
  /\ born \in [Keys -> Nat]
  /\ faults \in 0..MaxFaults

Exists(key) == store[key] # None

NewObject(inc, node) == [inc |-> inc, ver |-> 0, node |-> node]

ClusterInit ==
  /\ store = [k \in Keys |-> IF k \in Initial THEN NewObject(1, None) ELSE None]
  /\ born = [k \in Keys |-> IF k \in Initial THEN 1 ELSE 0]
  /\ faults = 0
  /\ dirty = Initial
  /\ triggers = [k \in Keys |-> 0]

\* An event about a pod passes the filter only when the pod has a node.
PassesFilter(key, obj) == key \in Pods => obj.node # None

\* The informer stores obj (or nothing) and tells the collector of the key
\* about it with an event that carries seen, if the predicates let it pass.
Observe(key, obj, seen) ==
  /\ store' = [store EXCEPT ![key] = obj]
  /\ Enqueue(IF PassesFilter(key, seen) THEN {key} ELSE {})
  /\ UNCHANGED <<triggers, faults>>

\* A pod may be created with its node already assigned.
CreateObject(key, node) ==
  /\ ~Exists(key)
  /\ born[key] < MaxInc[key]
  /\ key \in Owners => node = None
  /\ born' = [born EXCEPT ![key] = @ + 1]
  /\ LET obj == NewObject(born[key] + 1, node) IN Observe(key, obj, obj)

SchedulePod(pod, node) ==
  /\ Exists(pod)
  /\ store[pod].node = None
  /\ LET obj == [store[pod] EXCEPT !.node = node] IN Observe(pod, obj, obj)
  /\ UNCHANGED born

\* A change of metadata or, for a pod, of the status its kubelet reports.
UpdateObject(key) ==
  /\ Exists(key)
  /\ PassesFilter(key, store[key])
  /\ store[key].ver < MaxVer[key]
  /\ LET obj == [store[key] EXCEPT !.ver = @ + 1] IN Observe(key, obj, obj)
  /\ UNCHANGED born

DeleteObject(key) ==
  /\ Exists(key)
  /\ key \in Deletable
  /\ Observe(key, None, store[key])
  /\ UNCHANGED born

ClusterNext ==
  \/ \E key \in Keys, node \in Nodes \cup {None} : CreateObject(key, node)
  \/ \E pod \in Pods, node \in Nodes : SchedulePod(pod, node)
  \/ \E key \in Keys : UpdateObject(key)
  \/ \E key \in Keys : DeleteObject(key)

\* A call to the API server's cache or on a stream returns an error.
Fault(site) ==
  /\ site \in FaultSites
  /\ faults < MaxFaults
  /\ faults' = faults + 1

\* The kubelet has set the address of the pod.
HasIP(pod) == store[pod].ver > 0
=============================================================================
