---------------------------- MODULE EndpointSlices ----------------------------
(***************************************************************************)
(* The dispatcher of endpoint slices (collectors/endpointslices.go).  Each *)
(* slice of a service lists the pods that serve it.  When a slice changes, *)
(* the dispatcher triggers the pods that joined or left it, then the       *)
(* service.  The collector of services watches the slices too.             *)
(***************************************************************************)
EXTENDS Cluster

CONSTANTS
  Slices,     \* keys of endpoint slices
  ServiceOf,  \* the service of each slice
  SharedNames \* the slices that have the name of a slice of another namespace

ASSUME SlicesAssumption ==
  /\ ServiceOf \in [Slices -> Owners]
  /\ SharedNames \subseteq Slices
  /\ None \notin Slices

VARIABLES
  slices,       \* the store of slices: the pods of each one
  dirtySlices,  \* the work queue of the dispatcher
  slicePods,    \* the map Pods of the dispatcher
  epsWork       \* the triggers the worker has still to send

sliceVars == <<slices, dirtySlices, slicePods, epsWork>>

EpsIdle == [pods |-> {}, service |-> {}]

SlicesTypeOK ==
  /\ slices \in [Slices -> (SUBSET Pods) \cup {None}]
  /\ dirtySlices \in SUBSET Slices
  /\ slicePods \in [Slices -> (SUBSET Pods) \cup {None}]
  /\ epsWork \in [pods : SUBSET Pods, service : SUBSET Owners]

SlicesInit ==
  /\ slices = [e \in Slices |-> None]
  /\ dirtySlices = {}
  /\ slicePods = [e \in Slices |-> None]
  /\ epsWork = EpsIdle

\* A slice is written or deleted in the cluster (external).  Both controllers
\* hear of it.
ChangeSlice(slice, pods) ==
  /\ slices[slice] # pods
  /\ slices' = [slices EXCEPT ![slice] = pods]
  /\ dirtySlices' = dirtySlices \cup {slice}
  /\ Enqueue({ServiceOf[slice]})
  /\ UNCHANGED <<clusterVars, triggers, slicePods, epsWork>>

\* The pods of a slice, none when it does not exist or was never seen.
PodsOf(entry) == IF entry = None THEN {} ELSE entry

\* Mutant: the pods that left are not triggered.
JoinedPods(slice) == PodsOf(slices[slice]) \ PodsOf(slicePods[slice])

\* getPods, and the pods remembered of a deleted slice: the pods that joined
\* or left since the slice was reconciled last.
TriggeredPods(slice) ==
  LET known == PodsOf(slicePods[slice])
      current == PodsOf(slices[slice])
  IN  (current \ known) \cup (known \ current)

\* The services the dispatcher may trigger for the slice: its own one, saved
\* under the name of the slice just before; for a deleted slice, the one still
\* saved under its name, and if a slice of another namespace shares the name
\* that may be any service of this namespace, or one that is not there.  A
\* deleted slice that was never seen triggers nothing.
TriggeredServices(slice) ==
  IF slices[slice] = None /\ slicePods[slice] = None THEN {{}}
  ELSE IF slices[slice] = None /\ slice \in SharedNames
  THEN {{}} \cup {{ServiceOf[e]} : e \in Slices}
  ELSE {{ServiceOf[slice]}}

\* The worker takes a slice and computes whom to trigger.
ReconcileSlice(slice) ==
  /\ epsWork = EpsIdle
  /\ slice \in dirtySlices
  /\ dirtySlices' = dirtySlices \ {slice}
  /\ \E service \in TriggeredServices(slice) :
       epsWork' = [pods |-> TriggeredPods(slice), service |-> service]
  /\ slicePods' = [slicePods EXCEPT ![slice] = slices[slice]]
  /\ UNCHANGED <<clusterVars, queueVars, slices>>

TriggerPod(pod) ==
  /\ pod \in epsWork.pods
  /\ Request({pod})
  /\ epsWork' = [epsWork EXCEPT !.pods = @ \ {pod}]
  /\ UNCHANGED <<clusterVars, dirty, slices, dirtySlices, slicePods>>

TriggerService ==
  /\ epsWork.pods = {}
  /\ epsWork.service # {}
  /\ Request(epsWork.service)
  /\ epsWork' = EpsIdle
  /\ UNCHANGED <<clusterVars, dirty, slices, dirtySlices, slicePods>>

SliceStep ==
  \/ \E slice \in Slices : ReconcileSlice(slice)
  \/ \E pod \in Pods : TriggerPod(pod)
  \/ TriggerService
=============================================================================
