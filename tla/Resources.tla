------------------------------ MODULE Resources ------------------------------
(***************************************************************************)
(* The data the collector handles: Kubernetes resources, the subscribers   *)
(* of the metadata, the cache entries and the events computed from them    *)
(* (pkg/resource, pkg/fields, pkg/events).                                 *)
(*                                                                         *)
(* A resource is named by its namespaced name (a key).  A name can be used *)
(* again after its object was deleted: inc counts the incarnations, and    *)
(* the UID the API server gives an object is the pair <<key, inc>>.  The   *)
(* content of an object (labels, annotations, status) is the number ver    *)
(* of its current version.                                                 *)
(***************************************************************************)
EXTENDS Naturals, FiniteSets, Sequences

CONSTANTS
  Nodes,        \* names of the nodes of the cluster; the empty name is None
  Pods,         \* keys of pods
  Owners,       \* keys of the resources related to pods
  KindOf,       \* the kind of each of the Owners
  OwnerRefs,    \* for a pod, its namespace, its managing owner, the owner
                \* of that one, and the services that select the pod
  RelatedPods,  \* for an owner, the pods its collector lists for it
  Subs,         \* Watch calls; each one is a subscriber with its own UID
  NodeOf,       \* Selector.NodeName of each subscriber
  KindsOf,      \* Selector.ResourceKinds of each subscriber
  None          \* absent node, object, cache entry, event or connection

Keys == Pods \cup Owners

\* The kinds run.go creates a metadata collector for, Pod apart.
OwnerKinds == {"Namespace", "Deployment", "ReplicaSet", "DaemonSet",
               "ReplicationController", "Service"}

ASSUME KeysAssumption ==
  /\ Pods \cap Owners = {}
  /\ None \notin Nodes \cup Keys \cup Subs

ASSUME RelationsAssumption ==
  /\ KindOf \in [Owners -> OwnerKinds]
  /\ OwnerRefs \in [Pods -> SUBSET Owners]
  /\ RelatedPods \in [Owners -> SUBSET Pods]

ASSUME SubscribersAssumption ==
  /\ NodeOf \in [Subs -> Nodes]
  /\ KindsOf \in [Subs -> SUBSET (OwnerKinds \cup {"Pod"})]

Kind(key) == IF key \in Pods THEN "Pod" ELSE KindOf[key]

\* The kinds that have a collector, hence a dispatcher and a worker.
Kinds == {"Pod"} \cup {KindOf[o] : o \in Owners}

-----------------------------------------------------------------------------
\* Objects of the informers' stores.  Only pods have a node.
Object == [inc : Nat, ver : Nat, node : Nodes \cup {None}]

Uid == Keys \X Nat

\* What an event carries of the resource: its fields and, for a pod, its
\* references.  References are kept by name.
Data == [ver : Nat, refs : SUBSET Owners]

NoData == [ver |-> 0, refs |-> {}]

EventType == {"Create", "Update", "Delete"}

Event == [type : EventType, uid : Uid, data : Data, subs : SUBSET Subs]

\* The hash of a resource covers its UID, its fields and its references.
Hash == Uid \X Data

CacheEntry == [hash : Hash, uid : Uid, refs : SUBSET Owners, subs : SUBSET Subs]

\* A resource as the client of a subscriber keeps it.
Item == [uid : Uid, data : Data]

\* nil is no object, no entry of a cache and no message to a subscriber.
ASSUME NoneAssumption ==
  None \notin Object \cup CacheEntry \cup [sub : Subs, type : EventType, item : Item]

-----------------------------------------------------------------------------
(***************************************************************************)
(* GenerateSubscribers and ToEvents.  prev are the subscribers saved in    *)
(* the cache entry, subs the ones computed now.                            *)
(***************************************************************************)
\* Mutant: the subscribers that have the resource get a Create again.
CreatedForAll(subs, prev) == subs

CreatedFor(subs, prev) == subs \ prev

\* Mutant: nobody hears of a change.
UpdatedForNobody(subs, prev, updated) == {}

UpdatedFor(subs, prev, updated) == IF updated THEN subs \cap prev ELSE {}

DeletedFor(subs, prev) == prev \ subs

\* ToEvents leaves out the events nobody receives.
EventFor(type, uid, data, subs) ==
  IF subs = {} THEN <<>>
  ELSE <<[type |-> type, uid |-> uid, data |-> data, subs |-> subs]>>

ToEvents(uid, data, updated, subs, prev) ==
  EventFor("Create", uid, data, CreatedFor(subs, prev))
    \o EventFor("Update", uid, data, UpdatedFor(subs, prev, updated))
    \o EventFor("Delete", uid, NoData, DeletedFor(subs, prev))
=============================================================================
