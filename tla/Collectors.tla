------------------------------ MODULE Collectors ------------------------------
(***************************************************************************)
(* The reconcilers: PodCollector (collectors/pod.go), ObjectMetaCollector  *)
(* (collectors/partialObjectMetadata.go) and ServiceCollector              *)
(* (collectors/services.go).  One worker per kind reconciles one name at a *)
(* time.  The step of a reconcile that reads the store, the one that reads *)
(* the registry of subscribers and each push on the queue of the broker    *)
(* are separate: dispatchers, informers and the other workers run between  *)
(* them.                                                                   *)
(***************************************************************************)
EXTENDS Dispatcher, BlockingChannel

\* cache[key] is the entry of key in the cache of the collector of its kind;
\* work[kind] is the reconcile in progress of the worker of the kind.
VARIABLES cache, work

WorkIdle == [pc |-> "idle", key |-> None, obj |-> None, todo |-> {},
             subs |-> {}, refs |-> {}, evts |-> <<>>]

\* The worker holds the object of the request and, for an owner, the related
\* pods whose subscribers it has still to read.
WorkRead ==
  [pc : {"subs", "refs"}, key : Pods, obj : Object, todo : {{}},
   subs : SUBSET Subs, refs : {{}}, evts : {<<>>}]
  \cup
  [pc : {"list", "nodes"}, key : Owners, obj : Object, todo : SUBSET (Pods \X Nodes),
   subs : SUBSET Subs, refs : {{}}, evts : {<<>>}]

\* The worker has events to push.
WorkPush ==
  [pc : {"push"}, key : Keys, obj : {None}, todo : {{}},
   subs : {{}}, refs : SUBSET Owners, evts : Seq(Event) \ {<<>>}]

WorkType == WorkRead \cup WorkPush \cup {WorkIdle}

CollectorsTypeOK ==
  /\ cache \in [Keys -> CacheEntry \cup {None}]
  /\ work \in [Kinds -> WorkType]

CollectorsInit ==
  /\ cache = [k \in Keys |-> None]
  /\ work = [k \in Kinds |-> WorkIdle]

Cached(key) == cache[key] # None

-----------------------------------------------------------------------------
\* The kinds pod.go has a channel for in ownersSources (run.go).
OwnersSources == {"Deployment", "ReplicaSet", "Namespace", "DaemonSet",
                  "ReplicationController"}

\* Mutant: owners are triggered for deleted pods only.
TriggeredByDelete(kind, refs, evts) ==
  IF kind = "Pod" /\ evts # <<>> /\ Head(evts).type = "Delete"
  THEN {o \in refs : KindOf[o] \in OwnersSources}
  ELSE {}

\* Mutant: owners are triggered for new pods only.
TriggeredByCreate(kind, refs, evts) ==
  IF kind = "Pod" /\ evts # <<>> /\ Head(evts).type = "Create"
  THEN {o \in refs : KindOf[o] \in OwnersSources}
  ELSE {}

\* The loop over the events of a resource: the owners are triggered before a
\* Create or a Delete of a pod is pushed, a push that may have to wait.
\* Starting the goroutines of triggerOwners is part of the step before it.
TriggeredBy(kind, refs, evts) ==
  IF kind = "Pod" /\ evts # <<>> /\ Head(evts).type \in {"Create", "Delete"}
  THEN {o \in refs : KindOf[o] \in OwnersSources}
  ELSE {}

EventLoop(kind, key, refs, evts) ==
  /\ work' = [work EXCEPT ![kind] =
                IF evts = <<>> THEN WorkIdle
                ELSE [WorkIdle EXCEPT !.pc = "push", !.key = key, !.refs = refs,
                                      !.evts = evts]]
  /\ Trigger(TriggeredBy(kind, refs, evts))

\* Mutant: the subscribers of the entry are not saved again.
RefreshKeepsSubs(kind, key, uid, data, subs) ==
  LET hash == <<uid, data>>
      entry == cache[key]
      prev == IF Cached(key) THEN entry.subs ELSE {}
      updated == Cached(key) /\ entry.hash # hash
  IN
  /\ cache' = [cache EXCEPT ![key] =
                 [hash |-> hash, uid |-> IF Cached(key) THEN entry.uid ELSE uid,
                  refs |-> data.refs, subs |-> IF Cached(key) THEN prev ELSE subs]]
  /\ EventLoop(kind, key, data.refs, ToEvents(uid, data, updated, subs, prev))

\* The resource exists and has subscribers: the entry of the cache is added
\* or brought up to date, and the events follow from what it held.  An entry
\* keeps the UID it was added with.
Refresh(kind, key, uid, data, subs) ==
  LET hash == <<uid, data>>
      entry == cache[key]
      prev == IF Cached(key) THEN entry.subs ELSE {}
      updated == Cached(key) /\ entry.hash # hash
  IN
  /\ cache' = [cache EXCEPT ![key] =
                 [hash |-> hash, uid |-> IF Cached(key) THEN entry.uid ELSE uid,
                  refs |-> data.refs, subs |-> subs]]
  /\ EventLoop(kind, key, data.refs, ToEvents(uid, data, updated, subs, prev))

\* Mutant: the entry is dropped without an event.
ForgetSilently(kind, key) ==
  /\ cache' = [cache EXCEPT ![key] = None]
  /\ work' = [work EXCEPT ![kind] = WorkIdle]
  /\ UNCHANGED triggers

\* The resource is gone, or nobody subscribes to it any more: the
\* subscribers of the entry, if there is one, get a Delete.
Forget(kind, key) ==
  LET entry == cache[key] IN
  IF Cached(key)
  THEN /\ cache' = [cache EXCEPT ![key] = None]
       /\ EventLoop(kind, key, entry.refs,
                    ToEvents(entry.uid, NoData, FALSE, {}, entry.subs))
  ELSE /\ work' = [work EXCEPT ![kind] = WorkIdle]
       /\ UNCHANGED <<cache, triggers>>

-----------------------------------------------------------------------------
\* Reconcile starts: the worker takes a name and gets its object.
Get(kind, key) ==
  /\ work[kind].pc = "idle"
  /\ key \in dirty
  /\ Kind(key) = kind
  /\ dirty' = dirty \ {key}
  /\ IF Exists(key)
     THEN /\ work' = [work EXCEPT ![kind] =
                        [WorkIdle EXCEPT !.pc = IF kind = "Pod" THEN "subs" ELSE "list",
                                         !.key = key, !.obj = store[key]]]
          /\ UNCHANGED <<cache, triggers>>
     ELSE Forget(kind, key)
  /\ UNCHANGED <<clusterVars, registry, disp, queue>>

\* The pod collector reads the subscribers of the pod's node.  With none, it
\* drops the entry of the pod and returns.
ReadPodSubscribers ==
  LET w == work["Pod"]
      subs == SubscribersPerNode("Pod", w.obj.node)
  IN
  /\ w.pc = "subs"
  /\ IF subs = {}
     THEN /\ cache' = [cache EXCEPT ![w.key] = None]
          /\ work' = [work EXCEPT !["Pod"] = WorkIdle]
     ELSE /\ work' = [work EXCEPT !["Pod"].pc = "refs", !["Pod"].subs = subs]
          /\ UNCHANGED cache
  /\ UNCHANGED <<clusterVars, queueVars, registry, disp, queue>>

\* The references found: the owner in the pod itself, a Deployment in the
\* ReplicaSet of the pod, a Service in the list of services.
PodRefs(pod) ==
  {o \in OwnerRefs[pod] :
     /\ KindOf[o] = "Service" => Exists(o)
     /\ KindOf[o] = "Deployment" =>
          \E r \in OwnerRefs[pod] : KindOf[r] = "ReplicaSet" /\ Exists(r)}

NamespaceExists(pod) ==
  \A o \in OwnerRefs[pod] : KindOf[o] = "Namespace" => Exists(o)

\* The references and the fields are complete: compare with the cache.
RefreshPod ==
  LET w == work["Pod"] IN
  /\ w.pc = "refs"
  /\ NamespaceExists(w.key)
  /\ Refresh("Pod", w.key, <<w.key, w.obj.inc>>,
             [ver |-> w.obj.ver, refs |-> PodRefs(w.key)], w.subs)
  /\ UNCHANGED <<clusterVars, dirty, registry, disp, queue>>

\* Mutant: Reconcile swallows the error.
RequeueNothing(kind) ==
  /\ work' = [work EXCEPT ![kind] = WorkIdle]
  /\ UNCHANGED <<store, born, queueVars, registry, disp, cache, queue>>

\* Reconcile returns the error: the controller requeues the name.
Requeue(kind) ==
  /\ Enqueue({work[kind].key})
  /\ work' = [work EXCEPT ![kind] = WorkIdle]
  /\ UNCHANGED <<store, born, triggers, registry, disp, cache, queue>>

\* The namespace of the pod is not in the store: an error, unlike the other
\* references.
NamespaceMissing ==
  LET w == work["Pod"] IN
  /\ w.pc = "refs"
  /\ ~NamespaceExists(w.key)
  /\ Requeue("Pod")
  /\ UNCHANGED faults

\* A read of the API fails.
ReadFails(kind) ==
  /\ work[kind].pc \in {"refs", "list"}
  /\ Fault("reconcile")
  /\ Requeue(kind)

-----------------------------------------------------------------------------
\* The pods related to an owner that can have subscribers: they run on a
\* node and, for a Service, have an address.
PlacedPods(owner) ==
  {<<p, store[p].node>> : p \in {q \in RelatedPods[owner] :
      /\ Exists(q)
      /\ store[q].node # None
      /\ KindOf[owner] = "Service" => HasIP(q)}}

\* Mutant: a resource without subscribers is left alone.
VisitOrExit(kind, todo, subs) ==
  LET w == work[kind] IN
  IF todo # {}
  THEN /\ work' = [work EXCEPT ![kind] =
                     [w EXCEPT !.pc = "nodes", !.todo = todo, !.subs = subs]]
       /\ UNCHANGED <<cache, triggers>>
  ELSE IF subs = {}
  THEN /\ work' = [work EXCEPT ![kind] = WorkIdle]
       /\ UNCHANGED <<cache, triggers>>
  ELSE Refresh(kind, w.key, <<w.key, w.obj.inc>>,
               [ver |-> w.obj.ver, refs |-> {}], subs)

\* The subscribers found once the pods of todo are left to visit: with none
\* left, the reconcile computes the events; a resource without subscribers
\* counts as deleted.
Visit(kind, todo, subs) ==
  LET w == work[kind] IN
  IF todo # {}
  THEN /\ work' = [work EXCEPT ![kind] =
                     [w EXCEPT !.pc = "nodes", !.todo = todo, !.subs = subs]]
       /\ UNCHANGED <<cache, triggers>>
  ELSE IF subs = {} THEN Forget(kind, w.key)
  ELSE Refresh(kind, w.key, <<w.key, w.obj.inc>>,
               [ver |-> w.obj.ver, refs |-> {}], subs)

\* getSubscribers lists the pods related to the owner ...
ListRelatedPods(kind) ==
  /\ work[kind].pc = "list"
  /\ Visit(kind, PlacedPods(work[kind].key), {})
  /\ UNCHANGED <<clusterVars, dirty, registry, disp, queue>>

\* ... and collects the subscribers of the node of each of them.
CollectNode(kind, placed) ==
  /\ work[kind].pc = "nodes"
  /\ placed \in work[kind].todo
  /\ Visit(kind, work[kind].todo \ {placed},
           work[kind].subs \cup SubscribersPerNode(kind, placed[2]))
  /\ UNCHANGED <<clusterVars, dirty, registry, disp, queue>>

-----------------------------------------------------------------------------
\* The next event goes to the broker's queue, once there is room for it.
PushEvent(kind) ==
  LET w == work[kind] IN
  /\ w.pc = "push"
  /\ Push(Head(w.evts))
  /\ EventLoop(kind, w.key, w.refs, Tail(w.evts))
  /\ UNCHANGED <<clusterVars, dirty, registry, disp, cache>>

WorkerStep(kind) ==
  \/ \E key \in Keys : Get(kind, key)
  \/ kind = "Pod" /\ (ReadPodSubscribers \/ RefreshPod \/ NamespaceMissing)
  \/ ListRelatedPods(kind)
  \/ \E placed \in Pods \X Nodes : CollectNode(kind, placed)
  \/ ReadFails(kind)
  \/ PushEvent(kind)
=============================================================================
