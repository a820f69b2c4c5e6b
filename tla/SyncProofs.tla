----------------------------- MODULE SyncProofs -----------------------------
(***************************************************************************)
(* Once everything is processed a client has exactly the pods of its node, *)
(* at their current version.  The invariant says of every pod and every    *)
(* subscriber who will see to it that the client gets what it lacks: a     *)
(* request for the pod, the worker, the dispatcher, or the events that are *)
(* on their way from the cache to the client.                              *)
(***************************************************************************)
EXTENDS StreamProofs

\* What the cache has of the resource.
Saved(key) == cache[key].hash[2]

\* The worker holds the object of key.
Reads(key) == Reading(Kind(key)) /\ work[Kind(key)].key = key

-----------------------------------------------------------------------------
(***************************************************************************)
(* The invariant, in parts.                                                *)
(***************************************************************************)

\* A collector that was told of a subscriber has it in its registry, or its
\* dispatcher is about to put it there.
Welcome(kind, sub) ==
  watch[sub].phase = "joined" /\ kind \in KindsOf[sub] \ watch[sub].todo =>
    sub \in registry[kind][NodeOf[sub]] \/ Holds(kind, sub, TRUE)

\* A resource that is gone while somebody has it, or will have it, is to be
\* reconciled.
Cleared(key) ==
  (Subscribers(key) # {} \/ (Reads(key) /\ PassesFilter(key, work[Kind(key)].obj))) /\ ~Exists(key)
    => key \in dirty

\* Unless it is to be reconciled, a resource is known at its current version.
Tracked(key) ==
  Exists(key) /\ PassesFilter(key, store[key]) /\ key \notin dirty =>
    /\ Reads(key) => work[Kind(key)].obj = store[key]
    /\ ~Reads(key) /\ Cached(key) => Saved(key).ver = store[key].ver

\* The dispatcher of the pods will request the pod for sub.
Requesting(pod, sub) ==
  LET d == disp["Pod"] IN
  d.sub = sub /\ (d.pc = "list" \/ (d.pc = "send" /\ pod \in d.todo))

\* The worker will find sub, or has found it.
Finding(pod, sub) ==
  LET w == work["Pod"] IN
  IF Reads(pod) THEN w.pc = "subs" \/ sub \in w.subs ELSE sub \in Subscribers(pod)

\* The pod is on the node of the registered subscriber.
Due(pod, sub) ==
  /\ sub \in registry["Pod"][NodeOf[sub]]
  /\ Exists(pod) /\ store[pod].node = NodeOf[sub]
  /\ NoDispatchFault

\* The pods of its node will get to a subscriber, or have.
Awaited(pod, sub) ==
  Due(pod, sub) => \/ pod \in dirty \/ triggers[pod] > 0
                   \/ Requesting(pod, sub)
                   \/ Finding(pod, sub)

\* No event of the queue is about key and meant for sub.
Unqueued(key, sub) == \A i \in DOMAIN queue : ~Mine(queue[i], key, sub)

\* The last event about key on its way to sub carries the data: the one the
\* worker has, ...
FromWorker(key, sub, data) ==
  \A i \in DOMAIN work[Kind(key)].evts :
    LET evt == work[Kind(key)].evts[i] IN
    Mine(evt, key, sub) => evt.type = "Delete" \/ evt.data = data

\* ... the last one of the queue, ...
FromQueue(key, sub, data) ==
  \A i \in DOMAIN queue :
    Mine(queue[i], key, sub) /\ (\A j \in DOMAIN queue : j > i => ~Mine(queue[j], key, sub))
      => queue[i].type = "Delete" \/ queue[i].data = data

\* ... or the one of the broker; otherwise the client has the data.
FromBroker(key, sub, data) ==
  /\ Waiting(key, sub) => bro.evt.type = "Delete" \/ bro.evt.data = data
  /\ ~Waiting(key, sub) => \A item \in mirror[sub] : item.uid[1] = key => item.data = data

Ahead(key, sub, data) ==
  /\ FromQueue(key, sub, data)
  /\ Unqueued(key, sub) => FromBroker(key, sub, data)

Latest(key, sub, data) ==
  /\ FromWorker(key, sub, data)
  /\ ~Pending(key, sub) => Ahead(key, sub, data)

\* The healthy subscribers of an entry have, or will get, what it saves.
Echo(key, sub) ==
  Healthy(sub) /\ sub \in Subscribers(key) => Latest(key, sub, Saved(key))

Sync ==
  /\ \A kind \in Kinds, sub \in Subs : Welcome(kind, sub)
  /\ \A key \in Keys : Cleared(key) /\ Tracked(key)
  /\ \A pod \in Pods, sub \in Subs : Awaited(pod, sub)
  /\ \A key \in Keys, sub \in Subs : Echo(key, sub)

-----------------------------------------------------------------------------
(***************************************************************************)
(* The messages of the handlers.                                           *)
(***************************************************************************)

\* No message to a collector is lost.
LEMMA WelcomeStep ==
  ASSUME TypeOK, SubscriberLife, [Next]_vars, NEW kind \in Kinds, NEW sub \in Subs,
         Welcome(kind, sub)
  PROVE  Welcome(kind, sub)'
<1> SUFFICES ASSUME watch'[sub].phase = "joined", kind \in KindsOf[sub], kind \notin watch'[sub].todo
             PROVE  sub \in registry'[kind][NodeOf[sub]] \/ Holds(kind, sub, TRUE)'
  BY DEF Welcome
<1>1. /\ watch \in [Subs -> WatchState] /\ registry \in [Kinds -> [Nodes -> SUBSET Subs]]
      /\ disp \in [Kinds -> DispBusy \cup {DispIdle}] /\ NodeOf[sub] \in Nodes
  BY SubscribersAssumption DEF TypeOK, WatchTypeOK, DispatcherTypeOK
<1>2. CASE UNCHANGED <<watch, registry, disp>>
  BY <1>2 DEF Welcome, Holds
<1>3. ASSUME NEW s \in Subs, NEW k \in Kinds, Notify(s, k)
      PROVE  sub \in registry'[kind][NodeOf[sub]] \/ Holds(kind, sub, TRUE)'
  <2>1. /\ disp[k].pc = "idle" /\ registry' = registry
        /\ disp'[k] = [pc |-> "registry", sub |-> s, join |-> Joins(s), todo |-> {}]
        /\ \A kk \in Kinds \ {k} : disp'[kk] = disp[kk]
        /\ watch'[s].phase = watch[s].phase /\ watch'[s].todo = watch[s].todo \ {k}
        /\ \A ss \in Subs \ {s} : watch'[ss] = watch[ss]
    BY <1>1, <1>3 DEF Notify, NotifyCollector, Receive, WatchState
  <2>2. CASE s = sub /\ k = kind
    <3>1. Joins(s)
      BY <2>1, <2>2 DEF Joins
    <3>2. Holds(kind, sub, TRUE)'
      BY <2>1, <2>2, <3>1 DEF Holds
    <3>3. QED
      BY <3>2
  <2>3. CASE ~(s = sub /\ k = kind)
    <3>1. sub \in registry[kind][NodeOf[sub]] \/ Holds(kind, sub, TRUE)
      BY <2>1, <2>3 DEF Welcome
    <3>2. Holds(kind, sub, TRUE) => k # kind
      BY <2>1 DEF Holds
    <3>3. QED
      BY <2>1, <3>1, <3>2 DEF Holds
  <2>4. QED
    BY <2>2, <2>3
<1>4. ASSUME NEW k \in Kinds, Dispatch(k)
      PROVE  sub \in registry'[kind][NodeOf[sub]] \/ Holds(kind, sub, TRUE)'
  <2>1. /\ UNCHANGED watch /\ \A kk \in Kinds \ {k} : disp'[kk] = disp[kk]
    BY <1>1, <1>4 DEF Dispatch, watchVars, DispatcherStep, UpdateRegistry, ListPods, ListPodsFails,
       DispatchPod, DispatchPodFails, Dispatching
  <2>2. sub \in registry[kind][NodeOf[sub]] \/ Holds(kind, sub, TRUE)
    BY <2>1 DEF Welcome
  <2>3. CASE UpdateRegistry(k)
    <3>1. PICK d \in DispBusy : d = disp[k]
      BY <1>1, <2>3 DEF UpdateRegistry, DispIdle
    <3>2. registry'[k][NodeOf[d.sub]] = IF d.join THEN registry[k][NodeOf[d.sub]] \cup {d.sub}
                                        ELSE registry[k][NodeOf[d.sub]] \ {d.sub}
      BY <1>1, <2>3, <3>1, SubscribersAssumption DEF UpdateRegistry, DispBusy
    <3>3. /\ d.pc = "registry" /\ d.sub \in Subs
          /\ \A kk \in Kinds, n \in Nodes :
               kk # k \/ n # NodeOf[d.sub] => registry'[kk][n] = registry[kk][n]
      BY <1>1, <2>3, <3>1, SubscribersAssumption DEF UpdateRegistry, DispBusy
    <3>4. CASE k = kind /\ d.sub = sub
      <4>1. ~Holds(kind, sub, FALSE)
        BY <2>1 DEF SubscriberLife, Life
      <4>2. d.join
        BY <3>1, <3>3, <3>4, <4>1 DEF Holds, DispBusy
      <4>3. QED
        BY <3>2, <3>4, <4>2
    <3>5. CASE k = kind /\ d.sub # sub
      <4>1. sub \in registry[kind][NodeOf[sub]]
        BY <2>2, <3>1, <3>5 DEF Holds
      <4>2. QED
        BY <1>1, <3>2, <3>3, <3>5, <4>1
    <3>6. CASE k # kind
      BY <1>1, <2>1, <2>2, <3>3, <3>6 DEF Holds
    <3>7. QED
      BY <3>4, <3>5, <3>6
  <2>4. CASE UNCHANGED registry /\ disp[k].pc # "registry"
    BY <2>1, <2>2, <2>4 DEF Holds
  <2>5. QED
    BY <1>4, <2>3, <2>4 DEF Dispatch, DispatcherStep, ListPods, ListPodsFails, DispatchPod,
       DispatchPodFails
<1>5. ASSUME NEW s \in Subs, StartWatch(s) \/ LeaveWatch(s)
      PROVE  sub \in registry'[kind][NodeOf[sub]] \/ Holds(kind, sub, TRUE)'
  <2>1. UNCHANGED <<registry, disp>>
    BY <1>5 DEF StartWatch, LeaveWatch, dispVars
  <2>2. /\ watch'[s].phase = "left" \/ watch'[s].todo = Notified(s)
        /\ \A ss \in Subs \ {s} : watch'[ss] = watch[ss]
    BY <1>1, <1>5 DEF StartWatch, Watch, LeaveWatch, LeaveOnStreamEnd, LeaveOnError, Leave
  <2>3. s # sub
    BY <2>2 DEF Notified
  <2>4. QED
    BY <2>1, <2>2, <2>3 DEF Welcome, Holds
<1>6. QED
  BY <1>2, <1>3, <1>4, <1>5 DEF Next, ClusterStep, SliceChanges, DispatchSlices, DeliverTrigger,
     Reconcile, EndStream, StreamEnds, WorkerStep, Get, ReadPodSubscribers, RefreshPod,
     NamespaceMissing, Requeue, ReadFails, ListRelatedPods, CollectNode, PushEvent, BrokerStep,
     PopEvent, LoadConnection, Send, SendFails, vars, dispVars, watchVars

-----------------------------------------------------------------------------
(***************************************************************************)
(* The steps of a worker, by what they do to its requests.                 *)
(***************************************************************************)

\* The worker takes key and its object.
Starts(kind, key) ==
  /\ ~Reading(kind) /\ Kind(key) = kind /\ Exists(key)
  /\ Reading(kind)' /\ work'[kind].key = key /\ work'[kind].obj = store[key]
  /\ work'[kind].pc = IF kind = "Pod" THEN "subs" ELSE "list"
  /\ work'[kind].subs = {}
  /\ dirty' = dirty \ {key}
  /\ UNCHANGED cache

\* The worker takes key, whose object is gone.
Clears(kind, key) ==
  /\ ~Reading(kind) /\ Kind(key) = kind /\ ~Exists(key)
  /\ ~Reading(kind)'
  /\ ~Cached(key)' /\ \A k \in Keys \ {key} : cache'[k] = cache[k]
  /\ dirty' = dirty \ {key}

\* It has found subs, and the related pods of todo are left.
Visited(kind, todo, subs) ==
  LET w == work[kind] IN
  \/ w.pc = "list" /\ todo = PlacedPods(w.key) /\ subs = {}
  \/ /\ w.pc = "nodes"
     /\ \E placed \in w.todo : /\ todo = w.todo \ {placed}
                               /\ subs = w.subs \cup SubscribersPerNode(kind, placed[2])

\* It looks for subscribers.
GoesOn(kind) ==
  LET w == work[kind] IN
  /\ Reading(kind) /\ Reading(kind)'
  /\ work'[kind].key = w.key /\ work'[kind].obj = w.obj
  /\ kind = "Pod" => work'[kind].subs = SubscribersPerNode("Pod", w.obj.node)
  /\ kind # "Pod" => Visited(kind, work'[kind].todo, work'[kind].subs)
  /\ UNCHANGED <<cache, dirty>>

\* It brings the entry up to date, for the subscribers it found.
Ends(kind) ==
  LET w == work[kind] IN
  /\ Reading(kind) /\ ~Reading(kind)'
  /\ \A k \in Keys \ {w.key} : cache'[k] = cache[k]
  /\ cache'[w.key] # None =>
       /\ cache'[w.key].hash[2].ver = w.obj.ver
       /\ cache'[w.key].hash[2].refs = IF kind = "Pod" THEN PodRefs(w.key) ELSE {}
       /\ cache'[w.key].refs = cache'[w.key].hash[2].refs
  /\ kind = "Pod" => IF w.pc = "subs"
                     THEN SubscribersPerNode("Pod", w.obj.node) = {} /\ cache'[w.key] = None
                     ELSE cache'[w.key] # None /\ cache'[w.key].subs = w.subs
  /\ kind # "Pod" => Visited(kind, {}, IF cache'[w.key] = None THEN {} ELSE cache'[w.key].subs)
  /\ UNCHANGED dirty

\* A read failed.
Requeues(kind) ==
  /\ Reading(kind) /\ ~Reading(kind)'
  /\ dirty' = dirty \cup {work[kind].key}
  /\ UNCHANGED cache

\* It pushes an event.
Delivers(kind) ==
  /\ ~Reading(kind) /\ ~Reading(kind)'
  /\ UNCHANGED <<cache, dirty>>

\* The other workers do not move, and no trigger is lost.
Alone(kind) ==
  /\ \A k \in Kinds \ {kind} : work'[k] = work[k]
  /\ \A key \in Keys : triggers[key] > 0 => triggers'[key] > 0

\* Goroutines are started before the loop over the events waits or ends.
LEMMA LoopAlone ==
  ASSUME TypeOK, NEW kind \in Kinds, NEW key, NEW refs, NEW evts, EventLoop(kind, key, refs, evts)
  PROVE  ~Reading(kind)' /\ Alone(kind)
<1>1. work \in [Kinds -> WorkType] /\ triggers \in [Keys -> Nat]
  BY DEF TypeOK, CollectorsTypeOK, WorkQueueTypeOK
<1>2. \A k \in Keys : triggers[k] > 0 => triggers'[k] > 0
  <2> SUFFICES ASSUME NEW k \in Keys PROVE triggers[k] > 0 => triggers'[k] > 0
    OBVIOUS
  <2>1. triggers[k] \in Nat /\ triggers'[k] \in {triggers[k], triggers[k] + 1}
    BY <1>1 DEF EventLoop, Trigger
  <2>2. QED
    BY <2>1
<1>3. work'[kind].pc \in {"idle", "push"}
  BY <1>1 DEF EventLoop, WorkIdle
<1>4. QED
  BY <1>1, <1>2, <1>3 DEF EventLoop, Alone, Reading

\* Refresh and Forget end a reconcile.
LEMMA RefreshEnds ==
  ASSUME TypeOK, NEW kind \in Kinds, NEW key \in Keys, NEW inc \in Nat, NEW data \in Data,
         NEW subs \in SUBSET Subs, Refresh(kind, key, <<key, inc>>, data, subs)
  PROVE  /\ ~Reading(kind)' /\ Alone(kind)
         /\ \A k \in Keys \ {key} : cache'[k] = cache[k]
         /\ cache'[key] # None /\ cache'[key].hash[2] = data /\ cache'[key].subs = subs
         /\ cache'[key].refs = data.refs
<1> DEFINE new == [hash |-> <<<<key, inc>>, data>>,
                   uid |-> IF Cached(key) THEN cache[key].uid ELSE <<key, inc>>,
                   refs |-> data.refs, subs |-> subs]
<1>1. cache \in [Keys -> CacheEntry \cup {None}]
  BY DEF TypeOK, CollectorsTypeOK
<1>2. cache' = [cache EXCEPT ![key] = new]
  BY DEF Refresh
<1>3. new.hash[2] = data /\ new.subs = subs /\ new.refs = data.refs /\ new # None
  <2>1. <<key, inc>> \in Uid /\ data.refs \in SUBSET Owners
    BY DEF Uid, Data
  <2>2. Cached(key) => cache[key].uid \in Uid
    BY <1>1 DEF Cached, CacheEntry
  <2>3. new \in CacheEntry
    BY <2>1, <2>2 DEF CacheEntry, Hash
  <2>4. QED
    BY <2>3, NoneAssumption
<1>4. PICK refs, evts : EventLoop(kind, key, refs, evts)
  BY DEF Refresh
<1>5. ~Reading(kind)' /\ Alone(kind)
  BY <1>4, LoopAlone
<1>6. QED
  BY <1>1, <1>2, <1>3, <1>5

LEMMA ForgetEnds ==
  ASSUME TypeOK, NEW kind \in Kinds, NEW key \in Keys, Forget(kind, key)
  PROVE  /\ ~Reading(kind)' /\ Alone(kind)
         /\ \A k \in Keys \ {key} : cache'[k] = cache[k]
         /\ cache'[key] = None
<1>1. cache \in [Keys -> CacheEntry \cup {None}] /\ work \in [Kinds -> WorkType]
  BY DEF TypeOK, CollectorsTypeOK
<1>2. CASE Cached(key)
  <2>1. cache' = [cache EXCEPT ![key] = None]
    BY <1>2 DEF Forget
  <2>2. PICK refs, evts : EventLoop(kind, key, refs, evts)
    BY <1>2 DEF Forget
  <2>3. ~Reading(kind)' /\ Alone(kind)
    BY <2>2, LoopAlone
  <2>4. QED
    BY <1>1, <2>1, <2>3
<1>3. CASE ~Cached(key)
  <2>1. /\ work' = [work EXCEPT ![kind] = WorkIdle]
        /\ UNCHANGED <<cache, triggers>>
    BY <1>3 DEF Forget
  <2>2. QED
    BY <1>1, <1>3, <2>1 DEF Alone, Reading, WorkIdle, Cached
<1>4. QED
  BY <1>2, <1>3

\* The cases of a reconcile.
LEMMA Turns ==
  ASSUME TypeOK, Lineage, NEW kind \in Kinds, Reconcile(kind)
  PROVE  /\ \/ \E key \in Keys : Starts(kind, key) \/ Clears(kind, key)
            \/ GoesOn(kind) \/ Ends(kind) \/ Requeues(kind) \/ Delivers(kind)
         /\ Alone(kind)
         /\ UNCHANGED <<store, registry, disp>>
<1> DEFINE w == work[kind]
           Goal == /\ \/ \E key \in Keys : Starts(kind, key) \/ Clears(kind, key)
                      \/ GoesOn(kind) \/ Ends(kind) \/ Requeues(kind) \/ Delivers(kind)
                   /\ Alone(kind)
                   /\ UNCHANGED <<store, registry, disp>>
<1>1. /\ work \in [Kinds -> WorkType] /\ cache \in [Keys -> CacheEntry \cup {None}]
  BY DEF TypeOK, CollectorsTypeOK
<1>2. UNCHANGED <<store, registry, disp>>
  BY DEF Reconcile, WorkerStep, Get, ReadPodSubscribers, RefreshPod, NamespaceMissing, Requeue,
     ReadFails, ListRelatedPods, CollectNode, PushEvent, clusterVars
<1>3. ASSUME NEW record, work' = [work EXCEPT ![kind] = record], UNCHANGED triggers
      PROVE  work'[kind] = record /\ Alone(kind)
  BY <1>1, <1>3 DEF Alone
<1>4. WorkIdle.pc = "idle"
  BY DEF WorkIdle
<1>5. ASSUME NEW key \in Keys, Get(kind, key)
      PROVE  Goal
  <2>1. /\ ~Reading(kind) /\ Kind(key) = kind /\ dirty' = dirty \ {key}
    BY <1>5 DEF Get, Reading
  <2>2. CASE Exists(key)
    <3>1. /\ work' = [work EXCEPT ![kind] =
                        [WorkIdle EXCEPT !.pc = IF kind = "Pod" THEN "subs" ELSE "list",
                                         !.key = key, !.obj = store[key]]]
          /\ UNCHANGED <<cache, triggers>>
      BY <1>5, <2>2 DEF Get
    <3>2. /\ work'[kind].pc = IF kind = "Pod" THEN "subs" ELSE "list"
          /\ work'[kind].key = key /\ work'[kind].obj = store[key] /\ work'[kind].subs = {}
          /\ Alone(kind)
      BY <1>3, <3>1 DEF WorkIdle
    <3>3. Starts(kind, key)
      BY <2>1, <2>2, <3>1, <3>2 DEF Starts, Reading
    <3>4. QED
      BY <1>2, <3>2, <3>3
  <2>3. CASE ~Exists(key)
    <3>1. Forget(kind, key)
      BY <1>5, <2>3 DEF Get
    <3>2. /\ ~Reading(kind)' /\ Alone(kind) /\ cache'[key] = None
          /\ \A k \in Keys \ {key} : cache'[k] = cache[k]
      BY <3>1, ForgetEnds
    <3>3. Clears(kind, key)
      BY <2>1, <2>3, <3>2 DEF Clears, Cached
    <3>4. QED
      BY <1>2, <3>2, <3>3
  <2>4. QED
    BY <2>2, <2>3
<1>6. CASE kind = "Pod" /\ ReadPodSubscribers
  <2> DEFINE subs == SubscribersPerNode("Pod", w.obj.node)
  <2>1. w.pc = "subs" /\ Reading(kind) /\ w \in WorkRead /\ UNCHANGED <<dirty, triggers>>
    BY <1>6, WorkPhases DEF ReadPodSubscribers, Reading, queueVars
  <2>2. CASE subs = {}
    <3>1. /\ work' = [work EXCEPT ![kind] = WorkIdle]
          /\ cache' = [cache EXCEPT ![w.key] = None]
      BY <1>6, <2>2 DEF ReadPodSubscribers
    <3>2. ~Reading(kind)' /\ Alone(kind)
      BY <1>3, <1>4, <2>1, <3>1 DEF Reading
    <3>3. Ends(kind)
      BY <1>1, <1>6, <2>1, <2>2, <3>1, <3>2, WorkPhases DEF Ends
    <3>4. QED
      BY <1>2, <3>2, <3>3
  <2>3. CASE subs # {}
    <3>1. /\ work' = [work EXCEPT ![kind] = [w EXCEPT !.pc = "refs", !.subs = subs]]
          /\ UNCHANGED cache
      BY <1>1, <1>6, <2>3 DEF ReadPodSubscribers
    <3>2. work'[kind] = [w EXCEPT !.pc = "refs", !.subs = subs] /\ Alone(kind)
      BY <1>3, <2>1, <3>1
    <3>3. /\ work'[kind].pc = "refs" /\ work'[kind].subs = subs
          /\ work'[kind].key = w.key /\ work'[kind].obj = w.obj
      BY <2>1, <3>2 DEF WorkRead
    <3>4. GoesOn(kind)
      BY <1>6, <2>1, <3>1, <3>3 DEF GoesOn, Reading
    <3>5. QED
      BY <1>2, <3>2, <3>4
  <2>4. QED
    BY <2>2, <2>3
<1>7. CASE kind = "Pod" /\ RefreshPod
  <2>1. w.pc = "refs" /\ Reading(kind) /\ UNCHANGED dirty /\ kind = "Pod"
    BY <1>7 DEF RefreshPod, Reading
  <2>2. w.key \in Keys /\ w.key \in Pods /\ w.obj \in Object /\ w.subs \in SUBSET Subs
    BY <2>1, WorkPhases
  <2>3. PICK key \in Keys, inc \in Nat, subs \in SUBSET Subs, data \in Data :
          /\ key = w.key /\ inc = w.obj.inc /\ subs = w.subs
          /\ data = [ver |-> w.obj.ver, refs |-> PodRefs(w.key)]
    BY <2>2, RelationsAssumption DEF Object, Data, PodRefs
  <2>4. Refresh(kind, key, <<key, inc>>, data, subs)
    BY <1>7, <2>3 DEF RefreshPod
  <2>5. /\ ~Reading(kind)' /\ Alone(kind)
        /\ \A k \in Keys \ {key} : cache'[k] = cache[k]
        /\ cache'[key] # None /\ cache'[key].hash[2] = data /\ cache'[key].subs = subs
        /\ cache'[key].refs = data.refs
    BY <2>4, RefreshEnds
  <2>6. data.ver = w.obj.ver /\ data.refs = PodRefs(w.key)
    BY <2>3
  <2>7. Ends(kind)
    BY <2>1, <2>3, <2>5, <2>6 DEF Ends
  <2>8. QED
    BY <1>2, <2>5, <2>7
<1>8. ASSUME Reading(kind), Requeue(kind)
      PROVE  Goal
  <2>1. /\ work' = [work EXCEPT ![kind] = WorkIdle] /\ dirty' = dirty \cup {w.key}
        /\ UNCHANGED <<triggers, cache>>
    BY <1>8 DEF Requeue, Enqueue
  <2>2. ~Reading(kind)' /\ Alone(kind)
    BY <1>3, <1>4, <2>1 DEF Reading
  <2>3. QED
    BY <1>2, <1>8, <2>1, <2>2 DEF Requeues
<1>9. CASE (kind = "Pod" /\ NamespaceMissing) \/ ReadFails(kind)
  BY <1>8, <1>9 DEF NamespaceMissing, ReadFails, Reading
<1>10. ASSUME NEW todo, NEW subs \in SUBSET Subs, w.pc \in {"list", "nodes"},
              Visited(kind, todo, subs), Visit(kind, todo, subs), UNCHANGED dirty
       PROVE  Goal
  <2>1. Reading(kind) /\ w.key \in Owners /\ w.key \in Keys /\ w.obj \in Object /\ w \in WorkRead
    BY <1>10, WorkPhases DEF Reading
  <2>2. kind # "Pod"
    <3>1. Kind(w.key) = kind
      BY <2>1 DEF Lineage, Job
    <3>2. QED
      BY <2>1, <3>1, KindType, KeysAssumption DEF Keys
  <2>3. CASE todo # {}
    <3>1. /\ work' = [work EXCEPT ![kind] = [w EXCEPT !.pc = "nodes", !.todo = todo, !.subs = subs]]
          /\ UNCHANGED <<cache, triggers>>
      BY <1>10, <2>3 DEF Visit
    <3>2. work'[kind] = [w EXCEPT !.pc = "nodes", !.todo = todo, !.subs = subs] /\ Alone(kind)
      BY <1>3, <3>1
    <3>3. /\ work'[kind].pc = "nodes" /\ work'[kind].key = w.key /\ work'[kind].obj = w.obj
          /\ work'[kind].todo = todo /\ work'[kind].subs = subs
      BY <2>1, <3>2 DEF WorkRead
    <3>4. GoesOn(kind)
      BY <1>10, <2>1, <2>2, <3>1, <3>3 DEF GoesOn, Reading
    <3>5. QED
      BY <1>2, <3>2, <3>4
  <2>4. CASE todo = {} /\ subs = {}
    <3>1. PICK key \in Keys : key = w.key
      BY <2>1
    <3>2. Forget(kind, key)
      BY <1>10, <2>4, <3>1 DEF Visit
    <3>3. /\ ~Reading(kind)' /\ Alone(kind) /\ cache'[key] = None
          /\ \A k \in Keys \ {key} : cache'[k] = cache[k]
      BY <3>2, ForgetEnds
    <3>4. Visited(kind, {}, IF cache'[w.key] = None THEN {} ELSE cache'[w.key].subs)
      <4>1. (IF cache'[w.key] = None THEN {} ELSE cache'[w.key].subs) = subs
        BY <2>4, <3>1, <3>3
      <4>2. QED
        BY <1>10, <2>4, <4>1
    <3>5. Ends(kind)
      BY <1>10, <2>1, <2>2, <3>1, <3>3, <3>4 DEF Ends
    <3>6. QED
      BY <1>2, <3>3, <3>5
  <2>5. CASE todo = {} /\ subs # {}
    <3>1. PICK key \in Keys, inc \in Nat, data \in Data :
            key = w.key /\ inc = w.obj.inc /\ data = [ver |-> w.obj.ver, refs |-> {}]
      BY <2>1 DEF Object, Data
    <3>2. Refresh(kind, key, <<key, inc>>, data, subs)
      BY <1>10, <2>5, <3>1 DEF Visit
    <3>3. /\ ~Reading(kind)' /\ Alone(kind)
          /\ \A k \in Keys \ {key} : cache'[k] = cache[k]
          /\ cache'[key] # None /\ cache'[key].hash[2] = data /\ cache'[key].subs = subs
          /\ cache'[key].refs = data.refs
      BY <3>2, RefreshEnds
    <3>4. Visited(kind, {}, IF cache'[w.key] = None THEN {} ELSE cache'[w.key].subs)
      <4>1. (IF cache'[w.key] = None THEN {} ELSE cache'[w.key].subs) = subs
        BY <2>5, <3>1, <3>3
      <4>2. QED
        BY <1>10, <2>5, <4>1
    <3>5. Ends(kind)
      BY <1>10, <2>1, <2>2, <3>1, <3>3, <3>4 DEF Ends
    <3>6. QED
      BY <1>2, <3>3, <3>5
  <2>6. QED
    BY <2>3, <2>4, <2>5
<1>11. CASE ListRelatedPods(kind)
  BY <1>10, <1>11 DEF ListRelatedPods, Visited
<1>12. ASSUME NEW placed \in Pods \X Nodes, CollectNode(kind, placed)
       PROVE  Goal
  <2>1. placed[2] \in Nodes /\ registry \in [Kinds -> [Nodes -> SUBSET Subs]] /\ w.pc = "nodes"
    BY <1>12 DEF CollectNode, TypeOK, DispatcherTypeOK
  <2>2. w.subs \in SUBSET Subs
    BY <2>1, WorkPhases DEF Reading
  <2>3. w.subs \cup SubscribersPerNode(kind, placed[2]) \in SUBSET Subs
    BY <2>1, <2>2 DEF SubscribersPerNode
  <2>4. PICK todo, subs : /\ todo = w.todo \ {placed} /\ placed \in w.todo
                          /\ subs = w.subs \cup SubscribersPerNode(kind, placed[2])
    BY <1>12 DEF CollectNode
  <2>5. Visited(kind, todo, subs)
    BY <2>1, <2>4 DEF Visited
  <2>6. Visit(kind, todo, subs) /\ UNCHANGED dirty
    BY <1>12, <2>4 DEF CollectNode
  <2>7. QED
    BY <1>10, <2>1, <2>3, <2>4, <2>5, <2>6
<1>13. CASE PushEvent(kind)
  <2>1. w.pc = "push" /\ UNCHANGED <<cache, dirty>>
    BY <1>13 DEF PushEvent
  <2>2. PICK key, refs, evts : EventLoop(kind, key, refs, evts)
    BY <1>13 DEF PushEvent
  <2>3. ~Reading(kind)' /\ Alone(kind)
    BY <2>2, LoopAlone
  <2>4. QED
    BY <1>2, <2>1, <2>3 DEF Delivers, Reading
<1>14. QED
  BY <1>5, <1>6, <1>7, <1>9, <1>11, <1>12, <1>13 DEF Reconcile, WorkerStep

-----------------------------------------------------------------------------
(***************************************************************************)
(* What the cache knows of a resource.                                     *)
(***************************************************************************)

\* A step that is not one of a worker: a resource that changes is to be
\* reconciled, and no request for it is lost.
Outside(key) ==
  /\ UNCHANGED <<work, cache>>
  /\ key \in dirty => key \in dirty'
  /\ triggers[key] > 0 => triggers'[key] > 0 \/ key \in dirty'
  /\ store'[key] # store[key]
       /\ PassesFilter(key, IF Exists(key)' THEN store'[key] ELSE store[key]) => key \in dirty'

LEMMA OutsideStep ==
  ASSUME TypeOK, [Next]_vars, NEW key \in Keys
  PROVE  (\E kind \in Kinds : Reconcile(kind)) \/ Outside(key)
<1>1. /\ store \in [Keys -> Object \cup {None}] /\ triggers \in [Keys -> Nat]
      /\ dirty \in SUBSET Keys
  BY DEF TypeOK, ClusterTypeOK, WorkQueueTypeOK
<1>2. ASSUME NEW keys, Trigger(keys)
      PROVE  triggers[key] > 0 => triggers'[key] > 0
  <2>1. triggers[key] \in Nat /\ triggers'[key] \in {triggers[key], triggers[key] + 1}
    BY <1>1, <1>2 DEF Trigger
  <2>2. QED
    BY <2>1
<1>3. ASSUME ClusterStep
      PROVE  Outside(key)
  <2>1. ASSUME NEW k \in Keys, NEW obj, NEW seen, Observe(k, obj, seen),
               seen = IF obj = None THEN store[k] ELSE obj
        PROVE  Outside(key)
    <3>1. dirty \subseteq dirty' /\ triggers' = triggers
      BY <2>1 DEF Observe, Enqueue
    <3>2. store'[key] # store[key]
            /\ PassesFilter(key, IF Exists(key)' THEN store'[key] ELSE store[key]) => key \in dirty'
      <4>1. CASE k = key
        <5>1. store'[key] = obj
          BY <1>1, <2>1, <4>1 DEF Observe
        <5>2. QED
          BY <2>1, <4>1, <5>1 DEF Observe, Enqueue, Exists
      <4>2. CASE k # key
        BY <1>1, <2>1, <4>2 DEF Observe
      <4>3. QED
        BY <4>1, <4>2
    <3>3. UNCHANGED <<work, cache>>
      BY <1>3 DEF ClusterStep
    <3>4. QED
      BY <3>1, <3>2, <3>3 DEF Outside
  <2>2. ASSUME NEW k \in Keys, NEW node \in Nodes \cup {None}, CreateObject(k, node)
        PROVE  Outside(key)
    <3>1. PICK obj \in Object : obj = NewObject(born[k] + 1, node)
      <4>1. PICK inc \in Nat : inc = born[k] + 1
        BY DEF TypeOK, ClusterTypeOK
      <4>2. NewObject(inc, node) \in Object
        BY DEF NewObject, Object
      <4>3. QED
        BY <4>1, <4>2
    <3>2. QED
      BY <2>1, <2>2, <3>1, NoneAssumption DEF CreateObject
  <2>3. ASSUME NEW k \in Pods, NEW node \in Nodes, SchedulePod(k, node)
        PROVE  Outside(key)
    <3>1. PICK obj \in Object : obj = [store[k] EXCEPT !.node = node]
      BY <1>1, <2>3 DEF SchedulePod, Exists, Object, Keys
    <3>2. QED
      BY <2>1, <2>3, <3>1, NoneAssumption DEF SchedulePod, Keys
  <2>4. ASSUME NEW k \in Keys, UpdateObject(k)
        PROVE  Outside(key)
    <3>1. PICK obj \in Object : obj = [store[k] EXCEPT !.ver = @ + 1]
      BY <1>1, <2>4 DEF UpdateObject, Exists, Object
    <3>2. QED
      BY <2>1, <2>4, <3>1, NoneAssumption DEF UpdateObject
  <2>5. ASSUME NEW k \in Keys, DeleteObject(k)
        PROVE  Outside(key)
    <3>1. PICK seen : seen = store[k]
      OBVIOUS
    <3>2. QED
      BY <2>1, <2>5, <3>1 DEF DeleteObject
  <2>6. QED
    BY <1>3, <2>2, <2>3, <2>4, <2>5 DEF ClusterStep, ClusterNext
<1>4. ASSUME NEW kind \in Kinds, Dispatch(kind)
      PROVE  Outside(key)
  <2>1. UNCHANGED <<store, work, cache, dirty>>
    BY <1>4 DEF Dispatch, DispatcherStep, UpdateRegistry, ListPods, ListPodsFails, DispatchPod,
       DispatchPodFails, clusterVars, queueVars
  <2>2. UNCHANGED triggers \/ \E keys : Trigger(keys)
    BY <1>4 DEF Dispatch, DispatcherStep, UpdateRegistry, ListPods, ListPodsFails, DispatchPod,
       DispatchPodFails, Request, queueVars
  <2>3. QED
    BY <1>2, <2>1, <2>2 DEF Outside
<1>5. ASSUME DispatchSlices
      PROVE  Outside(key)
  <2>1. UNCHANGED <<store, work, cache, dirty>>
    BY <1>5 DEF DispatchSlices, SliceStep, ReconcileSlice, TriggerPod, TriggerService, clusterVars,
       queueVars
  <2>2. UNCHANGED triggers \/ \E keys : Trigger(keys)
    BY <1>5 DEF DispatchSlices, SliceStep, ReconcileSlice, TriggerPod, TriggerService, Request,
       queueVars
  <2>3. QED
    BY <1>2, <2>1, <2>2 DEF Outside
<1>6. ASSUME SliceChanges
      PROVE  Outside(key)
  BY <1>6 DEF SliceChanges, ChangeSlice, Enqueue, Outside, clusterVars
<1>7. ASSUME NEW k \in Keys, DeliverTrigger(k)
      PROVE  Outside(key)
  <2>1. UNCHANGED <<store, work, cache>> /\ dirty' = dirty \cup {k}
    BY <1>7 DEF DeliverTrigger, Deliver, Enqueue, clusterVars
  <2>2. triggers'[key] = triggers[key] \/ k = key
    BY <1>1, <1>7 DEF DeliverTrigger, Deliver
  <2>3. QED
    BY <2>1, <2>2 DEF Outside
<1>8. CASE \/ \E sub \in Subs : StartWatch(sub) \/ EndStream(sub) \/ LeaveWatch(sub)
           \/ \E sub \in Subs, kind \in Kinds : Notify(sub, kind)
           \/ BrokerStep
           \/ UNCHANGED vars
  <2>1. UNCHANGED <<store, work, cache, dirty, triggers>>
    BY <1>8 DEF StartWatch, EndStream, LeaveWatch, Notify, BrokerStep, vars, clusterVars, queueVars
  <2>2. QED
    BY <2>1 DEF Outside
<1>9. QED
  BY <1>3, <1>4, <1>5, <1>6, <1>7, <1>8 DEF Next

\* A worker does not lose track of a resource.
LEMMA TrackedWorker ==
  ASSUME TypeOK, Lineage, NEW key \in Keys, Cleared(key), Tracked(key),
         NEW kind \in Kinds, Reconcile(kind)
  PROVE  Cleared(key)' /\ Tracked(key)'
<1> DEFINE w == work[kind]
<1>1. UNCHANGED store /\ Alone(kind) /\ Kind(key) \in Kinds
  BY Turns, KindType
<1>2. ASSUME cache'[key] = cache[key], Reads(key)' <=> Reads(key),
             Reads(key) => work'[Kind(key)].obj = work[Kind(key)].obj,
             key \in dirty => key \in dirty'
      PROVE  Cleared(key)' /\ Tracked(key)'
  <2>1. Subscribers(key)' = Subscribers(key) /\ (Cached(key)' <=> Cached(key)) /\ Saved(key)' = Saved(key)
    BY <1>2 DEF Subscribers, Cached, Saved
  <2>2. Exists(key)' <=> Exists(key)
    BY <1>1 DEF Exists
  <2>3. Cleared(key)'
    BY <1>1, <1>2, <2>1, <2>2 DEF Cleared, PassesFilter
  <2>4. Tracked(key)'
    BY <1>1, <1>2, <2>1, <2>2 DEF Tracked, PassesFilter
  <2>5. QED
    BY <2>3, <2>4
<1>3. Reading(kind) => Kind(w.key) = kind /\ w.key \in Keys
  BY WorkPhases DEF Lineage, Job
<1>4. ASSUME NEW k \in Keys, Starts(kind, k)
      PROVE  Cleared(key)' /\ Tracked(key)'
  <2>1. CASE k = key
    <3>1. Exists(key)' /\ Reads(key)' /\ work'[Kind(key)].obj = store'[key]
      BY <1>1, <1>4, <2>1 DEF Starts, Exists, Reads
    <3>2. QED
      BY <3>1 DEF Cleared, Tracked
  <2>2. CASE k # key
    <3>1. /\ cache'[key] = cache[key] /\ (key \in dirty => key \in dirty')
      BY <1>4, <2>2 DEF Starts
    <3>2. CASE Kind(key) = kind
      <4>1. ~Reads(key) /\ ~Reads(key)'
        BY <1>4, <2>2, <3>2 DEF Starts, Reads
      <4>2. QED
        BY <1>2, <3>1, <4>1
    <3>3. CASE Kind(key) # kind
      BY <1>1, <1>2, <3>1, <3>3 DEF Alone, Reads, Reading
    <3>4. QED
      BY <3>2, <3>3
  <2>3. QED
    BY <2>1, <2>2
<1>5. ASSUME NEW k \in Keys, Clears(kind, k)
      PROVE  Cleared(key)' /\ Tracked(key)'
  <2>1. CASE k = key
    <3>1. ~Exists(key)' /\ ~Reads(key)' /\ Subscribers(key)' = {}
      BY <1>1, <1>5, <2>1 DEF Clears, Exists, Reads, Subscribers
    <3>2. QED
      BY <3>1 DEF Cleared, Tracked
  <2>2. CASE k # key
    <3>1. /\ cache'[key] = cache[key] /\ (key \in dirty => key \in dirty')
      BY <1>5, <2>2 DEF Clears
    <3>2. CASE Kind(key) = kind
      <4>1. ~Reads(key) /\ ~Reads(key)'
        BY <1>5, <2>2, <3>2 DEF Clears, Reads
      <4>2. QED
        BY <1>2, <3>1, <4>1
    <3>3. CASE Kind(key) # kind
      BY <1>1, <1>2, <3>1, <3>3 DEF Alone, Reads, Reading
    <3>4. QED
      BY <3>2, <3>3
  <2>3. QED
    BY <2>1, <2>2
<1>6. CASE GoesOn(kind)
  <2>1. UNCHANGED <<cache, dirty>>
    BY <1>6 DEF GoesOn
  <2>2. CASE Kind(key) = kind
    BY <1>2, <1>6, <2>1, <2>2 DEF GoesOn, Reads
  <2>3. CASE Kind(key) # kind
    BY <1>1, <1>2, <2>1, <2>3 DEF Alone, Reads, Reading
  <2>4. QED
    BY <2>2, <2>3
<1>7. CASE Delivers(kind)
  <2>1. UNCHANGED <<cache, dirty>>
    BY <1>7 DEF Delivers
  <2>2. CASE Kind(key) = kind
    BY <1>2, <1>7, <2>1, <2>2 DEF Delivers, Reads
  <2>3. CASE Kind(key) # kind
    BY <1>1, <1>2, <2>1, <2>3 DEF Alone, Reads, Reading
  <2>4. QED
    BY <2>2, <2>3
<1>8. CASE Ends(kind) \/ Requeues(kind)
  <2>1. Reading(kind) /\ ~Reading(kind)' /\ dirty \subseteq dirty'
    BY <1>8 DEF Ends, Requeues
  <2>2. CASE key # w.key
    <3>1. cache'[key] = cache[key] /\ (key \in dirty => key \in dirty')
      BY <1>8, <2>1, <2>2 DEF Ends, Requeues
    <3>2. CASE Kind(key) = kind
      BY <1>2, <2>1, <2>2, <3>1, <3>2 DEF Reads
    <3>3. CASE Kind(key) # kind
      BY <1>1, <1>2, <3>1, <3>3 DEF Alone, Reads, Reading
    <3>4. QED
      BY <3>2, <3>3
  <2>3. CASE key = w.key /\ Requeues(kind)
    <3>1. key \in dirty'
      BY <2>3 DEF Requeues
    <3>2. QED
      BY <3>1 DEF Cleared, Tracked
  <2>4. CASE key = w.key /\ Ends(kind)
    <3>1. Kind(key) = kind /\ Reads(key) /\ ~Reads(key)' /\ UNCHANGED dirty
      BY <1>3, <2>1, <2>4 DEF Reads, Ends
    <3>2. /\ Exists(key)' <=> Exists(key)
          /\ PassesFilter(key, store[key])' <=> PassesFilter(key, store[key])
      BY <1>1 DEF Exists, PassesFilter
    <3>3. Tracked(key)'
      <4>1. Exists(key) /\ PassesFilter(key, store[key]) /\ key \notin dirty => w.obj = store[key]
        BY <3>1 DEF Tracked
      <4>2. cache'[key] # None => cache'[key].hash[2].ver = w.obj.ver
        BY <2>4 DEF Ends
      <4>3. QED
        BY <1>1, <3>1, <3>2, <4>1, <4>2 DEF Tracked, Cached, Saved
    <3>4. ASSUME Subscribers(key)' # {}
          PROVE  PassesFilter(key, w.obj)
      <4>1. CASE key \in Pods
        <5>1. kind = "Pod"
          BY <3>1, <4>1 DEF Kind
        <5>2. cache'[key] # None /\ cache'[key].subs = w.subs
          BY <2>4, <3>4, <5>1 DEF Ends, Subscribers, Cached
        <5>3. PICK sub \in w.subs : TRUE
          BY <3>4, <5>2 DEF Subscribers, Cached
        <5>4. sub \in Subs
          BY <2>1, WorkPhases
        <5>5. w.obj.node = NodeOf[sub]
          BY <2>1, <5>1 DEF Lineage, Job
        <5>6. QED
          BY <5>4, <5>5, SubscribersAssumption, KeysAssumption DEF PassesFilter
      <4>2. CASE key \notin Pods
        BY <4>2 DEF PassesFilter
      <4>3. QED
        BY <4>1, <4>2
    <3>5. Cleared(key)'
      BY <3>1, <3>2, <3>4 DEF Cleared
    <3>6. QED
      BY <3>3, <3>5
  <2>5. QED
    BY <1>8, <2>2, <2>3, <2>4
<1>9. QED
  BY <1>4, <1>5, <1>6, <1>7, <1>8, Turns

\* No step loses track of a resource.
LEMMA TrackedStep ==
  ASSUME TypeOK, Lineage, [Next]_vars, NEW key \in Keys, Cleared(key), Tracked(key)
  PROVE  Cleared(key)' /\ Tracked(key)'
<1>1. CASE Outside(key)
  <2>1. /\ Subscribers(key)' = Subscribers(key) /\ (Cached(key)' <=> Cached(key))
        /\ Saved(key)' = Saved(key) /\ (Reads(key)' <=> Reads(key))
        /\ work' = work /\ (key \in dirty => key \in dirty')
    BY <1>1 DEF Outside, Subscribers, Cached, Saved, Reads, Reading
  <2>2. CASE store'[key] = store[key]
    <3>1. Exists(key)' <=> Exists(key)
      BY <2>2 DEF Exists
    <3>2. QED
      BY <2>1, <2>2, <3>1 DEF Cleared, Tracked, PassesFilter
  <2>3. CASE store'[key] # store[key]
    <3>1. Tracked(key)'
      BY <1>1, <2>3 DEF Outside, Tracked, PassesFilter
    <3>2. ASSUME ~Exists(key)', Subscribers(key) # {} \/ (Reads(key) /\ PassesFilter(key, work[Kind(key)].obj))
          PROVE  key \in dirty'
      <4>1. Exists(key)
        BY <2>3, <3>2 DEF Exists
      <4>2. CASE Subscribers(key) # {}
        <5>1. PICK sub \in Subscribers(key) : TRUE
          BY <4>2
        <5>2. Cached(key) /\ sub \in cache[key].subs
          BY <5>1 DEF Subscribers
        <5>3. Fits(key, sub) /\ sub \in Subs
          BY <5>2 DEF Lineage, Entry, TypeOK, CollectorsTypeOK, Cached, CacheEntry
        <5>4. PassesFilter(key, store[key])
          BY <4>1, <5>3, SubscribersAssumption, KeysAssumption DEF Fits, PassesFilter
        <5>5. QED
          BY <1>1, <2>3, <3>2, <5>4 DEF Outside
      <4>3. CASE Reads(key) /\ PassesFilter(key, work[Kind(key)].obj)
        <5>1. Older(key, work[Kind(key)].obj)
          BY <4>3, KindType DEF Lineage, Job, Reads
        <5>2. PassesFilter(key, store[key])
          BY <4>1, <4>3, <5>1 DEF Older, PassesFilter
        <5>3. QED
          BY <1>1, <2>3, <3>2, <5>2 DEF Outside
      <4>4. QED
        BY <3>2, <4>2, <4>3
    <3>3. Cleared(key)'
      BY <2>1, <3>2 DEF Cleared
    <3>4. QED
      BY <3>1, <3>3
  <2>4. QED
    BY <2>2, <2>3
<1>2. QED
  BY <1>1, OutsideStep, TrackedWorker

-----------------------------------------------------------------------------
(***************************************************************************)
(* The pods of a subscriber's node.                                        *)
(***************************************************************************)

\* Faults are counted.
LEMMA FaultsStep ==
  ASSUME TypeOK, [Next]_vars, NoDispatchFault'
  PROVE  NoDispatchFault
<1>1. faults \in Nat
  BY ClusterAssumption DEF TypeOK, ClusterTypeOK
<1>2. faults' = faults \/ faults' = faults + 1
  BY DEF Next, ClusterStep, ClusterNext, CreateObject, SchedulePod, UpdateObject, DeleteObject,
     Observe, SliceChanges, ChangeSlice, DispatchSlices, SliceStep, ReconcileSlice, TriggerPod,
     TriggerService, DeliverTrigger, Dispatch, DispatcherStep, UpdateRegistry, ListPods,
     ListPodsFails, DispatchPod, DispatchPodFails, Reconcile, WorkerStep, Get, ReadPodSubscribers,
     RefreshPod, NamespaceMissing, Requeue, ReadFails, ListRelatedPods, CollectNode, PushEvent,
     Fault, StartWatch, EndStream, LeaveWatch, Notify, BrokerStep, vars, clusterVars
<1>3. QED
  BY <1>1, <1>2 DEF NoDispatchFault

\* A worker finds the subscribers that a pod is due to.
LEMMA AwaitedWorker ==
  ASSUME TypeOK, Lineage, NEW pod \in Pods, NEW sub \in Subs, Tracked(pod), Awaited(pod, sub),
         NEW kind \in Kinds, Reconcile(kind), NoDispatchFault' => NoDispatchFault
  PROVE  Awaited(pod, sub)'
<1> DEFINE w == work["Pod"]
<1> SUFFICES ASSUME Due(pod, sub)', pod \notin dirty', ~(triggers'[pod] > 0),
                    ~Requesting(pod, sub)'
             PROVE  Finding(pod, sub)'
  BY DEF Awaited
<1>1. UNCHANGED <<store, registry, disp>> /\ Alone(kind) /\ pod \in Keys /\ Kind(pod) = "Pod"
  BY Turns DEF Keys, Kind
<1>2. Due(pod, sub) /\ ~(triggers[pod] > 0) /\ ~Requesting(pod, sub)
  BY <1>1 DEF Due, Exists, Alone, Requesting
<1>3. pod \in dirty \/ Finding(pod, sub)
  BY <1>2 DEF Awaited
<1>4. Reading(kind) => Kind(work[kind].key) = kind /\ work[kind].key \in Keys
  BY WorkPhases DEF Lineage, Job
<1>5. CASE kind # "Pod"
  <2>1. work'["Pod"] = w /\ "Pod" \in Kinds
    BY <1>1, <1>5 DEF Alone, Kinds
  <2>2. cache'[pod] = cache[pod] /\ pod \notin dirty
    <3>1. ASSUME NEW k \in Keys, Starts(kind, k) \/ Clears(kind, k)
          PROVE  cache'[pod] = cache[pod] /\ pod \notin dirty
      BY <1>1, <1>5, <3>1 DEF Starts, Clears
    <3>2. CASE Ends(kind) \/ Requeues(kind)
      BY <1>1, <1>4, <1>5, <3>2 DEF Ends, Requeues
    <3>3. CASE GoesOn(kind) \/ Delivers(kind)
      BY <3>3 DEF GoesOn, Delivers
    <3>4. QED
      BY <3>1, <3>2, <3>3, Turns
  <2>3. QED
    BY <1>1, <1>3, <2>1, <2>2 DEF Finding, Reads, Reading, Subscribers, Cached
<1>6. CASE kind = "Pod"
  <2>1. ASSUME cache'[pod] = cache[pod], ~Reads(pod), ~Reads(pod)', pod \notin dirty
        PROVE  Finding(pod, sub)'
    BY <1>3, <2>1 DEF Finding, Subscribers, Cached
  <2>2. ASSUME NEW k \in Keys, Starts(kind, k)
        PROVE  Finding(pod, sub)'
    <3>1. CASE k = pod
      BY <1>1, <1>6, <2>2, <3>1 DEF Starts, Finding, Reads
    <3>2. CASE k # pod
      BY <1>1, <1>6, <2>1, <2>2, <3>2 DEF Starts, Reads
    <3>3. QED
      BY <3>1, <3>2
  <2>3. ASSUME NEW k \in Keys, Clears(kind, k)
        PROVE  Finding(pod, sub)'
    <3>1. k # pod
      BY <1>2, <2>3 DEF Clears, Due
    <3>2. QED
      BY <1>1, <1>6, <2>1, <2>3, <3>1 DEF Clears, Reads
  <2>4. CASE Delivers(kind)
    BY <1>1, <1>6, <2>1, <2>4 DEF Delivers, Reads
  <2>5. ASSUME Reads(pod), pod \notin dirty
        PROVE  sub \in SubscribersPerNode("Pod", w.obj.node)
    <3>1. NodeOf[sub] # None
      BY SubscribersAssumption, KeysAssumption
    <3>2. w.obj = store[pod]
      BY <1>1, <1>2, <2>5, <3>1 DEF Tracked, Due, PassesFilter
    <3>3. QED
      BY <1>2, <3>1, <3>2 DEF Due, SubscribersPerNode
  <2>6. CASE GoesOn(kind)
    <3>1. UNCHANGED <<cache, dirty>>
      BY <2>6 DEF GoesOn
    <3>2. CASE Reads(pod)
      BY <1>1, <1>6, <2>5, <2>6, <3>1, <3>2 DEF GoesOn, Finding, Reads
    <3>3. CASE ~Reads(pod)
      BY <1>1, <1>6, <2>1, <2>6, <3>1, <3>3 DEF GoesOn, Reads
    <3>4. QED
      BY <3>2, <3>3
  <2>7. CASE Ends(kind)
    <3>1. CASE Reads(pod)
      <4>1. pod = w.key /\ pod \notin dirty
        BY <1>1, <2>7, <3>1 DEF Reads, Ends
      <4>2. cache'[pod] # None /\ cache'[pod].subs = w.subs
        BY <1>6, <2>5, <2>7, <3>1, <4>1 DEF Ends
      <4>3. w.pc # "subs"
        BY <1>6, <2>5, <2>7, <3>1, <4>1 DEF Ends
      <4>4. sub \in w.subs
        BY <1>3, <3>1, <4>1, <4>3 DEF Finding
      <4>5. ~Reads(pod)'
        BY <1>1, <1>6, <2>7 DEF Ends, Reads
      <4>6. QED
        BY <4>2, <4>4, <4>5 DEF Finding, Subscribers, Cached
    <3>2. CASE ~Reads(pod)
      <4>1. pod # w.key
        BY <1>1, <1>6, <2>7, <3>2 DEF Ends, Reads
      <4>2. QED
        BY <1>1, <1>6, <2>1, <2>7, <3>2, <4>1 DEF Ends, Reads
    <3>3. QED
      BY <3>1, <3>2
  <2>8. CASE Requeues(kind)
    <3>1. ~Reads(pod)
      BY <1>1, <1>6, <2>8 DEF Requeues, Reads
    <3>2. QED
      BY <1>1, <1>6, <2>1, <2>8, <3>1 DEF Requeues, Reads
  <2>9. QED
    BY <2>2, <2>3, <2>4, <2>6, <2>7, <2>8, Turns
<1>7. QED
  BY <1>5, <1>6

\* The dispatcher requests the pods for a subscriber it has registered.
LEMMA AwaitedDispatch ==
  ASSUME TypeOK, NEW pod \in Pods, NEW sub \in Subs, Awaited(pod, sub), Dispatch("Pod"),
         NoDispatchFault' => NoDispatchFault, Outside(pod)
  PROVE  Awaited(pod, sub)'
<1> DEFINE d == disp["Pod"]
<1> SUFFICES ASSUME Due(pod, sub)', pod \notin dirty', ~(triggers'[pod] > 0), ~Finding(pod, sub)'
             PROVE  Requesting(pod, sub)'
  BY DEF Awaited
<1>1. /\ "Pod" \in Kinds /\ disp \in [Kinds -> DispBusy \cup {DispIdle}]
      /\ registry \in [Kinds -> [Nodes -> SUBSET Subs]] /\ triggers \in [Keys -> Nat]
      /\ NodeOf[sub] \in Nodes /\ pod \in Keys
  BY SubscribersAssumption DEF Kinds, Keys, TypeOK, DispatcherTypeOK, WorkQueueTypeOK
<1>2. UNCHANGED store
  BY DEF Dispatch, DispatcherStep, UpdateRegistry, ListPods, ListPodsFails, DispatchPod,
     DispatchPodFails, clusterVars
<1>3. pod \notin dirty /\ ~(triggers[pod] > 0) /\ ~Finding(pod, sub)
  BY DEF Outside, Finding, Reads, Reading, Subscribers, Cached
<1>4. ASSUME sub \in registry["Pod"][NodeOf[sub]]
      PROVE  d.sub = sub /\ (d.pc = "list" \/ (d.pc = "send" /\ pod \in d.todo))
  <2>1. Due(pod, sub)
    BY <1>2, <1>4 DEF Due, Exists
  <2>2. QED
    BY <1>3, <2>1 DEF Awaited, Requesting
<1>5. ASSUME NEW pods, pod \in pods, Dispatching("Pod", pods), d \in DispBusy, d.sub = sub
      PROVE  Requesting(pod, sub)'
  <2>1. disp'["Pod"] = [d EXCEPT !.pc = "send", !.todo = pods]
    BY <1>1, <1>5 DEF Dispatching
  <2>2. disp'["Pod"].pc = "send" /\ disp'["Pod"].todo = pods /\ disp'["Pod"].sub = sub
    BY <1>5, <2>1 DEF DispBusy
  <2>3. QED
    BY <1>5, <2>2 DEF Requesting
<1>6. CASE UpdateRegistry("Pod")
  <2>1. d \in DispBusy /\ d.pc = "registry"
    BY <1>1, <1>6 DEF UpdateRegistry, DispIdle
  <2>2. disp'["Pod"].pc = "list" /\ disp'["Pod"].sub = d.sub
    BY <1>1, <1>6, <2>1 DEF UpdateRegistry, DispBusy
  <2>3. sub \notin registry["Pod"][NodeOf[sub]]
    BY <1>4, <2>1
  <2>4. d.sub = sub
    <3>1. PICK n \in Nodes : n = NodeOf[d.sub]
      BY <2>1, SubscribersAssumption DEF DispBusy
    <3>2. registry'["Pod"][n] = IF d.join THEN registry["Pod"][n] \cup {d.sub}
                                ELSE registry["Pod"][n] \ {d.sub}
      BY <1>1, <1>6, <3>1 DEF UpdateRegistry
    <3>3. NodeOf[sub] # n => registry'["Pod"][NodeOf[sub]] = registry["Pod"][NodeOf[sub]]
      BY <1>1, <1>6, <3>1 DEF UpdateRegistry
    <3>4. sub \in registry'["Pod"][NodeOf[sub]]
      BY DEF Due
    <3>5. QED
      BY <2>3, <3>2, <3>3, <3>4
  <2>5. QED
    BY <2>2, <2>4 DEF Requesting
<1>7. CASE ~UpdateRegistry("Pod")
  <2>1. registry' = registry
    BY <1>7 DEF Dispatch, DispatcherStep, ListPods, ListPodsFails, DispatchPod, DispatchPodFails
  <2>2. d.sub = sub /\ (d.pc = "list" \/ (d.pc = "send" /\ pod \in d.todo))
    BY <1>4, <2>1 DEF Due
  <2>3. d \in DispBusy
    BY <1>1, <2>2 DEF DispIdle
  <2>4. CASE ListPods("Pod")
    <3>1. pod \in PodsOnNode(NodeOf[d.sub])
      BY <1>2, <2>2 DEF PodsOnNode, Due, Exists
    <3>2. QED
      BY <1>5, <2>2, <2>3, <2>4, <3>1 DEF ListPods
  <2>5. ~ListPodsFails("Pod")
    <3>1. faults \in Nat
      BY ClusterAssumption DEF TypeOK, ClusterTypeOK
    <3>2. "dispatch" \in FaultSites => faults' = 0
      BY DEF Due, NoDispatchFault
    <3>3. QED
      BY <3>1, <3>2 DEF ListPodsFails, Fault
  <2>6. ASSUME NEW p \in Pods, DispatchPod("Pod", p)
        PROVE  Requesting(pod, sub)'
    <3>1. DispatchTargets("Pod", p) = {p} /\ d.pc = "send"
      BY <2>6 DEF DispatchTargets, DispatchPod
    <3>2. p # pod
      <4>1. p = pod => triggers'[pod] = triggers[pod] + 1
        BY <1>1, <2>6, <3>1 DEF DispatchPod, Request, Trigger
      <4>2. triggers[pod] \in Nat
        BY <1>1
      <4>3. QED
        BY <4>1, <4>2
    <3>3. pod \in d.todo \ {p}
      BY <2>2, <3>1, <3>2
    <3>4. QED
      BY <1>5, <2>2, <2>3, <2>6, <3>3 DEF DispatchPod
  <2>7. QED
    BY <1>7, <2>4, <2>5, <2>6 DEF Dispatch, DispatcherStep, DispatchPodFails
<1>8. QED
  BY <1>6, <1>7

\* No pod that is due is forgotten.
LEMMA AwaitedStep ==
  ASSUME TypeOK, Lineage, [Next]_vars, NEW pod \in Pods, NEW sub \in Subs, Tracked(pod),
         Awaited(pod, sub)
  PROVE  Awaited(pod, sub)'
<1>1. pod \in Keys /\ (NoDispatchFault' => NoDispatchFault) /\ "Pod" \in Kinds
  BY FaultsStep DEF Keys, Kinds
<1>2. CASE \E kind \in Kinds : Reconcile(kind)
  BY <1>1, <1>2, AwaitedWorker
<1>3. CASE Outside(pod)
  <2>1. CASE Dispatch("Pod")
    BY <1>1, <1>3, <2>1, AwaitedDispatch
  <2>2. CASE ~Dispatch("Pod")
    <3> SUFFICES ASSUME Due(pod, sub)', pod \notin dirty', ~(triggers'[pod] > 0),
                        ~Finding(pod, sub)'
                 PROVE  Requesting(pod, sub)'
      BY DEF Awaited
    <3>1. pod \notin dirty /\ ~(triggers[pod] > 0) /\ ~Finding(pod, sub)
      BY <1>3 DEF Outside, Finding, Reads, Reading, Subscribers, Cached
    <3>2. store'[pod] = store[pod]
      <4>1. PassesFilter(pod, store'[pod]) /\ Exists(pod)'
        BY SubscribersAssumption, KeysAssumption DEF Due, PassesFilter
      <4>2. QED
        BY <1>3, <4>1 DEF Outside
    <3>3. registry'["Pod"] = registry["Pod"] /\ (disp'["Pod"] = disp["Pod"] \/ disp["Pod"].pc = "idle")
      <4>1. /\ "Pod" \in Kinds /\ disp \in [Kinds -> DispBusy \cup {DispIdle}]
            /\ registry \in [Kinds -> [Nodes -> SUBSET Subs]]
        BY <1>1 DEF TypeOK, DispatcherTypeOK
      <4>2. ASSUME NEW kind \in Kinds, Dispatch(kind)
            PROVE  registry'["Pod"] = registry["Pod"] /\ disp'["Pod"] = disp["Pod"]
        BY <2>2, <4>1, <4>2 DEF Dispatch, DispatcherStep, UpdateRegistry, ListPods, ListPodsFails,
           DispatchPod, DispatchPodFails, Dispatching
      <4>3. ASSUME NEW s \in Subs, NEW kind \in Kinds, Notify(s, kind)
            PROVE  /\ registry' = registry
                   /\ disp'["Pod"] = disp["Pod"] \/ disp["Pod"].pc = "idle"
        BY <4>1, <4>3 DEF Notify, Receive
      <4>4. ASSUME NEW kind \in Kinds, Reconcile(kind)
            PROVE  UNCHANGED <<registry, disp>>
        BY <4>4, Turns
      <4>5. QED
        BY <4>2, <4>3, <4>4 DEF Next, ClusterStep, SliceChanges, DispatchSlices, DeliverTrigger,
           StartWatch, EndStream, LeaveWatch, BrokerStep, vars, dispVars
    <3>4. Due(pod, sub)
      BY <1>1, <3>2, <3>3 DEF Due, Exists
    <3>5. Requesting(pod, sub)
      BY <3>1, <3>4 DEF Awaited
    <3>6. QED
      BY <3>3, <3>5 DEF Requesting
  <2>3. QED
    BY <2>1, <2>2
<1>4. QED
  BY <1>1, <1>2, <1>3, OutsideStep

-----------------------------------------------------------------------------
(***************************************************************************)
(* The data on their way to the clients.                                   *)
(***************************************************************************)

\* Steps that do not touch what is on its way to sub.
LEMMA AheadSame ==
  ASSUME UNCHANGED <<queue>>, NEW key \in Keys, NEW sub \in Subs, NEW data,
         mirror'[sub] = mirror[sub],
         Waiting(key, sub)' <=> Waiting(key, sub), Waiting(key, sub) => bro'.evt = bro.evt,
         Ahead(key, sub, data)
  PROVE  Ahead(key, sub, data)'
<1>1. FromQueue(key, sub, data)'
  BY DEF Ahead, FromQueue
<1>2. Unqueued(key, sub)' <=> Unqueued(key, sub)
  BY DEF Unqueued
<1>3. FromBroker(key, sub, data) => FromBroker(key, sub, data)'
  BY DEF FromBroker
<1>4. QED
  BY <1>1, <1>2, <1>3 DEF Ahead

LEMMA LatestSame ==
  ASSUME NEW key \in Keys, NEW sub \in Subs, NEW data,
         work'[Kind(key)].evts = work[Kind(key)].evts,
         Ahead(key, sub, data) => Ahead(key, sub, data)',
         Latest(key, sub, data)
  PROVE  Latest(key, sub, data)'
<1>1. FromWorker(key, sub, data)'
  BY DEF Latest, FromWorker
<1>2. Pending(key, sub)' <=> Pending(key, sub)
  BY DEF Pending
<1>3. QED
  BY <1>1, <1>2 DEF Latest

\* Only the worker of its collector changes what an entry saves.
LEMMA EchoSame ==
  ASSUME NEW key \in Keys, NEW sub \in Subs, cache'[key] = cache[key], Healthy(sub),
         \A data : Latest(key, sub, data) => Latest(key, sub, data)',
         Echo(key, sub)
  PROVE  Echo(key, sub)'
<1>1. /\ Subscribers(key)' = Subscribers(key)
      /\ Saved(key)' = Saved(key)
  BY DEF Subscribers, Cached, Saved
<1>2. PICK data : data = Saved(key)
  OBVIOUS
<1>3. sub \in Subscribers(key) => Latest(key, sub, data)'
  BY <1>2 DEF Echo
<1>4. QED
  BY <1>1, <1>2, <1>3 DEF Echo, Latest, Ahead, FromWorker, FromQueue, FromBroker

\* The entry of a resource is settled: the events carry what it saves, and
\* who gets none has it already.
LEMMA EchoSettles ==
  ASSUME TypeOK, SubscriberLife, Lineage, NEW kind \in Kinds, NEW k \in Keys, NEW data \in Data,
         NEW subs \in SUBSET Subs, Settles(kind, k, data, subs), UNCHANGED <<bro, mirror>>,
         NEW key \in Keys, NEW sub \in Subs, Healthy(sub), Echo(key, sub)
  PROVE  Echo(key, sub)'
<1>1. PICK updated \in BOOLEAN, w \in WorkPush \cup {WorkIdle} :
        /\ work'[kind] = w
        /\ w.evts = ToEvents(<<k, 1>>, data, updated, subs, Subscribers(k))
        /\ Saves(k, data, updated)
  BY DEF Settles, Moves
<1>2. PICK uid \in Uid, prev \in SUBSET Subs, evts \in {w.evts} :
        /\ uid = <<k, 1>> /\ prev = Subscribers(k)
        /\ evts = ToEvents(uid, data, updated, subs, prev)
  <2>1. Subscribers(k) \in SUBSET Subs
    BY DEF TypeOK, CollectorsTypeOK, Subscribers, Cached, CacheEntry
  <2>2. QED
    BY <1>1, <2>1 DEF Uid
<1>3. IsBatch(evts, uid, data, updated, subs, prev)
  BY <1>2, ToEventsBatch
<1>4. /\ work'[kind].evts = evts /\ DOMAIN work[kind].evts = {}
      /\ \A kk \in Kinds \ {kind} : work'[kk] = work[kk]
      /\ Kind(k) = kind /\ Subscribers(k)' = subs
      /\ \A kk \in Keys \ {k} : cache'[kk] = cache[kk]
      /\ UNCHANGED queue
  BY <1>1, <1>2 DEF Settles, Moves
<1>5. \A i \in DOMAIN evts : evts[i].uid[1] = k
  <2>1. \A i \in DOMAIN evts : evts[i].uid = uid
    BY <1>3 DEF IsBatch
  <2>2. uid[1] = k
    BY <1>2
  <2>3. QED
    BY <2>1, <2>2
<1>6. \A x : Ahead(key, sub, x) => Ahead(key, sub, x)'
  <2>1. /\ Waiting(key, sub)' <=> Waiting(key, sub)
        /\ Waiting(key, sub) => bro'.evt = bro.evt
        /\ mirror'[sub] = mirror[sub]
    BY DEF Waiting
  <2>2. QED
    BY <1>4, <2>1, AheadSame
<1>7. CASE key = k
  <2> SUFFICES ASSUME sub \in subs
               PROVE  Latest(key, sub, Saved(key))'
    BY <1>4, <1>7 DEF Echo
  <2>1. /\ cache'[k].hash = <<<<k, 1>>, data>>
        /\ Cached(k) /\ ~updated => cache[k].hash = cache'[k].hash
    <3>1. Cached(k)'
      BY <1>4 DEF Subscribers
    <3>2. QED
      BY <1>1, <3>1 DEF Saves
  <2>2. Saved(key)' = data
    BY <1>7, <2>1 DEF Saved
  <2>3. work'[Kind(key)].evts = evts /\ work[Kind(key)].evts = work[kind].evts
    BY <1>4, <1>7
  <2>4. FromWorker(key, sub, data)'
    BY <1>3, <2>3 DEF FromWorker, IsBatch
  <2>5. ASSUME ~Pending(key, sub)'
        PROVE  Ahead(key, sub, data)'
    <3>1. \A i \in DOMAIN evts : sub \notin evts[i].subs
      BY <1>5, <1>7, <2>3, <2>5 DEF Pending, Mine
    <3>2. sub \in prev
      BY <1>3, <3>1 DEF IsBatch
    <3>3. ~updated
      BY <1>3, <3>1, <3>2 DEF IsBatch, UpdatedFor
    <3>4. Cached(k) /\ sub \in Subscribers(key)
      BY <1>2, <1>7, <3>2 DEF Subscribers
    <3>5. Saved(key) = data
      BY <1>7, <2>1, <3>3, <3>4 DEF Saved
    <3>6. ~Pending(key, sub)
      BY <1>4, <2>3 DEF Pending
    <3>7. Ahead(key, sub, data)
      BY <3>4, <3>5, <3>6 DEF Echo, Latest
    <3>8. QED
      BY <1>6, <3>7
  <2>6. Latest(key, sub, data)'
    BY <2>4, <2>5 DEF Latest
  <2>7. QED
    BY <2>2, <2>6 DEF Latest, Ahead, FromWorker, FromQueue, FromBroker
<1>8. CASE key # k /\ Kind(key) = kind
  <2> SUFFICES ASSUME NEW x, Latest(key, sub, x)
               PROVE  Latest(key, sub, x)'
    BY <1>4, <1>8, EchoSame
  <2>1. /\ DOMAIN work[Kind(key)].evts = {}
        /\ work'[Kind(key)].evts = evts
    BY <1>4, <1>8
  <2>2. \A i \in DOMAIN evts : ~Mine(evts[i], key, sub)
    BY <1>5, <1>8 DEF Mine
  <2>3. FromWorker(key, sub, x)' /\ ~Pending(key, sub)
    BY <2>1, <2>2 DEF FromWorker, Pending
  <2>4. QED
    BY <1>6, <2>3 DEF Latest
<1>9. CASE Kind(key) # kind
  <2>1. work'[Kind(key)].evts = work[Kind(key)].evts /\ cache'[key] = cache[key]
    BY <1>4, <1>9, KindType
  <2>2. \A x : Latest(key, sub, x) => Latest(key, sub, x)'
    BY <1>6, <2>1, LatestSame
  <2>3. QED
    BY <2>1, <2>2, EchoSame
<1>10. QED
  BY <1>4, <1>7, <1>8, <1>9

\* The entry of a pod is dropped, or nothing of an entry changes.
LEMMA EchoDropsPod ==
  ASSUME TypeOK, DropsPod, UNCHANGED <<bro, mirror>>, NEW key \in Keys, NEW sub \in Subs,
         Healthy(sub), Echo(key, sub)
  PROVE  Echo(key, sub)'
<1> DEFINE w == work["Pod"]
<1>1. "Pod" \in Kinds
  BY DEF Kinds
<1>2. w.key \in Keys /\ w.evts = <<>>
  BY <1>1, WorkPhases DEF DropsPod, Reading
<1>3. /\ work'["Pod"].evts = <<>> /\ UNCHANGED queue
      /\ \A k \in Kinds \ {"Pod"} : work'[k] = work[k]
      /\ \A k \in Keys \ {w.key} : cache'[k] = cache[k]
      /\ cache'[w.key] = None
  BY <1>2 DEF DropsPod, Moves, WorkIdle, TypeOK, CollectorsTypeOK
<1>4. work'[Kind(key)].evts = work[Kind(key)].evts
  BY <1>2, <1>3, KindType
<1>5. CASE key = w.key
  BY <1>3, <1>5 DEF Echo, Subscribers, Cached
<1>6. CASE key # w.key
  <2>1. /\ Waiting(key, sub)' <=> Waiting(key, sub)
        /\ Waiting(key, sub) => bro'.evt = bro.evt
        /\ mirror'[sub] = mirror[sub]
    BY DEF Waiting
  <2>2. \A x : Ahead(key, sub, x) => Ahead(key, sub, x)'
    BY <1>3, <2>1, AheadSame
  <2>3. \A x : Latest(key, sub, x) => Latest(key, sub, x)'
    BY <1>4, <2>2, LatestSame
  <2>4. cache'[key] = cache[key]
    BY <1>3, <1>6
  <2>5. QED
    BY <2>3, <2>4, EchoSame
<1>7. QED
  BY <1>5, <1>6

\* An event moves from the worker to the queue.
LEMMA EchoPushes ==
  ASSUME TypeOK, Lineage, NEW kind \in Kinds, Pushes(kind), UNCHANGED <<bro, mirror>>,
         NEW key \in Keys, NEW sub \in Subs, Healthy(sub), Echo(key, sub)
  PROVE  Echo(key, sub)'
<1> DEFINE w == work[kind]
<1>1. PICK es \in Seq(Event), tl \in Seq(Event), evt \in Event :
        /\ es = w.evts /\ tl = Tail(es) /\ evt = es[1] /\ evt = Head(es) /\ 1 \in DOMAIN es
        /\ \A i \in DOMAIN tl : i \in Nat /\ i > 0 /\ i + 1 \in DOMAIN es /\ tl[i] = es[i + 1]
        /\ \A i \in DOMAIN es : i \in Nat /\ (i = 1 \/ i - 1 \in DOMAIN tl)
  <2>1. PICK es \in Seq(Event) : es = w.evts /\ es # <<>>
    BY WorkPhases DEF Pushes
  <2>2. QED
    BY <2>1, Tailed
<1>2. /\ queue' = Append(queue, evt) /\ UNCHANGED cache /\ work'[kind].evts = tl
      /\ \A k \in Kinds \ {kind} : work'[k] = work[k]
  <2>1. work'[kind] = IF tl = <<>> THEN WorkIdle
                      ELSE [WorkIdle EXCEPT !.pc = "push", !.key = w.key, !.refs = w.refs,
                                            !.evts = tl]
    BY <1>1 DEF Pushes, Moves
  <2>2. work'[kind].evts = tl
    BY <2>1 DEF WorkIdle
  <2>3. QED
    BY <1>1, <2>2 DEF Pushes, Moves
<1>3. /\ Kind(w.key) = kind
      /\ \A i \in DOMAIN es : es[i].uid[1] = w.key
  BY <1>1 DEF Lineage, Batch, Pushes
<1>4. PICK n \in Nat : /\ DOMAIN queue = 1..n /\ DOMAIN queue' = 1..(n + 1)
                       /\ \A i \in 1..n : queue'[i] = queue[i]
                       /\ queue'[n + 1] = evt
  <2>1. PICK q \in Seq(Event) : q = queue
    BY DEF TypeOK, BlockingChannelTypeOK
  <2>2. PICK q2 : q2 = queue' /\ q2 = Append(q, evt)
    BY <1>2, <2>1
  <2>3. Len(q) \in Nat /\ DOMAIN q = 1..Len(q)
    BY <2>1
  <2>4. /\ Len(q2) = Len(q) + 1 /\ q2[Len(q) + 1] = evt /\ q2 \in Seq(Event)
        /\ \A i \in DOMAIN q : q2[i] = q[i]
    BY <2>2, Appended
  <2>5. DOMAIN q2 = 1..(Len(q) + 1)
    BY <2>3, <2>4
  <2>6. QED
    BY <2>1, <2>2, <2>3, <2>4, <2>5
<1> SUFFICES ASSUME NEW x, Latest(key, sub, x)
             PROVE  Latest(key, sub, x)'
  BY <1>2, EchoSame
<1>5. FromBroker(key, sub, x)' <=> FromBroker(key, sub, x)
  BY DEF FromBroker, Waiting
<1>6. Mine(evt, key, sub) => Kind(key) = kind
  BY <1>1, <1>3 DEF Mine
<1>7. FromWorker(key, sub, x)'
  <2>1. CASE Kind(key) = kind
    <3>1. ASSUME NEW i \in DOMAIN tl, Mine(tl[i], key, sub)
          PROVE  tl[i].type = "Delete" \/ tl[i].data = x
      <4>1. PICK j \in DOMAIN es : tl[i] = es[j]
        BY <1>1
      <4>2. QED
        BY <1>1, <2>1, <3>1, <4>1 DEF Latest, FromWorker
    <3>2. QED
      BY <1>2, <2>1, <3>1 DEF FromWorker
  <2>2. CASE Kind(key) # kind
    <3>1. work'[Kind(key)] = work[Kind(key)]
      BY <1>2, <2>2, KindType
    <3>2. QED
      BY <3>1 DEF Latest, FromWorker
  <2>3. QED
    BY <2>1, <2>2
<1>8. ASSUME Mine(evt, key, sub)
      PROVE  Ahead(key, sub, x)'
  <2>1. evt.type = "Delete" \/ evt.data = x
    BY <1>1, <1>6, <1>8 DEF Latest, FromWorker
  <2>2. n + 1 \in DOMAIN queue' /\ Mine(queue'[n + 1], key, sub)
    BY <1>4, <1>8
  <2>3. ~Unqueued(key, sub)'
    BY <2>2 DEF Unqueued
  <2>4. FromQueue(key, sub, x)'
    <3> SUFFICES ASSUME NEW i \in DOMAIN queue',
                        \A j \in DOMAIN queue' : j > i => ~Mine(queue'[j], key, sub)
                 PROVE  queue'[i].type = "Delete" \/ queue'[i].data = x
      BY DEF FromQueue
    <3>1. ~(n + 1 > i)
      BY <2>2
    <3>2. i = n + 1
      BY <1>4, <3>1
    <3>3. QED
      BY <1>4, <2>1, <3>2
  <2>5. QED
    BY <2>3, <2>4 DEF Ahead
<1>9. ASSUME ~Mine(evt, key, sub), ~Pending(key, sub)'
      PROVE  Ahead(key, sub, x)'
  <2>1. ~Pending(key, sub)
    <3>1. CASE Kind(key) = kind
      <4> SUFFICES ASSUME NEW i \in DOMAIN es PROVE ~Mine(es[i], key, sub)
        BY <1>1, <3>1 DEF Pending
      <4>1. CASE i = 1
        BY <1>1, <1>9, <4>1
      <4>2. CASE i # 1
        <5>1. PICK j \in DOMAIN tl : j = i - 1
          BY <1>1, <4>2
        <5>2. i \in Nat /\ j \in Nat
          BY <1>1
        <5>3. tl[j] = es[j + 1]
          BY <1>1
        <5>4. j + 1 = i
          BY <5>1, <5>2
        <5>5. ~Mine(tl[j], key, sub)
          BY <1>2, <1>9, <3>1 DEF Pending
        <5>6. QED
          BY <5>3, <5>4, <5>5
      <4>3. QED
        BY <4>1, <4>2
    <3>2. CASE Kind(key) # kind
      <4>1. work'[Kind(key)] = work[Kind(key)]
        BY <1>2, <3>2, KindType
      <4>2. QED
        BY <1>9, <4>1 DEF Pending
    <3>3. QED
      BY <3>1, <3>2
  <2>2. Ahead(key, sub, x)
    BY <2>1 DEF Latest
  <2>3. FromQueue(key, sub, x)'
    <3> SUFFICES ASSUME NEW i \in DOMAIN queue', Mine(queue'[i], key, sub),
                        \A j \in DOMAIN queue' : j > i => ~Mine(queue'[j], key, sub)
                 PROVE  queue'[i].type = "Delete" \/ queue'[i].data = x
      BY DEF FromQueue
    <3>1. i \in DOMAIN queue /\ queue'[i] = queue[i]
      BY <1>4, <1>9
    <3>2. \A j \in DOMAIN queue : j \in DOMAIN queue' /\ queue'[j] = queue[j]
      BY <1>4
    <3>3. \A j \in DOMAIN queue : j > i => ~Mine(queue[j], key, sub)
      BY <3>2
    <3>4. QED
      BY <2>2, <3>1, <3>3 DEF Ahead, FromQueue
  <2>4. Unqueued(key, sub)' => Unqueued(key, sub)
    <3>1. \A j \in DOMAIN queue : j \in DOMAIN queue' /\ queue'[j] = queue[j]
      BY <1>4
    <3>2. QED
      BY <3>1 DEF Unqueued
  <2>5. QED
    BY <1>5, <2>2, <2>3, <2>4 DEF Ahead
<1>10. QED
  BY <1>7, <1>8, <1>9 DEF Latest

\* The steps of a worker.
LEMMA EchoReconcile ==
  ASSUME TypeOK, SubscriberLife, Lineage, NEW kind \in Kinds, Reconcile(kind),
         NEW key \in Keys, NEW sub \in Subs, Healthy(sub), Echo(key, sub)
  PROVE  Echo(key, sub)'
<1>1. UNCHANGED <<bro, mirror>>
  BY DEF Reconcile, broVars
<1>2. ASSUME UNCHANGED <<cache, queue>>, work[kind].evts = <<>>, work'[kind].evts = <<>>,
             \A k \in Kinds \ {kind} : work'[k] = work[k]
      PROVE  Echo(key, sub)'
  <2>1. work'[Kind(key)].evts = work[Kind(key)].evts
    BY <1>2, KindType
  <2>2. /\ Waiting(key, sub)' <=> Waiting(key, sub)
        /\ Waiting(key, sub) => bro'.evt = bro.evt
        /\ mirror'[sub] = mirror[sub]
    BY <1>1 DEF Waiting
  <2>3. \A x : Ahead(key, sub, x) => Ahead(key, sub, x)'
    BY <1>2, <2>2, AheadSame
  <2>4. \A x : Latest(key, sub, x) => Latest(key, sub, x)'
    BY <2>1, <2>3, LatestSame
  <2>5. QED
    BY <1>2, <2>4, EchoSame
<1>3. ASSUME \/ \E k \in Keys : Begins(kind, k)
             \/ \E subs \in SUBSET Subs : Continues(kind, subs)
             \/ GivesUp(kind)
      PROVE  Echo(key, sub)'
  <2>1. WorkIdle.evts = <<>>
    BY DEF WorkIdle
  <2>2. Reading(kind) => work[kind].evts = <<>> /\ work[kind] \in WorkRead
    BY WorkPhases
  <2>3. ASSUME NEW k \in Keys, Begins(kind, k)
        PROVE  Echo(key, sub)'
    <3>1. work'[kind].evts = <<>>
      BY <2>3 DEF Begins, Moves, WorkIdle
    <3>2. QED
      BY <1>2, <2>1, <2>3, <3>1 DEF Begins, Moves
  <2>4. ASSUME NEW subs \in SUBSET Subs, Continues(kind, subs)
        PROVE  Echo(key, sub)'
    <3>1. work'[kind].evts = <<>> /\ work[kind].evts = <<>>
      BY <2>2, <2>4 DEF Continues, Moves, WorkRead
    <3>2. QED
      BY <1>2, <2>4, <3>1 DEF Continues, Moves
  <2>5. CASE GivesUp(kind)
    BY <1>2, <2>1, <2>2, <2>5 DEF GivesUp, Moves
  <2>6. QED
    BY <1>3, <2>3, <2>4, <2>5
<1>4. NoData \in Data /\ (Reading(kind) => work[kind].key \in Keys)
  BY WorkPhases DEF NoData, Data
<1>5. \/ \E k \in Keys, data \in Data, subs \in SUBSET Subs : Settles(kind, k, data, subs)
      \/ DropsPod
      \/ Pushes(kind)
      \/ \E k \in Keys : Begins(kind, k)
      \/ \E subs \in SUBSET Subs : Continues(kind, subs)
      \/ GivesUp(kind)
  BY <1>4, ReconcileCases
<1>6. QED
  BY <1>1, <1>3, <1>5, EchoSettles, EchoDropsPod, EchoPushes

\* The broker takes the first event of the queue in hand.
LEMMA AheadTakes ==
  ASSUME TypeOK, Lineage, Takes, NEW key \in Keys, NEW sub \in Subs, NEW x, Ahead(key, sub, x)
  PROVE  Ahead(key, sub, x)'
<1>1. PICK q \in Seq(Event) : q = queue /\ q # <<>>
  BY DEF Takes, TypeOK, BlockingChannelTypeOK
<1>2. PICK q2, evt : q2 = Tail(q) /\ evt = q[1] /\ evt = Head(q)
  BY <1>1, Tailed
<1>3. PICK m \in Nat : /\ DOMAIN q2 = 1..m /\ DOMAIN q = 1..(m + 1)
                       /\ \A i \in 1..m : q2[i] = q[i + 1]
  <2>1. q2 \in Seq(Event) /\ Len(q2) = Len(q) - 1 /\ Len(q) \in Nat /\ Len(q2) \in Nat
    BY <1>1, <1>2, Tailed
  <2>2. \A i \in DOMAIN q2 : q2[i] = q[i + 1]
    BY <1>1, <1>2, Tailed
  <2>3. DOMAIN q2 = 1..Len(q2) /\ DOMAIN q = 1..Len(q)
    BY <2>1
  <2>4. QED
    BY <2>1, <2>2, <2>3
<1>4. /\ queue' = q2 /\ mirror' = mirror
      /\ bro'.todo = evt.subs /\ bro'.con = None
      /\ evt.subs # {} => bro'.evt = evt
  BY <1>1, <1>2 DEF Takes, Busy
<1>5. ~Waiting(key, sub) /\ sub # None
  BY KeysAssumption DEF Takes, Busy, Waiting
<1>6. Waiting(key, sub)' <=> Mine(evt, key, sub)
  BY <1>4, <1>5 DEF Waiting, Mine
<1>7. FromQueue(key, sub, x)'
  <2> SUFFICES ASSUME NEW i \in 1..m, Mine(q2[i], key, sub),
                      \A j \in 1..m : j > i => ~Mine(q2[j], key, sub)
               PROVE  q2[i].type = "Delete" \/ q2[i].data = x
    BY <1>3, <1>4 DEF FromQueue
  <2>1. PICK k \in 1..(m + 1) : k = i + 1 /\ q2[i] = q[k]
    BY <1>3
  <2>2. ASSUME NEW j \in 1..(m + 1), j > k
        PROVE  ~Mine(q[j], key, sub)
    <3>1. PICK l \in 1..m : j = l + 1 /\ l > i
      <4>1. j - 1 \in 1..m /\ j = (j - 1) + 1 /\ j - 1 > i
        BY <2>1, <2>2
      <4>2. QED
        BY <4>1
    <3>2. q2[l] = q[j]
      BY <1>3, <3>1
    <3>3. QED
      BY <3>1, <3>2
  <2>3. QED
    BY <1>1, <1>3, <2>1, <2>2 DEF Ahead, FromQueue
<1>8. ASSUME Unqueued(key, sub)'
      PROVE  FromBroker(key, sub, x)'
  <2>1. ASSUME NEW j \in 1..(m + 1), j > 1
        PROVE  ~Mine(q[j], key, sub)
    <3>1. PICK l \in 1..m : j = l + 1
      BY <2>1
    <3>2. q2[l] = q[j]
      BY <1>3, <3>1
    <3>3. QED
      BY <1>3, <1>4, <1>8, <3>2 DEF Unqueued
  <2>2. CASE Mine(evt, key, sub)
    <3>1. 1 \in DOMAIN q
      BY <1>3
    <3>2. evt.type = "Delete" \/ evt.data = x
      BY <1>1, <1>2, <1>3, <2>1, <2>2, <3>1 DEF Ahead, FromQueue
    <3>3. bro'.evt = evt
      BY <1>4, <2>2 DEF Mine
    <3>4. QED
      BY <1>6, <2>2, <3>2, <3>3 DEF FromBroker
  <2>3. CASE ~Mine(evt, key, sub)
    <3>1. ASSUME NEW j \in DOMAIN q
          PROVE  ~Mine(q[j], key, sub)
      <4>1. j \in 1..(m + 1) /\ (j = 1 \/ j > 1)
        BY <1>3
      <4>2. QED
        BY <1>2, <2>1, <2>3, <4>1
    <3>2. Unqueued(key, sub)
      BY <1>1, <3>1 DEF Unqueued
    <3>3. FromBroker(key, sub, x)
      BY <3>2 DEF Ahead
    <3>4. QED
      BY <1>4, <1>5, <1>6, <2>3, <3>3 DEF FromBroker
  <2>4. QED
    BY <2>2, <2>3
<1>9. QED
  BY <1>7, <1>8 DEF Ahead

\* A message brings the data it carries.
LEMMA AheadSends ==
  ASSUME TypeOK, Lineage, NEW sub \in Subs, Sends(sub), NEW key \in Keys, NEW x,
         Ahead(key, sub, x)
  PROVE  Ahead(key, sub, x)'
<1>1. Busy /\ sub # None
  BY KeysAssumption DEF Sends, Served, Busy
<1>2. PICK evt \in Event, items \in SUBSET Item, new \in {mirror'[sub]} :
        evt = bro.evt /\ items = mirror[sub] /\ new = mirror'[sub] /\ new = Apply(items, evt)
  BY <1>1 DEF Sends, TypeOK, BrokerTypeOK, BroBusy, BroIdle, Busy
<1>3. /\ sub \notin bro.todo /\ evt.uid[2] = 1
      /\ evt.uid \in Uid
      /\ \A item \in items : item.uid \in Uid /\ item.uid[2] = 1
  BY <1>1, <1>2 DEF Lineage, InHand, Sound, Sends, Served, Items, Event, Item
<1>4. \A item \in items : item.uid[1] = evt.uid[1] => item.uid = evt.uid
  BY <1>3 DEF Uid
<1>5. \A item \in new : \/ item \in items /\ item.uid # evt.uid
                        \/ evt.type # "Delete" /\ item.uid = evt.uid /\ item.data = evt.data
  BY <1>2, Applied
<1>6. ~Waiting(key, sub)' /\ (Waiting(key, sub) <=> evt.uid[1] = key) /\ UNCHANGED queue
  BY <1>1, <1>2, <1>3 DEF Sends, Served, Waiting
<1>7. FromBroker(key, sub, x) => FromBroker(key, sub, x)'
  <2> SUFFICES ASSUME FromBroker(key, sub, x), NEW item \in new, item.uid[1] = key
               PROVE  item.data = x
    BY <1>2, <1>6 DEF FromBroker
  <2>1. CASE item \in items /\ item.uid # evt.uid
    BY <1>2, <1>4, <1>6, <2>1 DEF FromBroker
  <2>2. CASE evt.type # "Delete" /\ item.uid = evt.uid /\ item.data = evt.data
    BY <1>2, <1>6, <2>2 DEF FromBroker
  <2>3. QED
    BY <1>5, <2>1, <2>2
<1>8. QED
  BY <1>6, <1>7 DEF Ahead, FromQueue, Unqueued

\* The steps of the broker.
LEMMA EchoBroker ==
  ASSUME TypeOK, Lineage, BrokerStep, NEW key \in Keys, NEW sub \in Subs,
         Healthy(sub), Healthy(sub)', Echo(key, sub)
  PROVE  Echo(key, sub)'
<1>1. UNCHANGED <<cache, work>>
  BY DEF BrokerStep
<1> SUFFICES \A x : Ahead(key, sub, x) => Ahead(key, sub, x)'
  <2>1. ASSUME \A x : Ahead(key, sub, x) => Ahead(key, sub, x)'
        PROVE  \A x : Latest(key, sub, x) => Latest(key, sub, x)'
    BY <1>1, <2>1, LatestSame
  <2>2. QED
    BY <1>1, <2>1, EchoSame
<1>2. CASE Takes
  BY <1>2, AheadTakes
<1>3. ASSUME UNCHANGED queue, mirror'[sub] = mirror[sub],
             bro'.con = sub \/ sub \in bro'.todo <=> bro.con = sub \/ sub \in bro.todo,
             Busy' => bro'.evt = bro.evt
      PROVE  \A x : Ahead(key, sub, x) => Ahead(key, sub, x)'
  <2>1. Waiting(key, sub)' <=> Waiting(key, sub)
    BY <1>3, KeysAssumption DEF Waiting, Busy
  <2>2. Waiting(key, sub) => bro'.evt = bro.evt
    BY <1>3, KeysAssumption DEF Waiting, Busy
  <2>3. QED
    BY <1>3, <2>1, <2>2, AheadSame
<1>4. ASSUME NEW s \in Subs, LooksUp(s)
      PROVE  \A x : Ahead(key, sub, x) => Ahead(key, sub, x)'
  <2>1. sub # None /\ sub \in conns
    BY KeysAssumption DEF Healthy
  <2>2. bro'.con = sub \/ sub \in bro'.todo <=> bro.con = sub \/ sub \in bro.todo
    BY <1>4, <2>1 DEF LooksUp
  <2>3. QED
    BY <1>3, <1>4, <2>2 DEF LooksUp
<1>5. ASSUME NEW s \in Subs, Served(s), s # sub, mirror'[sub] = mirror[sub]
      PROVE  \A x : Ahead(key, sub, x) => Ahead(key, sub, x)'
  <2>1. bro'.con = sub \/ sub \in bro'.todo <=> bro.con = sub \/ sub \in bro.todo
    BY <1>5, KeysAssumption DEF Served
  <2>2. QED
    BY <1>3, <1>5, <2>1 DEF Served
<1>6. ASSUME NEW s \in Subs, Misses(s)
      PROVE  \A x : Ahead(key, sub, x) => Ahead(key, sub, x)'
  <2>1. s # sub
    BY <1>6 DEF Misses, Healthy
  <2>2. QED
    BY <1>5, <1>6, <2>1 DEF Misses
<1>7. ASSUME NEW s \in Subs, Sends(s)
      PROVE  \A x : Ahead(key, sub, x) => Ahead(key, sub, x)'
  <2>1. CASE s = sub
    BY <1>7, <2>1, AheadSends
  <2>2. CASE s # sub
    <3>1. mirror'[sub] = mirror[sub]
      BY <1>7, <2>2 DEF Sends, TypeOK, BrokerTypeOK
    <3>2. QED
      BY <1>5, <1>7, <2>2, <3>1 DEF Sends
  <2>3. QED
    BY <2>1, <2>2
<1>8. QED
  BY <1>2, <1>4, <1>6, <1>7, BrokerCases

\* No step leaves a healthy subscriber with older data than its entry.
LEMMA EchoStep ==
  ASSUME TypeOK, SubscriberLife, Lineage, [Next]_vars, NEW key \in Keys, NEW sub \in Subs,
         Echo(key, sub)
  PROVE  Echo(key, sub)'
<1> SUFFICES ASSUME Healthy(sub)', sub \in Subscribers(key)'
             PROVE  Echo(key, sub)'
  BY DEF Echo
<1>1. CASE StartWatch(sub)
  <2>1. watch[sub].phase = "new" /\ UNCHANGED cache
    BY <1>1 DEF StartWatch, Watch
  <2>2. sub \in Subscribers(key)
    BY <2>1 DEF Subscribers, Cached
  <2>3. Fits(key, sub)
    BY <2>2 DEF Lineage, Entry, Subscribers
  <2>4. QED
    BY <2>1, <2>3 DEF Fits
<1>2. CASE Healthy(sub)
  <2>1. CASE BrokerStep
    BY <1>2, <2>1, EchoBroker
  <2>2. CASE \E kind \in Kinds : Reconcile(kind)
    BY <1>2, <2>2, EchoReconcile
  <2>3. CASE UNCHANGED <<cache, work, queue, bro, mirror>>
    <3>1. /\ Waiting(key, sub)' <=> Waiting(key, sub)
          /\ Waiting(key, sub) => bro'.evt = bro.evt
          /\ mirror'[sub] = mirror[sub]
      BY <2>3 DEF Waiting
    <3>2. \A x : Ahead(key, sub, x) => Ahead(key, sub, x)'
      BY <2>3, <3>1, AheadSame
    <3>3. \A x : Latest(key, sub, x) => Latest(key, sub, x)'
      BY <2>3, <3>2, LatestSame
    <3>4. QED
      BY <1>2, <2>3, <3>3, EchoSame
  <2>4. QED
    BY <2>1, <2>2, <2>3 DEF Next, ClusterStep, SliceChanges, DispatchSlices, DeliverTrigger,
       Dispatch, StartWatch, EndStream, LeaveWatch, Notify, vars, broVars
<1>3. QED
  BY <1>1, <1>2, HealthyStep

-----------------------------------------------------------------------------
(***************************************************************************)
(* The theorem.                                                            *)
(***************************************************************************)

\* The collector starts in sync with the owners that are there, which are to
\* be reconciled.
LEMMA SyncInit == Init => Sync
<1> SUFFICES ASSUME Init PROVE Sync
  OBVIOUS
<1>1. /\ \A key \in Keys : cache[key] = None
      /\ \A kind \in Kinds : work[kind] = WorkIdle
      /\ \A sub \in Subs : watch[sub].phase = "new"
      /\ dirty = Initial
      /\ \A key \in Keys : Exists(key) => key \in Initial
      /\ \A sub \in Subs : NodeOf[sub] \in Nodes
      /\ registry = [k \in Kinds |-> [n \in Nodes |-> {}]]
  BY SubscribersAssumption DEF Init, CollectorsInit, WatchInit, ClusterInit, DispatcherInit, Exists
<1>2. \A key \in Keys : ~Reads(key) /\ Subscribers(key) = {}
  BY <1>1, KindType DEF Reads, Reading, Subscribers, Cached, WorkIdle
<1>3. \A kind \in Kinds, sub \in Subs : Welcome(kind, sub)
  BY <1>1 DEF Welcome
<1>4. \A key \in Keys : Cleared(key) /\ Tracked(key)
  BY <1>1, <1>2 DEF Cleared, Tracked
<1>5. \A pod \in Pods, sub \in Subs : Awaited(pod, sub)
  BY <1>1 DEF Awaited, Due, Kinds
<1>6. \A key \in Keys, sub \in Subs : Echo(key, sub)
  BY <1>2 DEF Echo
<1>7. QED
  BY <1>3, <1>4, <1>5, <1>6 DEF Sync

LEMMA SyncStep ==
  ASSUME NoReuse, TypeOK, SubscriberLife, Lineage, Sync, [Next]_vars
  PROVE  Sync'
<1>1. \A pod \in Pods : pod \in Keys
  BY DEF Keys
<1>2. ASSUME NEW kind \in Kinds, NEW sub \in Subs PROVE Welcome(kind, sub)'
  BY WelcomeStep DEF Sync
<1>3. ASSUME NEW key \in Keys PROVE Cleared(key)' /\ Tracked(key)'
  BY TrackedStep DEF Sync
<1>4. ASSUME NEW pod \in Pods, NEW sub \in Subs PROVE Awaited(pod, sub)'
  BY <1>1, AwaitedStep DEF Sync
<1>5. ASSUME NEW key \in Keys, NEW sub \in Subs PROVE Echo(key, sub)'
  BY EchoStep DEF Sync
<1>6. QED
  BY <1>2, <1>3, <1>4, <1>5 DEF Sync

\* Once everything is processed, a healthy client knows the resources whose
\* entry has it as a subscriber, with the data they save.
LEMMA AtRest ==
  ASSUME TypeOK, SubscriberLife, Lineage, Flow, Sync, Quiescent, NEW sub \in Subs, Healthy(sub),
         NEW key \in Keys
  PROVE  /\ Knows(sub, key) <=> sub \in Subscribers(key)
         /\ \A item \in mirror[sub] : item.uid[1] = key => item.data = Saved(key)
<1>1. /\ queue = <<>> /\ bro = BroIdle /\ work[Kind(key)] = WorkIdle
  BY KindType DEF Quiescent
<1>2. ~Waiting(key, sub)
  BY <1>1, KeysAssumption DEF Waiting, BroIdle
<1>3. ~Pending(key, sub) /\ Unqueued(key, sub) /\ Len(queue) = 0
  <2>1. DOMAIN queue = {} /\ Len(queue) = 0 /\ DOMAIN WorkIdle.evts = {}
    BY <1>1 DEF WorkIdle
  <2>2. QED
    BY <1>1, <2>1 DEF Pending, Unqueued
<1>4. Knows(sub, key) <=> sub \in Subscribers(key)
  <2>1. PICK known \in SUBSET (0..Len(queue)) : FlowOf(key, sub, known)
    BY DEF Flow, Flows
  <2>2. 0 \in known <=> Knows(sub, key)
    BY <1>2, <2>1 DEF FlowOf, Near
  <2>3. 0 \in known <=> sub \in Subscribers(key)
    BY <1>3, <2>1 DEF FlowOf, Far
  <2>4. QED
    BY <2>2, <2>3
<1>5. ASSUME NEW item \in mirror[sub], item.uid[1] = key
      PROVE  item.data = Saved(key)
  <2>1. sub \in Subscribers(key)
    BY <1>4, <1>5 DEF Knows
  <2>2. Latest(key, sub, Saved(key))
    BY <2>1 DEF Sync, Echo
  <2>3. QED
    BY <1>2, <1>3, <1>5, <2>2 DEF Latest, Ahead, FromBroker
<1>6. QED
  BY <1>4, <1>5

\* Once everything is processed, what the entries of a healthy client save is
\* current.
LEMMA SavedIsCurrent ==
  ASSUME TypeOK, SubscriberLife, Lineage, Flow, Sync, Quiescent, NEW sub \in Subs, Healthy(sub),
         NEW key \in Keys, sub \in Subscribers(key)
  PROVE  /\ Exists(key) /\ (key \in Pods => store[key].node = NodeOf[sub])
         /\ Current(key) \in View(sub, Kind(key))
         /\ \A item \in mirror[sub] :
              item.uid[1] = key => <<item.uid, item.data.ver>> = Current(key)
<1>1. dirty = {} /\ ~Reads(key)
  BY KindType DEF Quiescent, Reads, Reading, WorkIdle
<1>2. Exists(key)
  BY <1>1 DEF Sync, Cleared
<1>3. Fits(key, sub) /\ Cached(key) /\ store[key].inc = 1
  BY <1>2 DEF Lineage, Entry, Subscribers, Births
<1>4. key \in Pods => store[key].node = NodeOf[sub]
  BY <1>2, <1>3 DEF Fits
<1>5. NodeOf[sub] # None
  BY SubscribersAssumption, KeysAssumption
<1>6. Saved(key).ver = store[key].ver
  BY <1>1, <1>2, <1>3, <1>4, <1>5 DEF Sync, Tracked, PassesFilter
<1>7. ASSUME NEW item \in mirror[sub], item.uid[1] = key
      PROVE  <<item.uid, item.data.ver>> = Current(key)
  <2>1. item.data = Saved(key)
    BY <1>7, AtRest
  <2>2. item.uid = <<key, 1>>
    <3>1. item.uid \in Uid /\ item.uid[2] = 1
      BY DEF TypeOK, BrokerTypeOK, Item, Lineage, Items
    <3>2. QED
      BY <1>7, <3>1 DEF Uid
  <2>3. QED
    BY <1>3, <1>6, <2>1, <2>2 DEF Current
<1>8. Current(key) \in View(sub, Kind(key))
  <2>1. PICK item \in mirror[sub] : item.uid[1] = key
    BY AtRest DEF Knows
  <2>2. item \in {j \in mirror[sub] : Kind(j.uid[1]) = Kind(key)}
    BY <2>1
  <2>3. QED
    BY <1>7, <2>1, <2>2 DEF View
<1>9. QED
  BY <1>2, <1>4, <1>7, <1>8

\* Once everything is processed, a client that selects pods is a subscriber
\* of every pod of its node.
LEMMA PodsFound ==
  ASSUME TypeOK, Sync, NEW sub \in Subs, Settled(sub), "Pod" \in KindsOf[sub],
         NEW pod \in Pods, Exists(pod), store[pod].node = NodeOf[sub]
  PROVE  sub \in Subscribers(pod)
<1>1. /\ Quiescent /\ Serving(sub) /\ NoDispatchFault /\ "Pod" \in Kinds
      /\ pod \in Keys /\ Kind(pod) = "Pod"
  BY DEF Settled, Kinds, Keys, Kind
<1>2. /\ dirty = {} /\ watch[sub].todo = {} /\ disp["Pod"] = DispIdle
      /\ work["Pod"] = WorkIdle /\ \A key \in Keys : triggers[key] = 0
  BY <1>1 DEF Quiescent
<1>3. sub \in registry["Pod"][NodeOf[sub]]
  <2>1. watch[sub].phase = "joined"
    BY <1>1 DEF Serving
  <2>2. ~Holds("Pod", sub, TRUE)
    BY <1>2 DEF Holds, DispIdle
  <2>3. QED
    BY <1>1, <1>2, <2>1, <2>2 DEF Sync, Welcome
<1>4. Due(pod, sub) /\ ~Requesting(pod, sub) /\ ~Reads(pod)
  BY <1>1, <1>2, <1>3 DEF Due, Requesting, DispIdle, Reads, Reading, WorkIdle
<1>5. Finding(pod, sub)
  BY <1>1, <1>2, <1>4 DEF Sync, Awaited
<1>6. QED
  BY <1>4, <1>5 DEF Finding

\* What the invariants say of a client when everything is processed.
LEMMA SyncPods ==
  ASSUME TypeOK, SubscriberLife, Lineage, Flow, Sync
  PROVE  PodsInSync
<1> SUFFICES ASSUME NEW sub \in Subs, Settled(sub), "Pod" \in KindsOf[sub]
             PROVE  View(sub, "Pod") = {Current(key) : key \in PodsOnNode(NodeOf[sub])}
  BY DEF PodsInSync, InSync, Relevant
<1>1. Quiescent /\ Healthy(sub) /\ \A pod \in Pods : pod \in Keys /\ Kind(pod) = "Pod"
  BY DEF Settled, Keys, Kind
<1>2. View(sub, "Pod") \subseteq {Current(key) : key \in PodsOnNode(NodeOf[sub])}
  <2> SUFFICES ASSUME NEW item \in mirror[sub], Kind(item.uid[1]) = "Pod"
               PROVE  <<item.uid, item.data.ver>> \in {Current(key) : key \in PodsOnNode(NodeOf[sub])}
    BY DEF View
  <2>1. PICK pod \in Pods : item.uid[1] = pod
    <3>1. item.uid[1] \in Keys
      BY DEF TypeOK, BrokerTypeOK, Item, Uid
    <3>2. QED
      BY <3>1, KindType, RelationsAssumption DEF Keys, Kind, OwnerKinds
  <2>2. sub \in Subscribers(pod)
    BY <1>1, <2>1, AtRest DEF Knows
  <2>3. /\ Exists(pod) /\ store[pod].node = NodeOf[sub]
        /\ <<item.uid, item.data.ver>> = Current(pod)
    BY <1>1, <2>1, <2>2, SavedIsCurrent
  <2>4. QED
    BY <2>3 DEF PodsOnNode
<1>3. ASSUME NEW pod \in PodsOnNode(NodeOf[sub])
      PROVE  Current(pod) \in View(sub, "Pod")
  <2>1. pod \in Pods /\ Exists(pod) /\ store[pod].node = NodeOf[sub]
    BY DEF PodsOnNode
  <2>2. sub \in Subscribers(pod)
    BY <2>1, PodsFound
  <2>3. QED
    BY <1>1, <2>1, <2>2, SavedIsCurrent
<1>4. QED
  BY <1>2, <1>3

\* As long as no name is used again, a client has the pods of its node, all
\* of them, no others and at their current version, whenever everything is
\* processed, its stream is healthy and no dispatch failed: no order of
\* informer events, subscriptions, departures, requeued reconciles and
\* deliveries loses a pod, keeps one that is gone or leaves a stale version.
THEOREM PodsReachTheirClients ==
  ASSUME NoReuse
  PROVE  Spec => []PodsInSync
<1> DEFINE Base == TypeOK /\ SubscriberLife /\ Lineage
<1>1. Spec => []Base
  BY LineageInvariant
<1>2. Init => Flow /\ Sync
  <2>1. Init => Flow
    BY DEF Init, WatchInit, Flow, Healthy
  <2>2. QED
    BY <2>1, SyncInit
<1>3. Base /\ Flow /\ Sync /\ [Next]_vars => Flow' /\ Sync'
  BY FlowStep, SyncStep
<1>4. Base /\ Flow /\ Sync => PodsInSync
  BY SyncPods
<1>5. QED
  BY <1>1, <1>2, <1>3, <1>4, PTL DEF Spec
=============================================================================
