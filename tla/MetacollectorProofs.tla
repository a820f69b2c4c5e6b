------------------------- MODULE MetacollectorProofs -------------------------
(***************************************************************************)
(* Proofs about the whole collector, for every value of the constants:     *)
(* type correctness, the life of a subscriber in the registries and that   *)
(* closing a connection never blocks the broker.                           *)
(***************************************************************************)
EXTENDS Metacollector, TLAPS

-----------------------------------------------------------------------------
(***************************************************************************)
(* Facts about the helpers.                                                *)
(***************************************************************************)

\* A key belongs to the collector of its kind (Kind, Kinds).
LEMMA KindType ==
  ASSUME NEW key \in Keys
  PROVE  /\ Kind(key) \in Kinds
         /\ Kind(key) = "Pod" <=> key \in Pods
BY KeysAssumption, RelationsAssumption DEF Kind, Kinds, Keys, OwnerKinds

\* What ToEvents returns are events (pkg/events/types.go).
LEMMA ToEventsType ==
  ASSUME NEW uid \in Uid, NEW data \in Data, NEW updated \in BOOLEAN,
         NEW subs \in SUBSET Subs, NEW prev \in SUBSET Subs
  PROVE  ToEvents(uid, data, updated, subs, prev) \in Seq(Event)
<1>1. ASSUME NEW type \in EventType, NEW d \in Data, NEW ss \in SUBSET Subs
      PROVE  EventFor(type, uid, d, ss) \in Seq(Event)
  <2>1. ss # {} => [type |-> type, uid |-> uid, data |-> d, subs |-> ss] \in Event
    BY DEF Event
  <2>2. \A e \in Event : <<e>> \in Seq(Event)
    OBVIOUS
  <2>3. <<>> \in Seq(Event)
    OBVIOUS
  <2>4. QED
    BY <2>1, <2>2, <2>3 DEF EventFor
<1>2. NoData \in Data
  BY DEF NoData, Data
<1>3. /\ CreatedFor(subs, prev) \in SUBSET Subs
      /\ UpdatedFor(subs, prev, updated) \in SUBSET Subs
      /\ DeletedFor(subs, prev) \in SUBSET Subs
  BY DEF CreatedFor, UpdatedFor, DeletedFor
<1>4. /\ EventFor("Create", uid, data, CreatedFor(subs, prev)) \in Seq(Event)
      /\ EventFor("Update", uid, data, UpdatedFor(subs, prev, updated)) \in Seq(Event)
      /\ EventFor("Delete", uid, NoData, DeletedFor(subs, prev)) \in Seq(Event)
  BY <1>1, <1>2, <1>3 DEF EventType
<1>5. QED
  BY <1>4 DEF ToEvents

\* The loop over the events leaves the worker idle or about to push.
LEMMA EventLoopType ==
  ASSUME NEW kind \in Kinds, NEW key \in Keys, NEW refs \in SUBSET Owners,
         NEW evts \in Seq(Event),
         work \in [Kinds -> WorkType], triggers \in [Keys -> Nat],
         EventLoop(kind, key, refs, evts)
  PROVE  /\ work' \in [Kinds -> WorkType]
         /\ triggers' \in [Keys -> Nat]
<1>1. triggers' \in [Keys -> Nat]
  BY DEF EventLoop, Trigger
<1>2. CASE evts = <<>>
  BY <1>1, <1>2 DEF EventLoop, WorkType
<1>3. CASE evts # <<>>
  <2>1. [WorkIdle EXCEPT !.pc = "push", !.key = key, !.refs = refs, !.evts = evts]
          \in WorkPush
    BY <1>3 DEF WorkIdle, WorkPush
  <2>2. QED
    BY <1>1, <1>3, <2>1 DEF EventLoop, WorkType
<1>4. QED
  BY <1>2, <1>3

\* Refresh stores a cache entry and events.
LEMMA RefreshType ==
  ASSUME NEW kind \in Kinds, NEW key \in Keys, NEW uid \in Uid, NEW data \in Data,
         NEW subs \in SUBSET Subs,
         CollectorsTypeOK, WorkQueueTypeOK,
         Refresh(kind, key, uid, data, subs)
  PROVE  CollectorsTypeOK' /\ triggers' \in [Keys -> Nat]
<1> DEFINE prev == IF Cached(key) THEN cache[key].subs ELSE {}
           updated == Cached(key) /\ cache[key].hash # <<uid, data>>
<1>1. cache[key] \in CacheEntry \/ ~Cached(key)
  BY DEF CollectorsTypeOK, Cached
<1>2. prev \in SUBSET Subs
  BY <1>1 DEF CacheEntry
<1>3. ToEvents(uid, data, updated, subs, prev) \in Seq(Event)
  BY <1>2, ToEventsType
<1>4. EventLoop(kind, key, data.refs, ToEvents(uid, data, updated, subs, prev))
  BY DEF Refresh
<1>5. data.refs \in SUBSET Owners
  BY DEF Data
<1>6. work' \in [Kinds -> WorkType] /\ triggers' \in [Keys -> Nat]
  <2> HIDE DEF prev, updated
  <2> QED
    BY <1>3, <1>4, <1>5, EventLoopType DEF CollectorsTypeOK, WorkQueueTypeOK
<1>7. [hash |-> <<uid, data>>, uid |-> IF Cached(key) THEN cache[key].uid ELSE uid,
       refs |-> data.refs, subs |-> subs] \in CacheEntry
  BY <1>1, <1>5 DEF CacheEntry, Hash
<1>8. cache' \in [Keys -> CacheEntry \cup {None}]
  BY <1>7 DEF Refresh, CollectorsTypeOK
<1>9. QED
  BY <1>6, <1>8 DEF CollectorsTypeOK

\* Forget removes the entry and leaves a Delete to push, if any.
LEMMA ForgetType ==
  ASSUME NEW kind \in Kinds, NEW key \in Keys,
         CollectorsTypeOK, WorkQueueTypeOK,
         Forget(kind, key)
  PROVE  CollectorsTypeOK' /\ triggers' \in [Keys -> Nat]
<1>1. CASE Cached(key)
  <2> DEFINE entry == cache[key]
             evts == ToEvents(entry.uid, NoData, FALSE, {}, entry.subs)
  <2>1. entry \in CacheEntry
    BY <1>1 DEF CollectorsTypeOK, Cached
  <2>2. entry.uid \in Uid /\ entry.subs \in SUBSET Subs /\ entry.refs \in SUBSET Owners
    BY <2>1 DEF CacheEntry
  <2>3. evts \in Seq(Event)
    <3>1. NoData \in Data
      BY DEF NoData, Data
    <3>2. QED
      BY <2>2, <3>1, ToEventsType
  <2>4. EventLoop(kind, key, entry.refs, evts)
    BY <1>1 DEF Forget
  <2>5. work' \in [Kinds -> WorkType] /\ triggers' \in [Keys -> Nat]
    <3> HIDE DEF evts
    <3> QED
      BY <2>2, <2>3, <2>4, EventLoopType DEF CollectorsTypeOK, WorkQueueTypeOK
  <2>6. cache' \in [Keys -> CacheEntry \cup {None}]
    BY <1>1 DEF Forget, CollectorsTypeOK
  <2>7. QED
    BY <2>5, <2>6 DEF CollectorsTypeOK
<1>2. CASE ~Cached(key)
  BY <1>2 DEF Forget, CollectorsTypeOK, WorkQueueTypeOK, WorkType
<1>3. QED
  BY <1>1, <1>2

-----------------------------------------------------------------------------
(***************************************************************************)
(* Type correctness, one lemma per kind of step.                           *)
(***************************************************************************)

\* The informers store objects and enqueue keys.
LEMMA ClusterType == TypeOK /\ ClusterStep => TypeOK'
<1> SUFFICES ASSUME TypeOK, ClusterStep PROVE TypeOK'
  OBVIOUS
<1> USE DEF TypeOK
<1>1. ASSUME NEW key \in Keys, NEW obj \in Object \cup {None}, NEW seen, Observe(key, obj, seen)
      PROVE  WorkQueueTypeOK' /\ store' \in [Keys -> Object \cup {None}] /\ faults' \in 0..MaxFaults
  BY <1>1 DEF Observe, Enqueue, WorkQueueTypeOK, ClusterTypeOK
<1>2. WorkQueueTypeOK' /\ ClusterTypeOK'
  <2>1. ASSUME NEW key \in Keys, NEW node \in Nodes \cup {None}, CreateObject(key, node)
        PROVE  WorkQueueTypeOK' /\ ClusterTypeOK'
    <3> DEFINE obj == NewObject(born[key] + 1, node)
    <3>1. obj \in Object
      BY DEF NewObject, Object, ClusterTypeOK
    <3>2. Observe(key, obj, obj)
      BY <2>1 DEF CreateObject
    <3>3. born' \in [Keys -> Nat]
      BY <2>1 DEF CreateObject, ClusterTypeOK
    <3>4. QED
      BY <1>1, <3>1, <3>2, <3>3 DEF ClusterTypeOK
  <2>2. ASSUME NEW pod \in Pods, NEW node \in Nodes, SchedulePod(pod, node)
        PROVE  WorkQueueTypeOK' /\ ClusterTypeOK'
    <3> DEFINE obj == [store[pod] EXCEPT !.node = node]
    <3>1. obj \in Object /\ pod \in Keys
      BY <2>2 DEF SchedulePod, Exists, Object, ClusterTypeOK, Keys
    <3>2. Observe(pod, obj, obj) /\ born' = born
      BY <2>2 DEF SchedulePod
    <3>3. QED
      BY <1>1, <3>1, <3>2 DEF ClusterTypeOK
  <2>3. ASSUME NEW key \in Keys, UpdateObject(key)
        PROVE  WorkQueueTypeOK' /\ ClusterTypeOK'
    <3> DEFINE obj == [store[key] EXCEPT !.ver = @ + 1]
    <3>1. obj \in Object
      BY <2>3 DEF UpdateObject, Exists, Object, ClusterTypeOK
    <3>2. Observe(key, obj, obj) /\ born' = born
      BY <2>3 DEF UpdateObject
    <3>3. QED
      BY <1>1, <3>1, <3>2 DEF ClusterTypeOK
  <2>4. ASSUME NEW key \in Keys, DeleteObject(key)
        PROVE  WorkQueueTypeOK' /\ ClusterTypeOK'
    <3>1. Observe(key, None, store[key]) /\ born' = born
      BY <2>4 DEF DeleteObject
    <3>2. QED
      BY <1>1, <3>1 DEF ClusterTypeOK
  <2>5. QED
    BY <2>1, <2>2, <2>3, <2>4 DEF ClusterStep, ClusterNext
<1>3. UNCHANGED <<sliceVars, dispVars, cache, work, queue, watchVars, broVars>>
  BY DEF ClusterStep
<1>4. QED
  BY <1>2, <1>3 DEF sliceVars, dispVars, watchVars, broVars, SlicesTypeOK, DispatcherTypeOK,
     BlockingChannelTypeOK, CollectorsTypeOK, WatchTypeOK, BrokerTypeOK

\* A slice changes, or its dispatcher takes a step.
LEMMA SlicesType == TypeOK /\ (SliceChanges \/ DispatchSlices) => TypeOK'
<1> SUFFICES ASSUME TypeOK, SliceChanges \/ DispatchSlices PROVE TypeOK'
  OBVIOUS
<1> USE DEF TypeOK
<1>1. WorkQueueTypeOK' /\ SlicesTypeOK' /\ UNCHANGED clusterVars
  <2>1. ASSUME NEW e \in Slices, NEW pods \in (SUBSET Pods) \cup {None}, ChangeSlice(e, pods)
        PROVE  WorkQueueTypeOK' /\ SlicesTypeOK' /\ UNCHANGED clusterVars
    <3>1. ServiceOf[e] \in Keys
      BY SlicesAssumption DEF Keys
    <3>2. QED
      BY <2>1, <3>1 DEF ChangeSlice, Enqueue, WorkQueueTypeOK, SlicesTypeOK
  <2>2. ASSUME NEW e \in Slices, ReconcileSlice(e)
        PROVE  WorkQueueTypeOK' /\ SlicesTypeOK' /\ UNCHANGED clusterVars
    <3>1. TriggeredPods(e) \in SUBSET Pods
      <4>1. \A entry \in (SUBSET Pods) \cup {None} : PodsOf(entry) \in SUBSET Pods
        BY DEF PodsOf
      <4>2. QED
        BY <4>1 DEF TriggeredPods, SlicesTypeOK
    <3>2. \A service \in TriggeredServices(e) : service \in SUBSET Owners
      BY SlicesAssumption DEF TriggeredServices
    <3>3. QED
      BY <2>2, <3>1, <3>2 DEF ReconcileSlice, WorkQueueTypeOK, SlicesTypeOK, queueVars
  <2>3. ASSUME NEW pod \in Pods, TriggerPod(pod)
        PROVE  WorkQueueTypeOK' /\ SlicesTypeOK' /\ UNCHANGED clusterVars
    BY <2>3 DEF TriggerPod, Request, Trigger, WorkQueueTypeOK, SlicesTypeOK
  <2>4. ASSUME TriggerService
        PROVE  WorkQueueTypeOK' /\ SlicesTypeOK' /\ UNCHANGED clusterVars
    BY <2>4 DEF TriggerService, Request, Trigger, WorkQueueTypeOK, SlicesTypeOK, EpsIdle
  <2>5. QED
    BY <2>1, <2>2, <2>3, <2>4 DEF SliceChanges, DispatchSlices, SliceStep
<1>2. UNCHANGED <<dispVars, cache, work, queue, watchVars, broVars>>
  BY DEF SliceChanges, DispatchSlices
<1>3. QED
  BY <1>1, <1>2 DEF clusterVars, dispVars, watchVars, broVars, ClusterTypeOK, DispatcherTypeOK,
     BlockingChannelTypeOK, CollectorsTypeOK, WatchTypeOK, BrokerTypeOK

\* A generic event reaches a work queue.
LEMMA DeliverType ==
  ASSUME TypeOK, NEW key \in Keys, DeliverTrigger(key)
  PROVE  TypeOK'
<1>1. WorkQueueTypeOK'
  BY DEF TypeOK, DeliverTrigger, Deliver, Enqueue, WorkQueueTypeOK
<1>2. QED
  BY <1>1 DEF TypeOK, DeliverTrigger, clusterVars, sliceVars, dispVars, watchVars, broVars,
     ClusterTypeOK, SlicesTypeOK, DispatcherTypeOK, BlockingChannelTypeOK, CollectorsTypeOK,
     WatchTypeOK, BrokerTypeOK

\* A dispatcher updates its registry and enqueues keys.
LEMMA DispatchType ==
  ASSUME TypeOK, NEW kind \in Kinds, Dispatch(kind)
  PROVE  TypeOK'
<1> USE DEF TypeOK
<1>1. disp[kind] \in DispBusy \cup {DispIdle}
  BY DEF DispatcherTypeOK
<1>2. ASSUME NEW pods \in SUBSET Pods, Dispatching(kind, pods), disp[kind].pc # "idle"
      PROVE  disp' \in [Kinds -> DispBusy \cup {DispIdle}]
  <2>1. disp[kind] \in DispBusy
    BY <1>1, <1>2 DEF DispIdle
  <2>2. [disp[kind] EXCEPT !.pc = "send", !.todo = pods] \in DispBusy
    BY <2>1 DEF DispBusy
  <2>3. QED
    BY <1>2, <2>2 DEF Dispatching, DispatcherTypeOK
<1>3. WorkQueueTypeOK' /\ ClusterTypeOK' /\ DispatcherTypeOK'
  <2>1. CASE UpdateRegistry(kind)
    <3>1. disp[kind] \in DispBusy
      BY <1>1, <2>1 DEF UpdateRegistry, DispIdle
    <3>2. disp[kind].sub \in Subs /\ [disp[kind] EXCEPT !.pc = "list"] \in DispBusy
      BY <3>1 DEF DispBusy
    <3>3. disp' \in [Kinds -> DispBusy \cup {DispIdle}]
      BY <2>1, <3>2 DEF UpdateRegistry, DispatcherTypeOK
    <3>4. registry' \in [Kinds -> [Nodes -> SUBSET Subs]]
      <4> DEFINE s == disp[kind].sub
                 n == NodeOf[s]
                 new == IF disp[kind].join THEN registry[kind][n] \cup {s}
                        ELSE registry[kind][n] \ {s}
                 inner == [registry[kind] EXCEPT ![n] = new]
      <4>1. n \in Nodes
        BY <3>2, SubscribersAssumption
      <4>2. new \in SUBSET Subs
        BY <3>2, <4>1 DEF DispatcherTypeOK
      <4>3. inner \in [Nodes -> SUBSET Subs]
        BY <4>2 DEF DispatcherTypeOK
      <4>4. registry' = [registry EXCEPT ![kind] = inner]
        BY <2>1, <4>1 DEF UpdateRegistry, DispatcherTypeOK
      <4>5. QED
        BY <4>3, <4>4 DEF DispatcherTypeOK
    <3>5. QED
      BY <2>1, <3>3, <3>4 DEF UpdateRegistry, clusterVars, queueVars, DispatcherTypeOK,
         ClusterTypeOK, WorkQueueTypeOK
  <2>2. CASE ListPods(kind)
    <3>1. PodsOnNode(NodeOf[disp[kind].sub]) \in SUBSET Pods
      BY DEF PodsOnNode
    <3>2. disp' \in [Kinds -> DispBusy \cup {DispIdle}]
      BY <1>2, <2>2, <3>1 DEF ListPods
    <3>3. QED
      BY <2>2, <3>2 DEF ListPods, clusterVars, queueVars, DispatcherTypeOK, ClusterTypeOK,
         WorkQueueTypeOK
  <2>3. CASE ListPodsFails(kind)
    <3>1. disp' \in [Kinds -> DispBusy \cup {DispIdle}]
      BY <1>2, <2>3 DEF ListPodsFails
    <3>2. QED
      BY <2>3, <3>1, ClusterAssumption DEF ListPodsFails, Fault, queueVars, DispatcherTypeOK,
         ClusterTypeOK, WorkQueueTypeOK
  <2>4. ASSUME NEW pod \in Pods, DispatchPod(kind, pod)
        PROVE  WorkQueueTypeOK' /\ ClusterTypeOK' /\ DispatcherTypeOK'
    <3>1. disp[kind].todo \ {pod} \in SUBSET Pods
      BY <1>1 DEF DispBusy, DispIdle
    <3>2. disp' \in [Kinds -> DispBusy \cup {DispIdle}]
      BY <1>2, <2>4, <3>1 DEF DispatchPod
    <3>3. WorkQueueTypeOK'
      BY <2>4 DEF DispatchPod, Request, Trigger, WorkQueueTypeOK
    <3>4. QED
      BY <2>4, <3>2, <3>3 DEF DispatchPod, clusterVars, DispatcherTypeOK, ClusterTypeOK
  <2>5. ASSUME NEW pod \in Pods, DispatchPodFails(kind, pod)
        PROVE  WorkQueueTypeOK' /\ ClusterTypeOK' /\ DispatcherTypeOK'
    <3>1. disp[kind].todo \ {pod} \in SUBSET Pods
      BY <1>1 DEF DispBusy, DispIdle
    <3>2. disp' \in [Kinds -> DispBusy \cup {DispIdle}]
      BY <1>2, <2>5, <3>1 DEF DispatchPodFails
    <3>3. QED
      BY <2>5, <3>2, ClusterAssumption DEF DispatchPodFails, Fault, queueVars, DispatcherTypeOK,
         ClusterTypeOK, WorkQueueTypeOK
  <2>6. QED
    BY <2>1, <2>2, <2>3, <2>4, <2>5 DEF Dispatch, DispatcherStep
<1>4. QED
  BY <1>3 DEF Dispatch, sliceVars, watchVars, broVars, SlicesTypeOK, BlockingChannelTypeOK,
     CollectorsTypeOK, WatchTypeOK, BrokerTypeOK

\* The handlers: connections come and go, messages reach the dispatchers.
LEMMA WatchType ==
  ASSUME TypeOK, NEW sub \in Subs,
         StartWatch(sub) \/ EndStream(sub) \/ LeaveWatch(sub)
  PROVE  TypeOK'
<1>1. WatchTypeOK'
  <2>1. Notified(sub) \in SUBSET Kinds
    BY DEF Notified
  <2>2. QED
    BY <2>1 DEF TypeOK, WatchTypeOK, WatchState, StartWatch, Watch, EndStream, StreamEnds,
       LeaveWatch, LeaveOnStreamEnd, LeaveOnError, Leave
<1>2. QED
  BY <1>1 DEF TypeOK, StartWatch, EndStream, LeaveWatch, clusterVars, queueVars, sliceVars,
     dispVars, broVars, WorkQueueTypeOK, ClusterTypeOK, SlicesTypeOK, DispatcherTypeOK,
     BlockingChannelTypeOK, CollectorsTypeOK, BrokerTypeOK

\* A handler hands its message to the dispatcher of a kind.
LEMMA NotifyType ==
  ASSUME TypeOK, NEW sub \in Subs, NEW kind \in Kinds, Notify(sub, kind)
  PROVE  TypeOK'
<1>1. WatchTypeOK'
  BY DEF TypeOK, WatchTypeOK, WatchState, Notify, NotifyCollector
<1>2. DispatcherTypeOK'
  <2>1. [pc |-> "registry", sub |-> sub, join |-> Joins(sub), todo |-> {}] \in DispBusy
    BY DEF DispBusy, Joins
  <2>2. QED
    BY <2>1 DEF TypeOK, DispatcherTypeOK, Notify, Receive
<1>3. QED
  BY <1>1, <1>2 DEF TypeOK, Notify, clusterVars, queueVars, sliceVars, broVars, WorkQueueTypeOK,
     ClusterTypeOK, SlicesTypeOK, BlockingChannelTypeOK, CollectorsTypeOK, BrokerTypeOK

\* A worker takes a step of its reconcile.
LEMMA ReconcileType ==
  ASSUME TypeOK, NEW kind \in Kinds, Reconcile(kind)
  PROVE  TypeOK'
<1> USE DEF TypeOK
<1> DEFINE w == work[kind]
           Good == /\ WorkQueueTypeOK' /\ ClusterTypeOK' /\ DispatcherTypeOK'
                   /\ CollectorsTypeOK' /\ BlockingChannelTypeOK'
<1> SUFFICES Good
  BY DEF Reconcile, sliceVars, watchVars, broVars, SlicesTypeOK, WatchTypeOK, BrokerTypeOK
<1>1. w \in WorkType
  BY DEF CollectorsTypeOK
<1>2. w.pc \in {"subs", "refs"} =>
        w.key \in Pods /\ w.obj \in Object /\ w.subs \in SUBSET Subs
  BY <1>1 DEF WorkType, WorkRead, WorkPush, WorkIdle
<1>3. w.pc \in {"list", "nodes"} =>
        /\ w.key \in Owners /\ w.obj \in Object
        /\ w.todo \in SUBSET (Pods \X Nodes) /\ w.subs \in SUBSET Subs
  BY <1>1 DEF WorkType, WorkRead, WorkPush, WorkIdle
<1>4. w.pc = "push" =>
        w.key \in Keys /\ w.refs \in SUBSET Owners /\ w.evts \in Seq(Event) \ {<<>>}
  BY <1>1 DEF WorkType, WorkRead, WorkPush, WorkIdle
<1>5. ASSUME NEW key \in Keys, Get(kind, key)
      PROVE  Good
  <2>1. CollectorsTypeOK' /\ triggers' \in [Keys -> Nat]
    <3>1. CASE Exists(key)
      <4> DEFINE new == [WorkIdle EXCEPT !.pc = IF kind = "Pod" THEN "subs" ELSE "list",
                                         !.key = key, !.obj = store[key]]
      <4>1. store[key] \in Object
        BY <3>1 DEF Exists, ClusterTypeOK
      <4>2. kind = "Pod" <=> key \in Pods
        BY <1>5, KindType DEF Get
      <4>3. new \in WorkRead
        BY <4>1, <4>2 DEF WorkIdle, WorkRead, Keys
      <4>4. work' = [work EXCEPT ![kind] = new] /\ UNCHANGED <<cache, triggers>>
        BY <1>5, <3>1 DEF Get
      <4>5. QED
        BY <4>3, <4>4 DEF CollectorsTypeOK, WorkQueueTypeOK, WorkType
    <3>2. CASE ~Exists(key)
      BY <1>5, <3>2, ForgetType DEF Get
    <3>3. QED
      BY <3>1, <3>2
  <2>2. dirty' \in SUBSET Keys
    BY <1>5 DEF Get, WorkQueueTypeOK
  <2>3. QED
    BY <1>5, <2>1, <2>2 DEF Get, clusterVars, WorkQueueTypeOK, ClusterTypeOK, DispatcherTypeOK,
       BlockingChannelTypeOK
<1>6. CASE kind = "Pod" /\ ReadPodSubscribers
  <2> DEFINE subs == SubscribersPerNode("Pod", w.obj.node)
  <2>1. w.pc = "subs" /\ w.key \in Keys /\ w \in WorkRead
    BY <1>1, <1>2, <1>6 DEF ReadPodSubscribers, Keys, WorkType, WorkPush, WorkIdle
  <2>2. subs \in SUBSET Subs
    BY <1>2, <1>6, <2>1 DEF SubscribersPerNode, DispatcherTypeOK, Object
  <2>3. CASE subs = {}
    BY <1>6, <2>1, <2>3 DEF ReadPodSubscribers, CollectorsTypeOK, WorkType, clusterVars, queueVars,
       WorkQueueTypeOK, ClusterTypeOK, DispatcherTypeOK, BlockingChannelTypeOK
  <2>4. CASE subs # {}
    <3>1. [w EXCEPT !.pc = "refs", !.subs = subs] \in WorkRead
      BY <2>1, <2>2 DEF WorkRead
    <3>2. work' = [work EXCEPT ![kind] = [w EXCEPT !.pc = "refs", !.subs = subs]]
      BY <1>6, <2>4 DEF ReadPodSubscribers, CollectorsTypeOK
    <3>3. CollectorsTypeOK'
      BY <1>6, <2>4, <3>1, <3>2 DEF ReadPodSubscribers, CollectorsTypeOK, WorkType
    <3>4. QED
      BY <1>6, <3>3 DEF ReadPodSubscribers, clusterVars, queueVars,
         WorkQueueTypeOK, ClusterTypeOK, DispatcherTypeOK, BlockingChannelTypeOK
  <2>5. QED
    BY <2>3, <2>4
<1>7. CASE kind = "Pod" /\ RefreshPod
  <2> DEFINE data == [ver |-> w.obj.ver, refs |-> PodRefs(w.key)]
             uid == <<w.key, w.obj.inc>>
  <2>1. w.key \in Pods /\ w.obj \in Object /\ w.subs \in SUBSET Subs
    BY <1>2, <1>7 DEF RefreshPod
  <2>2. PodRefs(w.key) \in SUBSET Owners
    BY <2>1, RelationsAssumption DEF PodRefs
  <2>3. data \in Data /\ uid \in Uid /\ w.key \in Keys
    BY <2>1, <2>2 DEF Data, Uid, Object, Keys
  <2>4. Refresh(kind, w.key, uid, data, w.subs)
    BY <1>7 DEF RefreshPod
  <2>5. CollectorsTypeOK' /\ triggers' \in [Keys -> Nat]
    <3> HIDE DEF data, uid, w
    <3> QED
      BY <2>1, <2>3, <2>4, RefreshType
  <2>6. QED
    BY <1>7, <2>5 DEF RefreshPod, clusterVars, WorkQueueTypeOK, ClusterTypeOK, DispatcherTypeOK,
       BlockingChannelTypeOK
<1>8. ASSUME w.key \in Keys, Requeue(kind), faults' \in 0..MaxFaults
      PROVE  Good
  BY <1>8 DEF Requeue, Enqueue, WorkQueueTypeOK, ClusterTypeOK, DispatcherTypeOK,
     BlockingChannelTypeOK, CollectorsTypeOK, WorkType
<1>9. CASE kind = "Pod" /\ NamespaceMissing
  <2>1. w.key \in Keys /\ Requeue(kind) /\ faults' \in 0..MaxFaults
    BY <1>2, <1>9 DEF NamespaceMissing, Keys, ClusterTypeOK
  <2>2. QED
    BY <1>8, <2>1
<1>10. CASE ReadFails(kind)
  <2>1. w.key \in Keys /\ Requeue(kind) /\ faults' \in 0..MaxFaults
    BY <1>2, <1>3, <1>10, ClusterAssumption DEF ReadFails, Keys, Fault, ClusterTypeOK
  <2>2. QED
    BY <1>8, <2>1
<1>11. ASSUME NEW todo \in SUBSET (Pods \X Nodes), NEW subs \in SUBSET Subs,
              w.pc \in {"list", "nodes"}, Visit(kind, todo, subs)
       PROVE  CollectorsTypeOK' /\ triggers' \in [Keys -> Nat]
  <2>1. CASE todo # {}
    <3>1. w \in WorkRead
      BY <1>1, <1>11 DEF WorkType, WorkPush, WorkIdle
    <3>2. [w EXCEPT !.pc = "nodes", !.todo = todo, !.subs = subs] \in WorkRead
      BY <1>11, <3>1 DEF WorkRead
    <3>3. QED
      BY <1>11, <2>1, <3>2 DEF Visit, CollectorsTypeOK, WorkQueueTypeOK, WorkType
  <2>2. CASE todo = {} /\ subs = {}
    <3>1. Forget(kind, w.key) /\ w.key \in Keys
      BY <1>3, <1>11, <2>2 DEF Visit, Keys
    <3>2. QED
      BY <3>1, ForgetType
  <2>3. CASE todo = {} /\ subs # {}
    <3> DEFINE data == [ver |-> w.obj.ver, refs |-> {}]
               uid == <<w.key, w.obj.inc>>
    <3>1. data \in Data /\ uid \in Uid /\ w.key \in Keys
      BY <1>3, <1>11 DEF Data, Uid, Object, Keys
    <3>2. Refresh(kind, w.key, uid, data, subs)
      BY <1>11, <2>3 DEF Visit
    <3>3. QED
      <4> HIDE DEF data, uid, w
      <4> QED
        BY <3>1, <3>2, RefreshType
  <2>4. QED
    BY <2>1, <2>2, <2>3
<1>12. CASE ListRelatedPods(kind)
  <2>1. PlacedPods(w.key) \in SUBSET (Pods \X Nodes)
    <3>1. \A p \in Pods : Exists(p) /\ store[p].node # None => store[p].node \in Nodes
      BY DEF Exists, ClusterTypeOK, Object, Keys
    <3>2. w.key \in Owners
      BY <1>3, <1>12 DEF ListRelatedPods
    <3>3. QED
      BY <3>1, <3>2, RelationsAssumption DEF PlacedPods
  <2>2. CollectorsTypeOK' /\ triggers' \in [Keys -> Nat]
    BY <1>11, <1>12, <2>1 DEF ListRelatedPods
  <2>3. QED
    BY <1>12, <2>2 DEF ListRelatedPods, clusterVars, WorkQueueTypeOK, ClusterTypeOK,
       DispatcherTypeOK, BlockingChannelTypeOK
<1>13. ASSUME NEW placed \in Pods \X Nodes, CollectNode(kind, placed)
       PROVE  Good
  <2>1. /\ w.todo \ {placed} \in SUBSET (Pods \X Nodes)
        /\ w.subs \cup SubscribersPerNode(kind, placed[2]) \in SUBSET Subs
    BY <1>3, <1>13 DEF CollectNode, SubscribersPerNode, DispatcherTypeOK
  <2>2. CollectorsTypeOK' /\ triggers' \in [Keys -> Nat]
    BY <1>11, <1>13, <2>1 DEF CollectNode
  <2>3. QED
    BY <1>13, <2>2 DEF CollectNode, clusterVars, WorkQueueTypeOK, ClusterTypeOK,
       DispatcherTypeOK, BlockingChannelTypeOK
<1>14. CASE PushEvent(kind)
  <2>1. w.key \in Keys /\ w.refs \in SUBSET Owners /\ w.evts \in Seq(Event) /\ w.evts # <<>>
    BY <1>4, <1>14 DEF PushEvent
  <2>2. Head(w.evts) \in Event /\ Tail(w.evts) \in Seq(Event)
    BY <2>1
  <2>3. EventLoop(kind, w.key, w.refs, Tail(w.evts))
    BY <1>14 DEF PushEvent
  <2>4. work' \in [Kinds -> WorkType] /\ triggers' \in [Keys -> Nat]
    <3> HIDE DEF w
    <3> QED
      BY <2>1, <2>2, <2>3, EventLoopType DEF CollectorsTypeOK, WorkQueueTypeOK
  <2>5. BlockingChannelTypeOK'
    BY <1>14, <2>2, QueueLenAssumption DEF PushEvent, Push, BlockingChannelTypeOK
  <2>6. QED
    BY <1>14, <2>4, <2>5 DEF PushEvent, clusterVars, WorkQueueTypeOK, ClusterTypeOK,
       DispatcherTypeOK, CollectorsTypeOK
<1>15. QED
  BY <1>5, <1>6, <1>7, <1>9, <1>10, <1>12, <1>13, <1>14 DEF Reconcile, WorkerStep

\* The broker holds an event, looks connections up and sends.
LEMMA BrokerType == TypeOK /\ BrokerStep => TypeOK'
<1> SUFFICES ASSUME TypeOK, BrokerStep PROVE TypeOK'
  OBVIOUS
<1> USE DEF TypeOK
<1>1. ASSUME NEW evt \in Event, NEW todo \in SUBSET Subs, NEW con \in Subs \cup {None}
      PROVE  Holding(evt, todo, con) \in BroBusy \cup {BroIdle}
  BY DEF Holding, BroBusy
<1>2. ASSUME bro # BroIdle
      PROVE  bro.evt \in Event /\ bro.todo \in SUBSET Subs
  BY <1>2 DEF BrokerTypeOK, BroBusy
<1>3. /\ BrokerTypeOK' /\ BlockingChannelTypeOK' /\ WatchTypeOK'
      /\ faults' \in 0..MaxFaults
  <2>1. CASE PopEvent /\ UNCHANGED faults
    <3>1. Head(queue) \in Event /\ BlockingChannelTypeOK'
      BY <2>1, QueueLenAssumption DEF PopEvent, Pop, BlockingChannelTypeOK
    <3>2. Head(queue).subs \in SUBSET Subs
      BY <3>1 DEF Event
    <3>3. QED
      BY <1>1, <2>1, <3>1, <3>2 DEF PopEvent, watchVars, BrokerTypeOK, WatchTypeOK, ClusterTypeOK
  <2>2. ASSUME NEW sub \in Subs, LoadConnection(sub), UNCHANGED faults
        PROVE  /\ BrokerTypeOK' /\ BlockingChannelTypeOK' /\ WatchTypeOK'
               /\ faults' \in 0..MaxFaults
    <3>1. bro # BroIdle
      BY <2>2 DEF LoadConnection, BroIdle
    <3>2. QED
      BY <1>1, <1>2, <2>2, <3>1 DEF LoadConnection, watchVars, BrokerTypeOK, WatchTypeOK,
         BlockingChannelTypeOK, ClusterTypeOK
  <2>3. ASSUME NEW sub \in Subs, Send(sub), UNCHANGED faults
        PROVE  /\ BrokerTypeOK' /\ BlockingChannelTypeOK' /\ WatchTypeOK'
               /\ faults' \in 0..MaxFaults
    <3>1. bro # BroIdle
      BY <2>3, KeysAssumption DEF Send, BroIdle
    <3>2. Apply(mirror[sub], bro.evt) \in SUBSET Item
      <4>1. [uid |-> bro.evt.uid, data |-> bro.evt.data] \in Item
        BY <1>2, <3>1 DEF Event, Item
      <4>2. QED
        BY <4>1 DEF Apply, BrokerTypeOK
    <3>3. QED
      BY <1>1, <1>2, <2>3, <3>1, <3>2 DEF Send, watchVars, BrokerTypeOK, WatchTypeOK,
         BlockingChannelTypeOK, ClusterTypeOK
  <2>4. ASSUME NEW sub \in Subs, SendFails(sub), UNCHANGED faults \/ Fault("send")
        PROVE  /\ BrokerTypeOK' /\ BlockingChannelTypeOK' /\ WatchTypeOK'
               /\ faults' \in 0..MaxFaults
    <3>1. bro # BroIdle
      BY <2>4, KeysAssumption DEF SendFails, BroIdle
    <3>2. faults' \in 0..MaxFaults
      BY <2>4, ClusterAssumption DEF Fault, ClusterTypeOK
    <3>3. WatchTypeOK'
      BY <2>4 DEF SendFails, Close, SendError, WatchTypeOK
    <3>4. QED
      BY <1>1, <1>2, <2>4, <3>1, <3>2, <3>3 DEF SendFails, BrokerTypeOK, BlockingChannelTypeOK
  <2>5. QED
    BY <2>1, <2>2, <2>3, <2>4 DEF BrokerStep
<1>4. QED
  BY <1>3 DEF BrokerStep, sliceVars, queueVars, dispVars, ClusterTypeOK, SlicesTypeOK,
     WorkQueueTypeOK, DispatcherTypeOK, CollectorsTypeOK

\* The initial state has the types of all the components.
LEMMA InitType == Init => TypeOK
<1> SUFFICES ASSUME Init PROVE TypeOK
  OBVIOUS
<1>1. WorkQueueTypeOK /\ ClusterTypeOK
  <2>1. Initial \subseteq Keys /\ NewObject(1, None) \in Object
    BY ClusterAssumption DEF Keys, NewObject, Object
  <2>2. QED
    BY <2>1, ClusterAssumption DEF Init, ClusterInit, WorkQueueTypeOK, ClusterTypeOK
<1>2. SlicesTypeOK
  BY DEF Init, SlicesInit, SlicesTypeOK, EpsIdle
<1>3. DispatcherTypeOK /\ CollectorsTypeOK /\ BlockingChannelTypeOK
  BY QueueLenAssumption DEF Init, DispatcherInit, CollectorsInit, BlockingChannelInit, WorkType,
     DispatcherTypeOK, CollectorsTypeOK, BlockingChannelTypeOK
<1>4. WatchTypeOK /\ BrokerTypeOK
  BY DEF Init, WatchInit, WatchState, BrokerInit, WatchTypeOK, BrokerTypeOK
<1>5. QED
  BY <1>1, <1>2, <1>3, <1>4 DEF TypeOK

\* Every step of any component preserves the types.
LEMMA StepType == TypeOK /\ [Next]_vars => TypeOK'
<1> SUFFICES ASSUME TypeOK, [Next]_vars PROVE TypeOK'
  OBVIOUS
<1>1. CASE Next
  BY <1>1, ClusterType, SlicesType, DeliverType, DispatchType, ReconcileType, WatchType,
     NotifyType, BrokerType DEF Next
<1>2. CASE UNCHANGED vars
  BY <1>2 DEF vars, clusterVars, queueVars, sliceVars, dispVars, watchVars, broVars, TypeOK,
     WorkQueueTypeOK, ClusterTypeOK, SlicesTypeOK, DispatcherTypeOK, BlockingChannelTypeOK,
     CollectorsTypeOK, WatchTypeOK, BrokerTypeOK
<1>3. QED
  BY <1>1, <1>2

\* Every variable keeps its type: the queue never exceeds its length, a
\* worker that pushes has an event to push, and a reconcile holds an object
\* of the kind of its collector.
THEOREM TypeCorrect == Spec => []TypeOK
<1>1. QED
  BY InitType, StepType, PTL DEF Spec

-----------------------------------------------------------------------------
(***************************************************************************)
(* The life of a subscriber.                                               *)
(***************************************************************************)

\* A dispatcher has received the message of sub and is about to apply it.
Holds(kind, sub, join) ==
  disp[kind].pc = "registry" /\ disp[kind].sub = sub /\ disp[kind].join = join

\* The collector of kind was told that sub joined, and not yet that it left.
Told(kind, sub) ==
  \/ watch[sub].phase = "joined" /\ kind \notin watch[sub].todo
  \/ watch[sub].phase = "left" /\ kind \in watch[sub].todo

\* The strengthening of RegisteredHasConnection: where the messages of sub to
\* the collector of kind stand.
Life(kind, sub) ==
  /\ sub \in registry[kind][NodeOf[sub]] => Told(kind, sub) \/ Holds(kind, sub, FALSE)
  /\ Holds(kind, sub, TRUE) => Told(kind, sub)
  /\ Holds(kind, sub, FALSE) => watch[sub].phase = "left" /\ kind \notin watch[sub].todo
  /\ Holds(kind, sub, TRUE) \/ Holds(kind, sub, FALSE) => kind \in KindsOf[sub]
  /\ kind \in watch[sub].todo => kind \in KindsOf[sub] /\ watch[sub].phase # "new"
  /\ sub \in conns <=> watch[sub].phase = "joined"
  /\ \A node \in Nodes : sub \in registry[kind][node] =>
       node = NodeOf[sub] /\ kind \in KindsOf[sub]

SubscriberLife == \A kind \in Kinds, sub \in Subs : Life(kind, sub)

\* A step that touches neither registries, dispatchers nor handlers.
LEMMA LifeUnchanged ==
  ASSUME SubscriberLife, UNCHANGED <<registry, disp, watch, conns>>
  PROVE  SubscriberLife'
BY DEF SubscriberLife, Life, Told, Holds

\* The dispatcher of kind applies the message it holds, or works on.
LEMMA LifeDispatch ==
  ASSUME TypeOK, SubscriberLife, NEW kind \in Kinds, Dispatch(kind)
  PROVE  SubscriberLife'
<1>1. UNCHANGED <<watch, conns>>
  BY DEF Dispatch, watchVars
<1>2. SUFFICES ASSUME NEW k \in Kinds, NEW s \in Subs
               PROVE  Life(k, s)'
  BY DEF SubscriberLife
<1>3. Life(k, s)
  BY DEF SubscriberLife
<1>4. disp \in [Kinds -> DispBusy \cup {DispIdle}] /\ registry \in [Kinds -> [Nodes -> SUBSET Subs]]
  BY DEF TypeOK, DispatcherTypeOK
<1>5. CASE UpdateRegistry(kind)
  <2> DEFINE d == disp[kind]
             n == NodeOf[d.sub]
  <2>1. d.sub \in Subs /\ d.join \in BOOLEAN /\ n \in Nodes
    BY <1>4, <1>5, SubscribersAssumption DEF UpdateRegistry, DispBusy, DispIdle
  <2>2. disp'[kind].pc = "list" /\ \A j \in Kinds \ {kind} : disp'[j] = disp[j]
    BY <1>4, <1>5, <2>1 DEF UpdateRegistry, DispBusy, DispIdle
  <2>3. CASE k # kind
    <3>1. registry'[k] = registry[k] /\ disp'[k] = disp[k]
      BY <1>4, <1>5, <2>2, <2>3 DEF UpdateRegistry
    <3>2. QED
      BY <1>1, <1>3, <3>1 DEF Life, Told, Holds
  <2>4. CASE k = kind
    <3>1. /\ registry'[k][n] = IF d.join THEN registry[k][n] \cup {d.sub}
                                ELSE registry[k][n] \ {d.sub}
          /\ \A m \in Nodes \ {n} : registry'[k][m] = registry[k][m]
      BY <1>4, <1>5, <2>1, <2>4 DEF UpdateRegistry
    <3>2. ~Holds(k, s, TRUE)' /\ ~Holds(k, s, FALSE)'
      BY <2>2, <2>4 DEF Holds
    <3>3. d.pc = "registry"
      BY <1>5 DEF UpdateRegistry
    <3>4. CASE s # d.sub
      <4>1. \A m \in Nodes : s \in registry'[k][m] <=> s \in registry[k][m]
        BY <2>1, <3>1, <3>4
      <4>2. ~Holds(k, s, FALSE)
        BY <2>4, <3>4 DEF Holds
      <4>3. NodeOf[s] \in Nodes
        BY SubscribersAssumption
      <4>4. QED
        BY <1>1, <1>3, <3>2, <4>1, <4>2, <4>3 DEF Life, Told
    <3>5. CASE s = d.sub /\ d.join
      <4>1. Told(k, s) /\ k \in KindsOf[s]
        BY <1>3, <2>1, <2>4, <3>3, <3>5 DEF Life, Holds
      <4>2. QED
        BY <1>1, <1>3, <2>1, <3>1, <3>2, <3>5, <4>1 DEF Life, Told
    <3>6. CASE s = d.sub /\ ~d.join
      <4>1. s \notin registry'[k][n]
        BY <3>1, <3>6
      <4>2. QED
        BY <1>1, <1>3, <2>1, <3>1, <3>2, <3>6, <4>1 DEF Life, Told
    <3>7. QED
      BY <2>1, <3>4, <3>5, <3>6
  <2>5. QED
    BY <2>3, <2>4
<1>6. ASSUME NEW pods, Dispatching(kind, pods), disp[kind].pc # "registry", disp[kind].pc # "idle",
             registry' = registry
      PROVE  Life(k, s)'
  <2>1. disp[kind] \in DispBusy
    BY <1>4, <1>6 DEF DispIdle
  <2>2. disp'[kind].pc \in {"idle", "send"} /\ \A j \in Kinds \ {kind} : disp'[j] = disp[j]
    BY <1>4, <1>6, <2>1 DEF Dispatching, DispBusy, DispIdle
  <2>3. \A b \in BOOLEAN : Holds(k, s, b)' <=> Holds(k, s, b)
    BY <1>6, <2>2 DEF Holds
  <2>4. QED
    BY <1>1, <1>3, <1>6, <2>3 DEF Life, Told
<1>7. QED
  BY <1>5, <1>6 DEF Dispatch, DispatcherStep, ListPods, ListPodsFails, DispatchPod, DispatchPodFails

\* A handler starts, is told that its stream ended, or leaves.
LEMMA LifeWatch ==
  ASSUME TypeOK, SubscriberLife, NEW sub \in Subs,
         StartWatch(sub) \/ EndStream(sub) \/ LeaveWatch(sub)
  PROVE  SubscriberLife'
<1>1. UNCHANGED <<registry, disp>>
  BY DEF StartWatch, EndStream, LeaveWatch, dispVars
<1>2. CASE EndStream(sub)
  BY <1>1, <1>2, LifeUnchanged DEF EndStream, StreamEnds
<1>3. ASSUME NEW k \in Kinds, NEW s \in Subs, StartWatch(sub) \/ LeaveWatch(sub)
      PROVE  Life(k, s)'
  <2>1. Life(k, s) /\ watch \in [Subs -> WatchState]
    BY DEF SubscriberLife, TypeOK, WatchTypeOK
  <2>2. \A b \in BOOLEAN : Holds(k, s, b)' <=> Holds(k, s, b)
    BY <1>1 DEF Holds
  <2>3. CASE s # sub
    <3>1. watch'[s] = watch[s] /\ (s \in conns' <=> s \in conns)
      BY <1>3, <2>1, <2>3 DEF StartWatch, Watch, LeaveWatch, LeaveOnStreamEnd, LeaveOnError, Leave
    <3>2. QED
      BY <1>1, <2>1, <2>2, <3>1 DEF Life, Told
  <2>4. CASE s = sub /\ StartWatch(sub)
    <3>1. /\ watch[s].phase = "new"
          /\ watch'[s] = [phase |-> "joined", todo |-> Notified(s)]
          /\ s \in conns'
      BY <2>1, <2>4 DEF StartWatch, Watch
    <3>2. ~Told(k, s)
      BY <3>1 DEF Told
    <3>3. ~Holds(k, s, TRUE) /\ ~Holds(k, s, FALSE)
      BY <2>1, <3>1, <3>2 DEF Life
    <3>4. s \notin registry[k][NodeOf[s]]
      BY <2>1, <3>2, <3>3 DEF Life
    <3>5. QED
      <4>1. watch'[s].phase = "joined" /\ (k \in watch'[s].todo => k \in KindsOf[s])
        BY <3>1 DEF Notified
      <4>2. ~Holds(k, s, TRUE)' /\ ~Holds(k, s, FALSE)'
        BY <2>2, <3>3
      <4>3. QED
        BY <1>1, <2>1, <3>1, <3>4, <4>1, <4>2 DEF Life
  <2>5. CASE s = sub /\ LeaveWatch(sub)
    <3>1. /\ watch[s].phase = "joined" /\ watch[s].todo = {}
          /\ watch'[s] = [phase |-> "left", todo |-> Notified(s)]
          /\ s \notin conns'
      BY <2>1, <2>5 DEF LeaveWatch, LeaveOnStreamEnd, LeaveOnError, Leave, Serving
    <3>2. ~Holds(k, s, FALSE)
      BY <2>1, <3>1 DEF Life
    <3>3. k \in KindsOf[s] => Told(k, s)'
      BY <3>1 DEF Told, Notified
    <3>4. s \in registry[k][NodeOf[s]] => k \in KindsOf[s]
      BY <2>1, SubscribersAssumption DEF Life
    <3>5. QED
      <4>1. watch'[s].phase = "left" /\ (k \in watch'[s].todo => k \in KindsOf[s])
        BY <3>1 DEF Notified
      <4>2. ~Holds(k, s, FALSE)' /\ (Holds(k, s, TRUE)' => k \in KindsOf[s])
        BY <2>1, <2>2, <3>2 DEF Life
      <4>3. QED
        BY <1>1, <2>1, <3>1, <3>3, <3>4, <4>1, <4>2 DEF Life
  <2>6. QED
    BY <1>3, <2>3, <2>4, <2>5
<1>4. QED
  BY <1>2, <1>3 DEF SubscriberLife

\* A handler hands a message over.
LEMMA LifeNotify ==
  ASSUME TypeOK, SubscriberLife, NEW sub \in Subs, NEW kind \in Kinds, Notify(sub, kind)
  PROVE  SubscriberLife'
<1>1. SUFFICES ASSUME NEW k \in Kinds, NEW s \in Subs
               PROVE  Life(k, s)'
  BY DEF SubscriberLife
<1>2. /\ Life(k, s) /\ watch \in [Subs -> WatchState]
      /\ disp \in [Kinds -> DispBusy \cup {DispIdle}]
  BY DEF SubscriberLife, TypeOK, WatchTypeOK, DispatcherTypeOK
<1>3. UNCHANGED <<registry, conns>>
  BY DEF Notify, NotifyCollector, Receive
<1>4. /\ kind \in watch[sub].todo
      /\ watch'[sub].phase = watch[sub].phase
      /\ watch'[sub].todo = watch[sub].todo \ {kind}
      /\ \A r \in Subs \ {sub} : watch'[r] = watch[r]
  BY <1>2 DEF Notify, NotifyCollector, WatchState
<1>5. /\ disp[kind].pc = "idle"
      /\ disp'[kind].pc = "registry" /\ disp'[kind].sub = sub /\ disp'[kind].join = Joins(sub)
      /\ \A j \in Kinds \ {kind} : disp'[j] = disp[j]
  BY <1>2 DEF Notify, Receive
<1>6. CASE k # kind
  <2>1. \A b \in BOOLEAN : Holds(k, s, b)' <=> Holds(k, s, b)
    BY <1>5, <1>6 DEF Holds
  <2>2. k \in watch'[s].todo <=> k \in watch[s].todo
    BY <1>4, <1>6
  <2>3. watch'[s].phase = watch[s].phase
    BY <1>4
  <2>4. QED
    BY <1>2, <1>3, <2>1, <2>2, <2>3 DEF Life, Told
<1>7. CASE k = kind /\ s # sub
  <2>1. ~Holds(k, s, TRUE) /\ ~Holds(k, s, FALSE) /\ ~Holds(k, s, TRUE)' /\ ~Holds(k, s, FALSE)'
    BY <1>5, <1>7 DEF Holds
  <2>2. QED
    BY <1>2, <1>3, <1>4, <1>7, <2>1 DEF Life, Told
<1>8. CASE k = kind /\ s = sub
  <2>1. ~Holds(k, s, TRUE) /\ ~Holds(k, s, FALSE)
    BY <1>5, <1>8 DEF Holds
  <2>2. watch[s].phase \in {"new", "joined", "left"}
    BY <1>2 DEF WatchState
  <2>3. CASE watch[s].phase = "joined"
    <3>1. Holds(k, s, TRUE)' /\ ~Holds(k, s, FALSE)' /\ Told(k, s)'
      BY <1>4, <1>5, <1>8, <2>3 DEF Holds, Told, Joins
    <3>2. QED
      BY <1>2, <1>3, <1>4, <1>8, <2>1, <3>1 DEF Life
  <2>4. CASE watch[s].phase = "left"
    <3>1. Holds(k, s, FALSE)' /\ ~Holds(k, s, TRUE)'
      BY <1>5, <1>8, <2>4 DEF Holds, Joins
    <3>2. QED
      BY <1>2, <1>3, <1>4, <1>8, <2>1, <2>4, <3>1 DEF Life
  <2>5. watch[s].phase # "new"
    BY <1>2, <1>4, <1>8 DEF Life
  <2>6. QED
    BY <2>2, <2>3, <2>4, <2>5
<1>9. QED
  BY <1>6, <1>7, <1>8

\* No subscriber is registered before the first Watch.
LEMMA LifeInit == Init => SubscriberLife
<1> SUFFICES ASSUME Init, NEW kind \in Kinds, NEW sub \in Subs PROVE Life(kind, sub)
  BY DEF SubscriberLife
<1>1. disp[kind].pc = "idle" /\ \A node \in Nodes : registry[kind][node] = {}
  BY DEF Init, DispatcherInit, DispIdle
<1>2. watch[sub].phase = "new" /\ watch[sub].todo = {} /\ conns = {}
  BY DEF Init, WatchInit
<1>3. NodeOf[sub] \in Nodes
  BY SubscribersAssumption
<1>4. QED
  BY <1>1, <1>2, <1>3 DEF Life, Holds

\* Every step of any component preserves the life of the subscribers.
LEMMA LifeStep == TypeOK /\ SubscriberLife /\ [Next]_vars => SubscriberLife'
<1> SUFFICES ASSUME TypeOK, SubscriberLife, [Next]_vars PROVE SubscriberLife'
  OBVIOUS
<1>1. CASE \/ ClusterStep \/ SliceChanges \/ DispatchSlices \/ BrokerStep
           \/ \E key \in Keys : DeliverTrigger(key)
           \/ UNCHANGED vars
  <2>1. UNCHANGED <<registry, disp, watch, conns>>
    <3>1. CASE BrokerStep
      BY <3>1 DEF BrokerStep, dispVars, watchVars, PopEvent, LoadConnection, Send, SendFails
    <3>2. CASE ~BrokerStep
      BY <1>1, <3>2 DEF ClusterStep, SliceChanges, DispatchSlices, DeliverTrigger, vars, dispVars,
         watchVars
    <3>3. QED
      BY <3>1, <3>2
  <2>2. QED
    BY <2>1, LifeUnchanged
<1>2. ASSUME NEW kind \in Kinds, Reconcile(kind)
      PROVE  SubscriberLife'
  <2>1. UNCHANGED <<registry, disp>>
    BY <1>2 DEF Reconcile, WorkerStep, Get, ReadPodSubscribers, RefreshPod, NamespaceMissing,
       Requeue, ReadFails, ListRelatedPods, CollectNode, PushEvent
  <2>2. QED
    BY <1>2, <2>1, LifeUnchanged DEF Reconcile, watchVars
<1>3. QED
  BY <1>1, <1>2, LifeDispatch, LifeWatch, LifeNotify DEF Next

\* For any cluster and any number of subscribers, no order of Watch calls,
\* ends of streams and messages leaves a subscriber in the registry of a
\* collector after its call ended: it has a connection, or the message that
\* removes it is on its way (Watch, notifyCollectors and dispatch).
THEOREM NoSubscriberLeftBehind == Spec => []RegisteredHasConnection
<1>1. SubscriberLife /\ TypeOK => RegisteredHasConnection
  <2> SUFFICES ASSUME SubscriberLife, TypeOK, NEW kind \in Kinds, NEW node \in Nodes,
                      NEW sub \in registry[kind][node]
               PROVE  /\ node = NodeOf[sub] /\ kind \in KindsOf[sub]
                      /\ sub \in conns \/ Departing(sub, kind)
    BY DEF RegisteredHasConnection
  <2>1. sub \in Subs
    BY DEF TypeOK, DispatcherTypeOK
  <2>2. Life(kind, sub)
    BY <2>1 DEF SubscriberLife
  <2>3. QED
    BY <2>2 DEF Life, Told, Holds, Departing
<1>2. QED
  BY <1>1, InitType, StepType, LifeInit, LifeStep, PTL DEF Spec

-----------------------------------------------------------------------------
\* An error waits in the channel of a connection only if its once is used.
ErrorsAreClosed == errors \subseteq closed

\* Whatever the handlers and the clients do, Connection.Close finds room in
\* the channel of the connection: the broker, which serves everybody, never
\* waits for a handler.
THEOREM BrokerNeverBlocksInClose == Spec => []CloseNeverBlocks
<1>1. Init => ErrorsAreClosed
  BY DEF Init, WatchInit, ErrorsAreClosed
<1>2. ErrorsAreClosed /\ [Next]_vars => ErrorsAreClosed'
  <2> SUFFICES ASSUME ErrorsAreClosed, [Next]_vars PROVE ErrorsAreClosed'
    OBVIOUS
  <2>1. CASE BrokerStep
    BY <2>1 DEF BrokerStep, PopEvent, LoadConnection, Send, SendFails, Close, SendError, watchVars,
       ErrorsAreClosed
  <2>2. ASSUME NEW sub \in Subs, StartWatch(sub) \/ EndStream(sub) \/ LeaveWatch(sub)
        PROVE  ErrorsAreClosed'
    BY <2>2 DEF StartWatch, Watch, EndStream, StreamEnds, LeaveWatch, LeaveOnStreamEnd,
       LeaveOnError, ErrorsAreClosed
  <2>3. ASSUME NEW sub \in Subs, NEW kind \in Kinds, Notify(sub, kind)
        PROVE  ErrorsAreClosed'
    BY <2>3 DEF Notify, NotifyCollector, ErrorsAreClosed
  <2>4. CASE UNCHANGED watchVars
    BY <2>4 DEF watchVars, ErrorsAreClosed
  <2>5. QED
    BY <2>1, <2>2, <2>3, <2>4 DEF Next, vars, ClusterStep, SliceChanges, DispatchSlices,
       DeliverTrigger, Dispatch, Reconcile
<1>3. ErrorsAreClosed => CloseNeverBlocks
  BY DEF ErrorsAreClosed, CloseNeverBlocks, SendsError
<1>4. QED
  BY <1>1, <1>2, <1>3, PTL DEF Spec
=============================================================================
