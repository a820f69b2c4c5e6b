----------------------------- MODULE OwnerProofs -----------------------------
(***************************************************************************)
(* Once everything is processed a client that has the pods of its node     *)
(* also has their owners, if the references of a pod always lead to them:  *)
(* for a Deployment that takes a ReplicaSet that is there from the start   *)
(* and stays (run late_replicaset shows the other case), and a Service is  *)
(* found through its slices (run slices_ahead).  If the pods leave only    *)
(* after they were noticed it has no other owners: they are retracted with *)
(* the last of their pods (run owner_stale shows the other case).          *)
(***************************************************************************)
EXTENDS SyncProofs

\* The pod refers to the owner whenever its references are computed.
Leads(pod, owner) ==
  /\ owner \in OwnerRefs[pod]
  /\ KindOf[owner] = "Deployment" =>
       \E r \in OwnerRefs[pod] : KindOf[r] = "ReplicaSet" /\ r \in Initial \ Deletable

\* The collector of the owner is triggered by pods, and the pods it lists
\* for the owner lead to it.
Findable(owner) ==
  /\ KindOf[owner] \in OwnersSources
  /\ \A pod \in RelatedPods[owner] : Leads(pod, owner)

\* The owner's collector lists all the pods that refer to the owner.
Listed(owner) == \A pod \in Pods : owner \in OwnerRefs[pod] => pod \in RelatedPods[owner]

-----------------------------------------------------------------------------
(***************************************************************************)
(* The invariant, in parts.                                                *)
(***************************************************************************)

\* What nobody deletes stays.
Steady == \A owner \in Initial \ Deletable : Exists(owner)

\* Only pods refer to others, and only to their owners.
Referring(key) ==
  Cached(key) => Saved(key).refs \subseteq (IF key \in Pods THEN OwnerRefs[key] ELSE {})

\* The dispatcher of the owner's kind will request the owner for sub.
Asking(owner, pod, sub) ==
  LET d == disp[KindOf[owner]] IN
  d.sub = sub /\ (d.pc = "list" \/ (d.pc = "send" /\ pod \in d.todo))

\* The worker will find sub at the node of the pod, or has found it.
Visiting(owner, pod, sub) ==
  LET w == work[KindOf[owner]] IN
  IF Reads(owner) THEN w.pc = "list" \/ <<pod, NodeOf[sub]>> \in w.todo \/ sub \in w.subs
  ELSE sub \in Subscribers(owner)

\* The pod is on the node of the registered subscriber, who has the pod.
Owed(owner, pod, sub) ==
  /\ sub \in registry[KindOf[owner]][NodeOf[sub]]
  /\ Exists(owner) /\ Exists(pod) /\ sub \in Subscribers(pod)
  /\ NoDispatchFault

\* The owners of the pods that a subscriber has will get to it, or have.
Followed(owner, pod, sub) ==
  Owed(owner, pod, sub) => \/ owner \in dirty \/ triggers[owner] > 0
                           \/ Asking(owner, pod, sub)
                           \/ Visiting(owner, pod, sub)

Trail ==
  /\ Steady
  /\ \A key \in Keys : Referring(key)
  /\ \A owner \in Owners : Findable(owner) =>
       \A pod \in RelatedPods[owner], sub \in Subs : Followed(owner, pod, sub)

-----------------------------------------------------------------------------
(***************************************************************************)
(* The references.                                                         *)
(***************************************************************************)

\* Only the cluster changes the stores.
LEMMA StoreStep ==
  ASSUME [Next]_vars
  PROVE  ClusterStep \/ UNCHANGED <<store, born>>
<1>1. ASSUME NEW kind \in Kinds, Reconcile(kind)
      PROVE  UNCHANGED <<store, born>>
  BY <1>1 DEF Reconcile, WorkerStep, Get, ReadPodSubscribers, RefreshPod, NamespaceMissing,
     Requeue, ReadFails, ListRelatedPods, CollectNode, PushEvent, clusterVars
<1>2. ASSUME NEW kind \in Kinds, Dispatch(kind)
      PROVE  UNCHANGED <<store, born>>
  BY <1>2 DEF Dispatch, DispatcherStep, UpdateRegistry, ListPods, ListPodsFails, DispatchPod,
     DispatchPodFails, clusterVars
<1>3. CASE SliceChanges \/ DispatchSlices
  BY <1>3 DEF SliceChanges, ChangeSlice, DispatchSlices, SliceStep, ReconcileSlice, TriggerPod,
     TriggerService, clusterVars
<1>4. QED
  BY <1>1, <1>2, <1>3 DEF Next, DeliverTrigger, StartWatch, EndStream, LeaveWatch, Notify,
     BrokerStep, clusterVars, vars

\* Only a deletion takes an object away.
LEMMA Remains ==
  ASSUME TypeOK, [Next]_vars, NEW key \in Keys \ Deletable, Exists(key)
  PROVE  Exists(key)'
<1>1. store \in [Keys -> Object \cup {None}] /\ born \in [Keys -> Nat]
  BY DEF TypeOK, ClusterTypeOK
<1>2. CASE ClusterStep
  <2>1. ASSUME NEW k \in Keys, NEW obj, store' = [store EXCEPT ![k] = obj], k # key \/ obj # None
        PROVE  Exists(key)'
    BY <1>1, <2>1 DEF Exists
  <2>2. ASSUME NEW k \in Keys, NEW node \in Nodes \cup {None}, CreateObject(k, node)
        PROVE  Exists(key)'
    <3>1. k # key
      BY <2>2 DEF CreateObject
    <3>2. PICK obj : store' = [store EXCEPT ![k] = obj]
      BY <2>2 DEF CreateObject, Observe
    <3>3. QED
      BY <2>1, <3>1, <3>2
  <2>3. ASSUME NEW k \in Pods, NEW node \in Nodes, SchedulePod(k, node)
        PROVE  Exists(key)'
    <3>1. PICK obj \in Object : obj = [store[k] EXCEPT !.node = node]
      BY <1>1, <2>3 DEF SchedulePod, Exists, Object, Keys
    <3>2. QED
      BY <2>1, <2>3, <3>1, NoneAssumption DEF SchedulePod, Observe, Keys
  <2>4. ASSUME NEW k \in Keys, UpdateObject(k)
        PROVE  Exists(key)'
    <3>1. PICK obj \in Object : obj = [store[k] EXCEPT !.ver = @ + 1]
      BY <1>1, <2>4 DEF UpdateObject, Exists, Object
    <3>2. QED
      BY <2>1, <2>4, <3>1, NoneAssumption DEF UpdateObject, Observe
  <2>5. ASSUME NEW k \in Keys, DeleteObject(k)
        PROVE  Exists(key)'
    BY <2>1, <2>5 DEF DeleteObject, Observe
  <2>6. QED
    BY <1>2, <2>2, <2>3, <2>4, <2>5 DEF ClusterStep, ClusterNext
<1>3. CASE UNCHANGED store
  BY <1>3 DEF Exists
<1>4. QED
  BY <1>2, <1>3, StoreStep

\* The references a pod collector saves are those it computed.
LEMMA ReferringStep ==
  ASSUME TypeOK, Lineage, [Next]_vars, NEW key \in Keys, Referring(key)
  PROVE  Referring(key)'
<1>1. CASE cache'[key] = cache[key] \/ cache'[key] = None
  BY <1>1 DEF Referring, Cached, Saved
<1>2. ASSUME NEW kind \in Kinds, Reconcile(kind)
      PROVE  Referring(key)'
  <2> DEFINE w == work[kind]
  <2>1. CASE Ends(kind)
    <3>1. CASE w.key # key
      BY <1>1, <2>1, <3>1 DEF Ends
    <3>2. CASE w.key = key
      <4>1. Kind(key) = kind /\ PodRefs(key) \subseteq OwnerRefs[key]
        BY <2>1, <3>2 DEF Ends, Lineage, Job, PodRefs
      <4>2. cache'[key] # None =>
              cache'[key].hash[2].refs = IF kind = "Pod" THEN PodRefs(key) ELSE {}
        BY <2>1, <3>2 DEF Ends
      <4>3. kind = "Pod" => key \in Pods
        BY <4>1, RelationsAssumption DEF Kind, Keys, OwnerKinds
      <4>4. QED
        BY <4>1, <4>2, <4>3 DEF Referring, Cached, Saved
    <3>3. QED
      BY <3>1, <3>2
  <2>2. ASSUME NEW k \in Keys, Starts(kind, k) \/ Clears(kind, k)
        PROVE  Referring(key)'
    BY <1>1, <2>2 DEF Starts, Clears, Cached
  <2>3. CASE GoesOn(kind) \/ Requeues(kind) \/ Delivers(kind)
    BY <1>1, <2>3 DEF GoesOn, Requeues, Delivers
  <2>4. QED
    BY <1>2, <2>1, <2>2, <2>3, Turns
<1>3. CASE UNCHANGED cache
  BY <1>1, <1>3
<1>4. QED
  BY <1>2, <1>3 DEF Next, ClusterStep, SliceChanges, DispatchSlices, DeliverTrigger,
     Dispatch, StartWatch, EndStream, LeaveWatch, Notify, BrokerStep, vars

\* A Create is the first event of its batch.
LEMMA CreateFirst ==
  ASSUME NEW uid \in Uid, NEW data \in Data, NEW updated \in BOOLEAN,
         NEW subs \in SUBSET Subs, NEW prev \in SUBSET Subs, subs \ prev # {},
         NEW evts, evts = ToEvents(uid, data, updated, subs, prev)
  PROVE  evts # <<>> /\ Head(evts).type = "Create"
<1> DEFINE c == [type |-> "Create", uid |-> uid, data |-> data, subs |-> subs \ prev]
           us == UpdatedFor(subs, prev, updated)
           ds == prev \ subs
           u == [type |-> "Update", uid |-> uid, data |-> data, subs |-> us]
           d == [type |-> "Delete", uid |-> uid, data |-> NoData, subs |-> ds]
<1>1. c \in Event /\ u \in Event /\ d \in Event /\ c.type = "Create"
  BY DEF Event, EventType, UpdatedFor, NoData, Data
<1>2. evts = (<<c>> \o (IF us = {} THEN <<>> ELSE <<u>>)) \o (IF ds = {} THEN <<>> ELSE <<d>>)
  BY DEF ToEvents, EventFor, CreatedFor, DeletedFor
<1>3. \A q \in Seq(Event), e \in Event :
        q \o <<>> = q /\ q \o <<e>> = Append(q, e) /\ Append(q, e) \in Seq(Event)
  OBVIOUS
<1>4. PICK x \in Seq(Event) : x = <<c>> /\ x # <<>> /\ Head(x) = c
  <2>1. <<c>> \in Seq(Event) /\ <<c>> # <<>> /\ Head(<<c>>) = c
    BY <1>1
  <2>2. QED
    BY <2>1
<1> HIDE DEF c, u, d, us, ds
<1>5. \A q \in Seq(Event), e \in Event : q # <<>> => Append(q, e) # <<>> /\ Head(Append(q, e)) = Head(q)
  OBVIOUS
<1>6. PICK y \in Seq(Event) : y = x \o (IF us = {} THEN <<>> ELSE <<u>>) /\ y # <<>> /\ Head(y) = c
  <2>1. CASE us = {}
    <3>1. x \o (IF us = {} THEN <<>> ELSE <<u>>) = x
      BY <1>3, <2>1
    <3>2. QED
      BY <1>4, <3>1
  <2>2. CASE us # {}
    <3>1. x \o (IF us = {} THEN <<>> ELSE <<u>>) = Append(x, u) /\ Append(x, u) \in Seq(Event)
      BY <1>1, <1>3, <2>2
    <3>2. Append(x, u) # <<>> /\ Head(Append(x, u)) = c
      BY <1>1, <1>4, <1>5
    <3>3. QED
      BY <3>1, <3>2
  <2>3. QED
    BY <2>1, <2>2
<1>7. evts = y \o (IF ds = {} THEN <<>> ELSE <<d>>)
  BY <1>2, <1>4, <1>6
<1>8. evts # <<>> /\ Head(evts) = c
  <2>1. CASE ds = {}
    <3>1. evts = y
      BY <1>3, <1>7, <2>1
    <3>2. QED
      BY <1>6, <3>1
  <2>2. CASE ds # {}
    <3>1. evts = Append(y, d)
      BY <1>1, <1>3, <1>7, <2>2
    <3>2. Append(y, d) # <<>> /\ Head(Append(y, d)) = c
      BY <1>1, <1>5, <1>6
    <3>3. QED
      BY <3>1, <3>2
  <2>3. QED
    BY <2>1, <2>2
<1>9. QED
  BY <1>1, <1>8

-----------------------------------------------------------------------------
(***************************************************************************)
(* The steps.                                                              *)
(***************************************************************************)

\* A pod that a subscriber gets triggers the owners it leads to, before the
\* event is pushed (triggerOwners).
LEMMA OwnersTriggered ==
  ASSUME TypeOK, Lineage, Steady, Reconcile("Pod"), NEW pod \in Pods, NEW sub \in Subs,
         sub \notin Subscribers(pod), sub \in Subscribers(pod)',
         NEW owner \in Owners, Leads(pod, owner), KindOf[owner] \in OwnersSources
  PROVE  triggers'[owner] > 0
<1> DEFINE w == work["Pod"]
<1>1. "Pod" \in Kinds /\ pod \in Keys /\ owner \in Keys
  BY DEF Kinds, Keys
<1>2. cache'[pod] # cache[pod] /\ cache'[pod] # None
  BY DEF Subscribers, Cached
<1>3. /\ w.pc = "refs" /\ Reading("Pod") /\ w.key = pod
      /\ Refresh("Pod", w.key, <<w.key, w.obj.inc>>,
                 [ver |-> w.obj.ver, refs |-> PodRefs(w.key)], w.subs)
  <2>1. Ends("Pod") /\ w.key = pod
    <3>1. \A k \in Keys : ~Starts("Pod", k) /\ ~Clears("Pod", k)
      BY <1>1, <1>2 DEF Starts, Clears, Cached
    <3>2. ~GoesOn("Pod") /\ ~Requeues("Pod") /\ ~Delivers("Pod")
      BY <1>2 DEF GoesOn, Requeues, Delivers
    <3>3. Ends("Pod")
      BY <1>1, <3>1, <3>2, Turns
    <3>4. QED
      BY <1>1, <1>2, <3>3 DEF Ends
  <2>2. w.pc \in {"subs", "refs"}
    <3>1. Kind(w.key) = "Pod" /\ w \in WorkRead
      BY <1>1, <2>1, WorkPhases DEF Ends, Lineage, Job
    <3>2. QED
      BY <2>1, <3>1, KeysAssumption DEF WorkRead
  <2>3. w.pc = "refs"
    BY <1>2, <2>1, <2>2 DEF Ends
  <2>4. RefreshPod
    <3>1. /\ \A k \in Keys : ~Get("Pod", k)
          /\ ~ReadPodSubscribers /\ ~ListRelatedPods("Pod") /\ ~PushEvent("Pod")
          /\ \A placed \in Pods \X Nodes : ~CollectNode("Pod", placed)
      BY <2>3 DEF Get, ReadPodSubscribers, ListRelatedPods, PushEvent, CollectNode
    <3>2. ~NamespaceMissing /\ ~ReadFails("Pod")
      BY <1>2 DEF NamespaceMissing, ReadFails, Requeue
    <3>3. QED
      BY <3>1, <3>2 DEF Reconcile, WorkerStep
  <2>5. QED
    BY <2>1, <2>3, <2>4 DEF RefreshPod, Ends
<1>4. w.obj \in Object /\ w.subs \in SUBSET Subs
  BY <1>1, <1>3, WorkPhases
<1>5. PICK uid \in Uid, data \in Data, subs \in SUBSET Subs, prev \in SUBSET Subs,
           updated \in BOOLEAN :
        /\ uid = <<pod, w.obj.inc>> /\ data = [ver |-> w.obj.ver, refs |-> PodRefs(pod)]
        /\ subs = w.subs /\ prev = Subscribers(pod)
        /\ updated = (Cached(pod) /\ cache[pod].hash # <<uid, data>>)
  <2>1. Subscribers(pod) \in SUBSET Subs
    BY <1>1 DEF TypeOK, CollectorsTypeOK, Subscribers, Cached, CacheEntry
  <2>2. PodRefs(pod) \in SUBSET Owners
    BY RelationsAssumption DEF PodRefs
  <2>3. QED
    BY <1>1, <1>4, <2>1, <2>2 DEF Uid, Data, Object
<1>6. PICK evts : /\ evts = ToEvents(uid, data, updated, subs, prev)
                  /\ EventLoop("Pod", pod, data.refs, evts)
  BY <1>3, <1>5 DEF Refresh, Subscribers
<1>7. cache'[pod].subs = subs
  BY <1>1, <1>3, <1>5 DEF Refresh, TypeOK, CollectorsTypeOK
<1>8. sub \in subs \ prev
  BY <1>2, <1>5, <1>7 DEF Subscribers, Cached
<1>9. evts # <<>> /\ Head(evts).type = "Create"
  BY <1>6, <1>8, CreateFirst
<1>10. owner \in data.refs
  <2>1. owner \in PodRefs(pod)
    <3>1. KindOf[owner] # "Service"
      BY DEF OwnersSources
    <3>2. KindOf[owner] = "Deployment" =>
            \E r \in OwnerRefs[pod] : KindOf[r] = "ReplicaSet" /\ Exists(r)
      BY DEF Leads, Steady
    <3>3. QED
      BY <3>1, <3>2 DEF Leads, PodRefs
  <2>2. QED
    BY <1>5, <2>1
<1>11. owner \in TriggeredBy("Pod", data.refs, evts)
  BY <1>9, <1>10 DEF TriggeredBy
<1>12. triggers'[owner] = triggers[owner] + 1 /\ triggers[owner] \in Nat
  BY <1>1, <1>6, <1>11 DEF EventLoop, Trigger, TypeOK, WorkQueueTypeOK
<1>13. QED
  BY <1>12

\* A step of a worker changes the entries of its own kind only.
LEMMA OwnEntries ==
  ASSUME TypeOK, Lineage, NEW kind \in Kinds, Reconcile(kind), NEW key \in Keys, Kind(key) # kind
  PROVE  cache'[key] = cache[key] /\ (key \in dirty => key \in dirty')
<1>1. Reading(kind) => Kind(work[kind].key) = kind
  BY DEF Lineage, Job
<1>2. QED
  BY <1>1, Turns DEF Starts, Clears, GoesOn, Ends, Requeues, Delivers

\* A worker finds the subscribers of the nodes of its owner's pods.
LEMMA VisitingWorker ==
  ASSUME TypeOK, Lineage, NEW owner \in Owners, NEW pod \in Pods, NEW sub \in Subs,
         NEW kind \in Kinds, Reconcile(kind), Exists(owner),
         sub \in registry[KindOf[owner]][NodeOf[sub]],
         <<pod, NodeOf[sub]>> \in PlacedPods(owner),
         owner \notin dirty', owner \in dirty \/ Visiting(owner, pod, sub)
  PROVE  Visiting(owner, pod, sub)'
<1> DEFINE K == KindOf[owner]
           w == work[kind]
<1>1. /\ owner \in Keys /\ K \in Kinds /\ Kind(owner) = K /\ K # "Pod"
      /\ NodeOf[sub] \in Nodes /\ NodeOf[sub] # None
  BY KeysAssumption, RelationsAssumption, SubscribersAssumption
     DEF Keys, Kinds, Kind, OwnerKinds
<1>2. /\ UNCHANGED <<store, registry, disp>> /\ Alone(kind)
      /\ \/ \E key \in Keys : Starts(kind, key) \/ Clears(kind, key)
         \/ GoesOn(kind) \/ Ends(kind) \/ Requeues(kind) \/ Delivers(kind)
  BY Turns
<1>3. Reading(kind) => Kind(w.key) = kind /\ w.key \in Keys
  BY WorkPhases DEF Lineage, Job
<1>4. CASE owner \in dirty
  <2>1. PICK key \in Keys : (Starts(kind, key) \/ Clears(kind, key)) /\ key = owner
    BY <1>2, <1>4 DEF Starts, Clears, GoesOn, Ends, Requeues, Delivers
  <2>2. Starts(kind, owner) /\ kind = K
    BY <1>1, <2>1 DEF Starts, Clears
  <2>3. Reads(owner)' /\ work'[K].pc = "list"
    BY <1>1, <2>2 DEF Starts, Reads
  <2>4. QED
    BY <2>3 DEF Visiting
<1>5. CASE owner \notin dirty
  <2>1. Visiting(owner, pod, sub)
    BY <1>5
  <2>2. ASSUME cache'[owner] = cache[owner], Reads(owner)' <=> Reads(owner),
               Reads(owner) => work'[K] = work[K]
        PROVE  Visiting(owner, pod, sub)'
    BY <2>1, <2>2 DEF Visiting, Subscribers, Cached
  <2>3. CASE kind # K
    <3>1. work'[K] = work[K]
      BY <1>1, <1>2, <2>3 DEF Alone
    <3>2. cache'[owner] = cache[owner]
      BY <1>1, <1>2, <1>3, <2>3 DEF Starts, Clears, GoesOn, Ends, Requeues, Delivers
    <3>3. QED
      BY <1>1, <2>2, <3>1, <3>2 DEF Reads, Reading
  <2>4. CASE kind = K /\ ~Reads(owner)
    <3>1. ~(Reading(kind) /\ w.key = owner)
      BY <1>1, <2>4 DEF Reads
    <3>2. CASE Reads(owner)'
      <4>1. Starts(kind, owner)
        BY <1>1, <1>2, <2>4, <3>1, <3>2
           DEF Reads, Starts, Clears, GoesOn, Ends, Requeues, Delivers
      <4>2. QED
        BY <1>1, <2>4, <3>2, <4>1 DEF Starts, Visiting
    <3>3. CASE ~Reads(owner)'
      <4>1. cache'[owner] = cache[owner]
        <5>1. \A key \in Keys : Clears(kind, key) => key # owner
          BY DEF Clears
        <5>2. QED
          BY <1>1, <1>2, <3>1, <5>1 DEF Starts, Clears, GoesOn, Ends, Requeues, Delivers
      <4>2. QED
        BY <2>2, <2>4, <3>3, <4>1
    <3>4. QED
      BY <3>2, <3>3
  <2>5. CASE kind = K /\ Reads(owner)
    <3>1. /\ Reading(kind) /\ w.key = owner
          /\ w.pc = "list" \/ <<pod, NodeOf[sub]>> \in w.todo \/ sub \in w.subs
      BY <1>1, <2>1, <2>5 DEF Reads, Visiting
    <3>2. GoesOn(kind) \/ Ends(kind)
      <4>1. ~Requeues(kind)
        BY <3>1 DEF Requeues
      <4>2. QED
        BY <1>2, <3>1, <4>1 DEF Starts, Clears, Delivers
    <3>3. ASSUME NEW todo, NEW subs, Visited(kind, todo, subs)
          PROVE  <<pod, NodeOf[sub]>> \in todo \/ sub \in subs
      <4>1. CASE w.pc = "list"
        <5>1. todo = PlacedPods(owner)
          BY <3>1, <3>3, <4>1 DEF Visited
        <5>2. QED
          BY <5>1
      <4>2. CASE w.pc # "list"
        <5>1. PICK placed \in w.todo :
                /\ todo = w.todo \ {placed}
                /\ subs = w.subs \cup SubscribersPerNode(kind, placed[2])
          BY <3>3, <4>2 DEF Visited
        <5>2. CASE placed = <<pod, NodeOf[sub]>>
          <6>1. sub \in SubscribersPerNode(kind, NodeOf[sub])
            BY <1>1, <2>5 DEF SubscribersPerNode
          <6>2. QED
            BY <5>1, <5>2, <6>1
        <5>3. CASE placed # <<pod, NodeOf[sub]>>
          BY <3>1, <4>2, <5>1, <5>3
        <5>4. QED
          BY <5>2, <5>3
      <4>3. QED
        BY <4>1, <4>2
    <3>4. CASE GoesOn(kind)
      <4>1. /\ Reads(owner)' /\ Visited(kind, work'[kind].todo, work'[kind].subs)
        BY <1>1, <2>5, <3>1, <3>4 DEF GoesOn, Reads
      <4>2. PICK todo, subs : todo = work'[kind].todo /\ subs = work'[kind].subs
        OBVIOUS
      <4>3. <<pod, NodeOf[sub]>> \in todo \/ sub \in subs
        BY <3>3, <4>1, <4>2
      <4>4. QED
        BY <2>5, <4>1, <4>2, <4>3 DEF Visiting
    <3>5. CASE Ends(kind)
      <4>1. PICK subs : subs = IF cache'[owner] = None THEN {} ELSE cache'[owner].subs
        OBVIOUS
      <4>2. Visited(kind, {}, subs) /\ ~Reading(kind)'
        BY <1>1, <2>5, <3>1, <3>5, <4>1 DEF Ends
      <4>3. sub \in subs
        BY <3>3, <4>2
      <4>4. ~Reads(owner)' /\ sub \in Subscribers(owner)'
        BY <1>1, <2>5, <4>1, <4>2, <4>3 DEF Reads, Subscribers, Cached
      <4>5. QED
        BY <4>4 DEF Visiting
    <3>6. QED
      BY <3>2, <3>4, <3>5
  <2>6. QED
    BY <2>3, <2>4, <2>5
<1>6. QED
  BY <1>4, <1>5

\* The steps of a worker.
LEMMA FollowedWorker ==
  ASSUME TypeOK, Lineage, Steady, NEW owner \in Owners, NEW pod \in RelatedPods[owner],
         NEW sub \in Subs, Findable(owner), Followed(owner, pod, sub),
         NEW kind \in Kinds, Reconcile(kind), NoDispatchFault' => NoDispatchFault
  PROVE  Followed(owner, pod, sub)'
<1> DEFINE K == KindOf[owner]
           w == work[kind]
<1>1. /\ owner \in Keys /\ K \in Kinds /\ Kind(owner) = K /\ K # "Pod" /\ K # "Service"
      /\ pod \in Pods /\ pod \in Keys /\ Kind(pod) = "Pod"
      /\ NodeOf[sub] \in Nodes /\ NodeOf[sub] # None
  BY KeysAssumption, RelationsAssumption, SubscribersAssumption
     DEF Keys, Kinds, Kind, OwnerKinds, Findable, OwnersSources
<1>2. /\ UNCHANGED <<store, registry, disp>> /\ Alone(kind)
      /\ \/ \E key \in Keys : Starts(kind, key) \/ Clears(kind, key)
         \/ GoesOn(kind) \/ Ends(kind) \/ Requeues(kind) \/ Delivers(kind)
  BY Turns
<1> SUFFICES ASSUME Owed(owner, pod, sub)', owner \notin dirty', ~(triggers'[owner] > 0),
                    ~Asking(owner, pod, sub)'
             PROVE  Visiting(owner, pod, sub)'
  BY DEF Followed
<1>3. ~(triggers[owner] > 0) /\ ~Asking(owner, pod, sub)
  BY <1>1, <1>2 DEF Alone, Asking
<1>4. sub \in Subscribers(pod)
  <2>1. CASE kind = "Pod"
    <3>1. pod \in RelatedPods[owner] /\ Leads(pod, owner) /\ K \in OwnersSources
      BY DEF Findable
    <3>2. QED
      BY <1>1, <2>1, <3>1, OwnersTriggered DEF Owed
  <2>2. CASE kind # "Pod"
    <3>1. cache'[pod] = cache[pod]
      BY <1>1, <2>2, OwnEntries
    <3>2. QED
      BY <3>1 DEF Owed, Subscribers, Cached
  <2>3. QED
    BY <2>1, <2>2
<1>5. Owed(owner, pod, sub)
  BY <1>2, <1>4 DEF Owed, Exists
<1>6. Exists(pod) /\ store[pod].node = NodeOf[sub] /\ Exists(owner)
  BY <1>1, <1>4, <1>5 DEF Owed, Lineage, Entry, Subscribers, Fits
<1>7. <<pod, NodeOf[sub]>> \in PlacedPods(owner)
  <2>1. <<pod, store[pod].node>> \in PlacedPods(owner)
    BY <1>1, <1>6 DEF PlacedPods
  <2>2. QED
    BY <1>6, <2>1
<1>8. sub \in registry[K][NodeOf[sub]] /\ (owner \in dirty \/ Visiting(owner, pod, sub))
  BY <1>3, <1>5 DEF Followed, Owed
<1>9. QED
  BY <1>1, <1>6, <1>7, <1>8, VisitingWorker

\* A dispatcher requests the owners of the pods on the node of its subscriber.
LEMMA AskingDispatch ==
  ASSUME TypeOK, NEW owner \in Owners, NEW pod \in Pods, NEW sub \in Subs,
         Dispatch(KindOf[owner]), Exists(pod), store[pod].node = NodeOf[sub],
         owner \in DispatchTargets(KindOf[owner], pod),
         sub \in registry'[KindOf[owner]][NodeOf[sub]], ~(triggers'[owner] > 0), NoDispatchFault',
         sub \in registry[KindOf[owner]][NodeOf[sub]] => Asking(owner, pod, sub)
  PROVE  Asking(owner, pod, sub)'
<1> DEFINE K == KindOf[owner]
           d == disp[K]
<1>1. owner \in Keys /\ K \in Kinds
  BY DEF Keys, Kinds
<1>2. /\ disp \in [Kinds -> DispBusy \cup {DispIdle}]
      /\ registry \in [Kinds -> [Nodes -> SUBSET Subs]] /\ NodeOf[sub] \in Nodes
      /\ triggers \in [Keys -> Nat]
  BY SubscribersAssumption DEF TypeOK, DispatcherTypeOK, WorkQueueTypeOK
<1>3. ASSUME NEW pods, pod \in pods, Dispatching(K, pods), d \in DispBusy, d.sub = sub
      PROVE  Asking(owner, pod, sub)'
  <2>1. disp'[K] = [d EXCEPT !.pc = "send", !.todo = pods]
    BY <1>1, <1>2, <1>3 DEF Dispatching
  <2>2. disp'[K].pc = "send" /\ disp'[K].todo = pods /\ disp'[K].sub = sub
    BY <1>3, <2>1 DEF DispBusy
  <2>3. QED
    BY <1>3, <2>2 DEF Asking
<1>4. CASE UpdateRegistry(K)
  <2>1. d \in DispBusy /\ d.pc = "registry"
    BY <1>1, <1>2, <1>4 DEF UpdateRegistry, DispIdle
  <2>2. disp'[K].pc = "list" /\ disp'[K].sub = d.sub
    BY <1>1, <1>2, <1>4, <2>1 DEF UpdateRegistry, DispBusy
  <2>3. sub \notin registry[K][NodeOf[sub]]
    BY <2>1 DEF Asking
  <2>4. d.sub = sub
    <3>1. PICK n \in Nodes : n = NodeOf[d.sub]
      BY <2>1, SubscribersAssumption DEF DispBusy
    <3>2. registry'[K][n] = IF d.join THEN registry[K][n] \cup {d.sub}
                            ELSE registry[K][n] \ {d.sub}
      BY <1>1, <1>2, <1>4, <3>1 DEF UpdateRegistry
    <3>3. NodeOf[sub] # n => registry'[K][NodeOf[sub]] = registry[K][NodeOf[sub]]
      BY <1>1, <1>2, <1>4, <3>1 DEF UpdateRegistry
    <3>4. QED
      BY <2>3, <3>2, <3>3
  <2>5. QED
    BY <2>2, <2>4 DEF Asking
<1>5. CASE ~UpdateRegistry(K)
  <2>1. registry' = registry
    BY <1>5 DEF Dispatch, DispatcherStep, ListPods, ListPodsFails, DispatchPod, DispatchPodFails
  <2>2. d.sub = sub /\ (d.pc = "list" \/ (d.pc = "send" /\ pod \in d.todo))
    BY <2>1 DEF Asking
  <2>3. d \in DispBusy
    BY <1>1, <1>2, <2>2 DEF DispIdle
  <2>4. CASE ListPods(K)
    <3>1. pod \in PodsOnNode(NodeOf[d.sub])
      BY <2>2 DEF PodsOnNode
    <3>2. QED
      BY <1>3, <2>2, <2>3, <2>4, <3>1 DEF ListPods
  <2>5. ~ListPodsFails(K) /\ \A p \in Pods : ~DispatchPodFails(K, p)
    <3>1. faults \in Nat
      BY ClusterAssumption DEF TypeOK, ClusterTypeOK
    <3>2. "dispatch" \in FaultSites => faults' = 0
      BY DEF NoDispatchFault
    <3>3. QED
      BY <3>1, <3>2 DEF ListPodsFails, DispatchPodFails, Fault
  <2>6. ASSUME NEW p \in Pods, DispatchPod(K, p)
        PROVE  Asking(owner, pod, sub)'
    <3>1. p # pod
      <4>1. p = pod => triggers'[owner] = triggers[owner] + 1
        BY <1>1, <1>2, <2>6 DEF DispatchPod, Request, Trigger
      <4>2. triggers[owner] \in Nat
        BY <1>1, <1>2
      <4>3. QED
        BY <4>1, <4>2
    <3>2. pod \in d.todo \ {p}
      BY <2>2, <2>6, <3>1 DEF DispatchPod
    <3>3. QED
      BY <1>3, <2>2, <2>3, <2>6, <3>2 DEF DispatchPod
  <2>7. QED
    BY <1>5, <2>4, <2>5, <2>6 DEF Dispatch, DispatcherStep
<1>6. QED
  BY <1>4, <1>5

\* The steps of the dispatcher of the owner's kind.
LEMMA FollowedDispatch ==
  ASSUME TypeOK, Lineage, Steady, NEW owner \in Owners, NEW pod \in RelatedPods[owner],
         NEW sub \in Subs, Findable(owner), Followed(owner, pod, sub), Outside(owner),
         Dispatch(KindOf[owner]), NoDispatchFault' => NoDispatchFault
  PROVE  Followed(owner, pod, sub)'
<1> DEFINE K == KindOf[owner]
<1>1. /\ owner \in Keys /\ K \in Kinds /\ K # "Pod" /\ K # "Service"
      /\ pod \in Pods /\ pod \in Keys
  BY RelationsAssumption DEF Keys, Kinds, OwnerKinds, Findable, OwnersSources
<1>2. UNCHANGED <<store, cache, work>>
  BY <1>1 DEF Dispatch, DispatcherStep, UpdateRegistry, ListPods, ListPodsFails, DispatchPod,
     DispatchPodFails, clusterVars
<1> SUFFICES ASSUME Owed(owner, pod, sub)', owner \notin dirty', ~(triggers'[owner] > 0),
                    ~Visiting(owner, pod, sub)'
             PROVE  Asking(owner, pod, sub)'
  BY DEF Followed
<1>3. /\ owner \notin dirty /\ ~(triggers[owner] > 0) /\ ~Visiting(owner, pod, sub)
  BY <1>2 DEF Outside, Visiting, Reads, Reading, Subscribers, Cached
<1>4. /\ Exists(pod) /\ Exists(owner) /\ sub \in Subscribers(pod) /\ NoDispatchFault
      /\ store[pod].node = NodeOf[sub]
  <2>1. Exists(pod) /\ Exists(owner) /\ sub \in Subscribers(pod) /\ NoDispatchFault
    BY <1>2 DEF Owed, Exists, Subscribers, Cached
  <2>2. QED
    BY <1>1, <2>1 DEF Lineage, Entry, Subscribers, Fits
<1>5. sub \in registry[K][NodeOf[sub]] => Asking(owner, pod, sub)
  BY <1>3, <1>4 DEF Owed, Followed
<1>6. owner \in DispatchTargets(K, pod)
  <2>1. Leads(pod, owner)
    BY DEF Findable
  <2>2. K = "Deployment" => \E r \in OwnerRefs[pod] : KindOf[r] = "ReplicaSet" /\ Exists(r)
    BY <2>1 DEF Leads, Steady
  <2>3. QED
    BY <1>1, <2>1, <2>2 DEF Leads, DispatchTargets
<1>7. sub \in registry'[K][NodeOf[sub]] /\ NoDispatchFault'
  BY DEF Owed
<1>8. QED
  BY <1>1, <1>4, <1>5, <1>6, <1>7, AskingDispatch

\* Only the dispatcher of a kind changes its registry; an idle one takes
\* messages.
LEMMA Undispatched ==
  ASSUME TypeOK, Lineage, [Next]_vars, NEW K \in Kinds, ~Dispatch(K)
  PROVE  /\ registry'[K] = registry[K]
         /\ disp'[K] = disp[K] \/ disp[K].pc = "idle"
<1>1. /\ disp \in [Kinds -> DispBusy \cup {DispIdle}]
      /\ registry \in [Kinds -> [Nodes -> SUBSET Subs]]
  BY DEF TypeOK, DispatcherTypeOK
<1>2. ASSUME NEW kind \in Kinds, Dispatch(kind)
      PROVE  registry'[K] = registry[K] /\ disp'[K] = disp[K]
  BY <1>1, <1>2 DEF Dispatch, DispatcherStep, UpdateRegistry, ListPods,
     ListPodsFails, DispatchPod, DispatchPodFails, Dispatching
<1>3. ASSUME NEW s \in Subs, NEW kind \in Kinds, Notify(s, kind)
      PROVE  /\ registry' = registry
             /\ disp'[K] = disp[K] \/ disp[K].pc = "idle"
  BY <1>1, <1>3 DEF Notify, Receive
<1>4. ASSUME NEW kind \in Kinds, Reconcile(kind)
      PROVE  UNCHANGED <<registry, disp>>
  BY <1>4, Turns
<1>5. QED
  BY <1>2, <1>3, <1>4 DEF Next, ClusterStep, SliceChanges, DispatchSlices, DeliverTrigger,
     StartWatch, EndStream, LeaveWatch, BrokerStep, vars, dispVars

\* No owner of a pod that a subscriber has is forgotten.
LEMMA FollowedStep ==
  ASSUME NoReuse, TypeOK, Lineage, Steady, [Next]_vars, NEW owner \in Owners,
         NEW pod \in RelatedPods[owner], NEW sub \in Subs, Findable(owner),
         Followed(owner, pod, sub)
  PROVE  Followed(owner, pod, sub)'
<1> DEFINE K == KindOf[owner]
<1>1. /\ owner \in Keys /\ owner \notin Pods /\ K \in Kinds
      /\ pod \in Pods /\ pod \in Keys /\ (NoDispatchFault' => NoDispatchFault)
  BY KeysAssumption, RelationsAssumption, FaultsStep DEF Keys, Kinds
<1>2. CASE \E kind \in Kinds : Reconcile(kind)
  BY <1>1, <1>2, FollowedWorker
<1>3. CASE Outside(owner)
  <2>1. CASE Dispatch(K)
    BY <1>1, <1>3, <2>1, FollowedDispatch
  <2>2. CASE ~Dispatch(K)
    <3> SUFFICES ASSUME Owed(owner, pod, sub)', owner \notin dirty', ~(triggers'[owner] > 0),
                        ~Visiting(owner, pod, sub)'
                 PROVE  Asking(owner, pod, sub)'
      BY DEF Followed
    <3>1. /\ owner \notin dirty /\ ~(triggers[owner] > 0) /\ ~Visiting(owner, pod, sub)
          /\ sub \in Subscribers(pod)
      BY <1>3 DEF Outside, Visiting, Reads, Reading, Subscribers, Cached, Owed
    <3>2. store'[owner] = store[owner]
      BY <1>1, <1>3 DEF Outside, PassesFilter
    <3>3. Exists(pod)
      <4>1. born[pod] = 1
        BY <1>1, <3>1 DEF Lineage, Entry, Subscribers, Fits
      <4>2. Ages(pod)
        BY <1>1, AgesStep DEF Lineage
      <4>3. Exists(pod)'
        BY DEF Owed
      <4>4. QED
        BY <4>1, <4>2, <4>3 DEF Ages, Exists
    <3>4. registry'[K] = registry[K] /\ (disp'[K] = disp[K] \/ disp[K].pc = "idle")
      BY <1>1, <2>2, Undispatched
    <3>5. Owed(owner, pod, sub)
      BY <1>1, <3>1, <3>2, <3>3, <3>4 DEF Owed, Exists
    <3>6. Asking(owner, pod, sub)
      BY <3>1, <3>5 DEF Followed
    <3>7. QED
      BY <3>4, <3>6 DEF Asking
  <2>3. QED
    BY <2>1, <2>2
<1>4. QED
  BY <1>1, <1>2, <1>3, OutsideStep

LEMMA TrailInit == Init => Trail
<1> SUFFICES ASSUME Init PROVE Trail
  OBVIOUS
<1>1. /\ \A key \in Keys : cache[key] = None
      /\ \A owner \in Initial : Exists(owner)
  <2>1. \A owner \in Initial : owner \in Keys /\ NewObject(1, None) \in Object
    BY ClusterAssumption DEF Keys, NewObject, Object
  <2>2. QED
    BY <2>1, NoneAssumption DEF Init, CollectorsInit, ClusterInit, Exists
<1>2. \A key \in Keys : Subscribers(key) = {} /\ Referring(key)
  BY <1>1 DEF Subscribers, Cached, Referring
<1>3. \A owner \in Owners : RelatedPods[owner] \subseteq Keys
  BY RelationsAssumption DEF Keys
<1>4. \A owner \in Owners : \A pod \in RelatedPods[owner], sub \in Subs : Followed(owner, pod, sub)
  BY <1>2, <1>3 DEF Followed, Owed
<1>5. QED
  BY <1>1, <1>2, <1>4 DEF Trail, Steady

LEMMA TrailStep ==
  ASSUME NoReuse, TypeOK, Lineage, Trail, [Next]_vars
  PROVE  Trail'
<1>1. Steady'
  <2> SUFFICES ASSUME NEW owner \in Initial \ Deletable PROVE Exists(owner)'
    BY DEF Steady
  <2>1. owner \in Keys \ Deletable /\ Exists(owner)
    BY ClusterAssumption DEF Keys, Trail, Steady
  <2>2. QED
    BY <2>1, Remains
<1>2. ASSUME NEW key \in Keys PROVE Referring(key)'
  BY ReferringStep DEF Trail
<1>3. ASSUME NEW owner \in Owners, Findable(owner), NEW pod \in RelatedPods[owner], NEW sub \in Subs
      PROVE  Followed(owner, pod, sub)'
  BY <1>3, FollowedStep DEF Trail
<1>4. QED
  BY <1>1, <1>2, <1>3 DEF Trail

\* Once everything is processed, a client that has a pod has the owners it
\* selected of the pod, if they are findable.
LEMMA OwnerAtRest ==
  ASSUME TypeOK, SubscriberLife, Lineage, Flow, Sync, Trail, NEW sub \in Subs, Settled(sub),
         NEW owner \in Owners, Findable(owner), NEW pod \in RelatedPods[owner],
         KindOf[owner] \in KindsOf[sub], Exists(owner), Exists(pod), sub \in Subscribers(pod)
  PROVE  Current(owner) \in View(sub, KindOf[owner])
<1> DEFINE K == KindOf[owner]
<1>1. /\ Quiescent /\ Healthy(sub) /\ Serving(sub) /\ NoDispatchFault
      /\ K \in Kinds /\ owner \in Keys /\ Kind(owner) = K
  BY KeysAssumption DEF Settled, Kinds, Keys, Kind
<1>2. /\ dirty = {} /\ watch[sub].todo = {} /\ disp[K] = DispIdle
      /\ work[K] = WorkIdle /\ triggers[owner] = 0
  BY <1>1 DEF Quiescent
<1>3. sub \in registry[K][NodeOf[sub]]
  <2>1. watch[sub].phase = "joined"
    BY <1>1 DEF Serving
  <2>2. ~Holds(K, sub, TRUE)
    BY <1>2 DEF Holds, DispIdle
  <2>3. QED
    BY <1>1, <1>2, <2>1, <2>2 DEF Sync, Welcome
<1>4. Owed(owner, pod, sub) /\ ~Asking(owner, pod, sub) /\ ~Reads(owner)
  BY <1>1, <1>2, <1>3 DEF Owed, Asking, DispIdle, Reads, Reading, WorkIdle
<1>5. Visiting(owner, pod, sub)
  BY <1>2, <1>4 DEF Trail, Followed
<1>6. sub \in Subscribers(owner)
  BY <1>4, <1>5 DEF Visiting
<1>7. QED
  BY <1>1, <1>6, SavedIsCurrent

\* A client with the pods of its node has their owners.
LEMMA OwnersFound ==
  ASSUME TypeOK, SubscriberLife, Lineage, Flow, Sync, Trail,
         \A sub \in Subs, owner \in Owners : KindOf[owner] \in KindsOf[sub] => Findable(owner)
  PROVE  OwnersInformed
<1> SUFFICES ASSUME NEW sub \in Subs, Settled(sub), "Pod" \in KindsOf[sub],
                    NEW kind \in Notified(sub), NEW key \in Relevant(sub, kind)
             PROVE  Current(key) \in View(sub, kind)
  BY DEF OwnersInformed, Informed
<1>1. Quiescent /\ Healthy(sub) /\ kind \in KindsOf[sub]
  BY DEF Settled, Notified
<1>2. ASSUME NEW pod \in Pods, Exists(pod), store[pod].node = NodeOf[sub]
      PROVE  sub \in Subscribers(pod)
  BY <1>2, PodsFound
<1>3. CASE kind = "Pod"
  <2>1. key \in Pods /\ Exists(key) /\ store[key].node = NodeOf[sub]
    BY <1>3 DEF Relevant, PodsOnNode
  <2>2. key \in Keys /\ Kind(key) = "Pod" /\ sub \in Subscribers(key)
    BY <1>2, <2>1 DEF Keys, Kind
  <2>3. QED
    BY <1>1, <1>3, <2>2, SavedIsCurrent
<1>4. CASE kind # "Pod"
  <2>1. /\ key \in Owners /\ KindOf[key] = kind /\ Exists(key)
        /\ \E placed \in PlacedPods(key) : placed[2] = NodeOf[sub]
    BY <1>4 DEF Relevant
  <2>2. PICK pod \in RelatedPods[key] : Exists(pod) /\ store[pod].node = NodeOf[sub]
    BY <2>1 DEF PlacedPods
  <2>3. pod \in Pods
    BY <2>1, RelationsAssumption
  <2>4. Findable(key) /\ sub \in Subscribers(pod)
    BY <1>1, <1>2, <2>1, <2>2, <2>3
  <2>5. QED
    BY <1>1, <2>1, <2>2, <2>4, OwnerAtRest
<1>5. QED
  BY <1>3, <1>4

\* The references a client has lead to owners that it has.
LEMMA RefsFound ==
  ASSUME TypeOK, SubscriberLife, Lineage, Flow, Sync, Trail,
         \A owner \in Owners : KindOf[owner] \in OwnersSources => Findable(owner) /\ Listed(owner)
  PROVE  RefsResolve
<1> SUFFICES ASSUME NEW sub \in Subs, Settled(sub), NEW item \in mirror[sub],
                    NEW owner \in item.data.refs, Exists(owner),
                    KindOf[owner] \in Notified(sub) \cap OwnersSources
             PROVE  Current(owner) \in View(sub, KindOf[owner])
  BY DEF RefsResolve
<1>1. Quiescent /\ Healthy(sub) /\ KindOf[owner] \in KindsOf[sub]
  BY DEF Settled, Notified
<1>2. PICK key \in Keys : item.uid[1] = key
  BY DEF TypeOK, BrokerTypeOK, Item, Uid
<1>3. sub \in Subscribers(key) /\ item.data = Saved(key)
  <2>1. Knows(sub, key)
    BY <1>2 DEF Knows
  <2>2. QED
    BY <1>1, <1>2, <2>1, AtRest
<1>4. Exists(key)
  BY <1>1, <1>3, SavedIsCurrent
<1>5. Cached(key)
  BY <1>3 DEF Subscribers
<1>6. key \in Pods /\ owner \in OwnerRefs[key]
  BY <1>3, <1>5 DEF Trail, Referring
<1>7. owner \in Owners
  BY <1>6, RelationsAssumption
<1>8. Findable(owner) /\ key \in RelatedPods[owner]
  BY <1>6, <1>7 DEF Listed
<1>9. QED
  BY <1>1, <1>3, <1>4, <1>7, <1>8, OwnerAtRest

-----------------------------------------------------------------------------
\* The invariant holds.
LEMMA TrailInvariant ==
  ASSUME NoReuse
  PROVE  Spec => [](TypeOK /\ SubscriberLife /\ Lineage /\ Flow /\ Sync /\ Trail)
<1> DEFINE Base == TypeOK /\ SubscriberLife /\ Lineage
<1>1. Spec => []Base
  BY LineageInvariant
<1>2. Init => Flow /\ Sync /\ Trail
  <2>1. Init => Flow
    BY DEF Init, WatchInit, Flow, Healthy
  <2>2. QED
    BY <2>1, SyncInit, TrailInit
<1>3. Base /\ Flow /\ Sync /\ Trail /\ [Next]_vars => Flow' /\ Sync' /\ Trail'
  BY FlowStep, SyncStep, TrailStep
<1>4. QED
  BY <1>1, <1>2, <1>3, PTL DEF Spec

\* As long as no name is used again and the references of the pods lead to
\* the owners that are selected, a client of pods has every existing owner
\* of a pod of its node, at its current version, whenever everything is
\* processed, its stream is healthy and no dispatch failed: between the
\* dispatcher's list, the owner's own events and triggerOwners no order of
\* steps misses one.
THEOREM OwnersReachTheirClients ==
  ASSUME NoReuse,
         \A sub \in Subs, owner \in Owners : KindOf[owner] \in KindsOf[sub] => Findable(owner)
  PROVE  Spec => []OwnersInformed
<1> DEFINE Inv == TypeOK /\ SubscriberLife /\ Lineage /\ Flow /\ Sync /\ Trail
<1>1. Spec => []Inv
  BY TrailInvariant
<1>2. Inv => OwnersInformed
  BY OwnersFound
<1>3. QED
  BY <1>1, <1>2, PTL

\* As long as no name is used again and the owners that pods trigger list
\* the pods that refer to them, whoever has a pod whose reference leads to
\* an existing owner of a selected kind has that owner, at its current
\* version, whenever everything is processed, its stream is healthy and no
\* dispatch failed: the reference in the metadata of a pod is never left
\* without its target.
THEOREM ReferencesLeadSomewhere ==
  ASSUME NoReuse,
         \A owner \in Owners : KindOf[owner] \in OwnersSources => Findable(owner) /\ Listed(owner)
  PROVE  Spec => []RefsResolve
<1> DEFINE Inv == TypeOK /\ SubscriberLife /\ Lineage /\ Flow /\ Sync /\ Trail
<1>1. Spec => []Inv
  BY TrailInvariant
<1>2. Inv => RefsResolve
  BY RefsFound
<1>3. QED
  BY <1>1, <1>2, PTL

-----------------------------------------------------------------------------
(***************************************************************************)
(* A client has no owner that does not concern its node, if the pods leave *)
(* only after they were noticed (Calm).  The invariant, in parts.          *)
(***************************************************************************)

\* The pod collector finds the subscribers that have the pod again.
Retained(sub) ==
  LET w == work["Pod"] IN
  w.pc = "refs" /\ Healthy(sub) /\ sub \in Subscribers(w.key) => sub \in w.subs

\* The entry of a pod refers to the owners that the pod leads to.
Linked(pod, owner) ==
  Cached(pod) /\ Leads(pod, owner) /\ KindOf[owner] # "Service" =>
    owner \in cache[pod].refs /\ owner \in Saved(pod).refs

\* The pods a worker has still to visit are on their nodes.
Placed(kind) ==
  LET w == work[kind] IN
  w.pc = "nodes" =>
    \A placed \in w.todo : /\ placed[1] \in RelatedPods[w.key]
                           /\ Exists(placed[1]) /\ store[placed[1]].node = placed[2]

\* The worker has found sub, or the cache has it.
Finds(owner, sub) ==
  IF Reads(owner) THEN sub \in work[KindOf[owner]].subs ELSE sub \in Subscribers(owner)

\* The pod is on the node of sub, or sub will hear of its end.
Backed(pod, sub) ==
  (Exists(pod) /\ store[pod].node = NodeOf[sub]) \/ sub \in Subscribers(pod)

\* An owner that a client of pods has concerns its node, or is to be
\* reconciled.
Warranted(owner, sub) ==
  Healthy(sub) /\ "Pod" \in KindsOf[sub] /\ Finds(owner, sub) =>
    \/ owner \in dirty \/ triggers[owner] > 0
    \/ \E pod \in RelatedPods[owner] : Backed(pod, sub)

Retreat ==
  /\ \A sub \in Subs : Retained(sub)
  /\ \A pod \in Pods, owner \in Owners : Linked(pod, owner)
  /\ \A kind \in Kinds : Placed(kind)
  /\ \A owner \in Owners : Findable(owner) => \A sub \in Subs : Warranted(owner, sub)

-----------------------------------------------------------------------------
\* A healthy subscriber that has a resource is registered with its collector.
LEMMA StillRegistered ==
  ASSUME TypeOK, SubscriberLife, Lineage, NEW key \in Keys, NEW sub \in Subs, Healthy(sub),
         sub \in Subscribers(key)
  PROVE  sub \in registry[Kind(key)][NodeOf[sub]]
<1>1. Registered(key, sub) /\ Kind(key) \in Kinds
  BY KindType DEF Lineage, Entry, Subscribers
<1>2. watch[sub].phase = "joined"
  BY <1>1 DEF SubscriberLife, Life, Healthy
<1>3. QED
  BY <1>1, <1>2 DEF Registered

\* Nobody has a resource before its Watch call begins.
LEMMA StaysHealthy ==
  ASSUME TypeOK, Lineage, [Next]_vars, NEW sub \in Subs, Healthy(sub)',
         NEW key \in Keys, sub \in Subscribers(key) \/ (Reads(key) /\ sub \in work[Kind(key)].subs)
  PROVE  Healthy(sub)
<1>1. Kind(key) \in Kinds
  BY KindType
<1>2. watch[sub].phase # "new"
  BY <1>1 DEF Lineage, Entry, Subscribers, Job, Reads, Fits
<1>3. ~StartWatch(sub)
  BY <1>2 DEF StartWatch, Watch
<1>4. QED
  BY <1>3, HealthyStep

\* Only the workers use the caches.
LEMMA OnlyWorkers ==
  ASSUME [Next]_vars
  PROVE  (\E kind \in Kinds : Reconcile(kind)) \/ UNCHANGED <<work, cache>>
BY DEF Next, ClusterStep, SliceChanges, DispatchSlices, DeliverTrigger, Dispatch, StartWatch,
   EndStream, LeaveWatch, Notify, BrokerStep, vars

LEMMA RetainedStep ==
  ASSUME TypeOK, SubscriberLife, Lineage, [Next]_vars, NEW sub \in Subs, Retained(sub)
  PROVE  Retained(sub)'
<1> DEFINE w == work["Pod"]
           key == w.key
<1>1. "Pod" \in Kinds /\ \A k \in Pods : k \in Keys /\ Kind(k) = "Pod"
  BY DEF Kinds, Keys, Kind
<1> SUFFICES ASSUME w'.pc = "refs", Healthy(sub)', sub \in Subscribers(w.key)'
             PROVE  sub \in w'.subs
  BY DEF Retained
<1>2. ASSUME w' = w, cache'[key] = cache[key]
      PROVE  sub \in w'.subs
  <2>1. w.pc = "refs" /\ key \in Keys /\ sub \in Subscribers(key)
    BY <1>1, <1>2, WorkPhases DEF Subscribers, Cached
  <2>2. Healthy(sub)
    BY <2>1, StaysHealthy
  <2>3. QED
    BY <1>2, <2>1, <2>2 DEF Retained
<1>3. ASSUME NEW kind \in Kinds, Reconcile(kind)
      PROVE  sub \in w'.subs
  <2>1. CASE kind = "Pod"
    <3>1. GoesOn("Pod")
      <4>1. Reading("Pod")'
        BY DEF Reading
      <4>2. QED
        BY <1>1, <1>3, <2>1, <4>1, Turns DEF Starts, Clears, Ends, Requeues, Delivers
    <3>2. /\ key \in Keys /\ Kind(key) = "Pod" /\ w'.key = key /\ cache' = cache
          /\ w'.subs = SubscribersPerNode("Pod", w.obj.node)
      BY <1>1, <3>1, WorkPhases DEF GoesOn, Lineage, Job
    <3>3. sub \in Subscribers(key)
      BY <3>2 DEF Subscribers, Cached
    <3>4. sub \in registry["Pod"][NodeOf[sub]]
      <4>1. Healthy(sub)
        BY <3>2, <3>3, StaysHealthy
      <4>2. QED
        BY <3>2, <3>3, <4>1, StillRegistered
    <3>5. w.obj.node = NodeOf[sub] /\ NodeOf[sub] # None
      BY <1>1, <3>1, <3>3, SubscribersAssumption, KeysAssumption
         DEF GoesOn, Lineage, Job, Subscribers
    <3>6. QED
      BY <3>2, <3>4, <3>5 DEF SubscribersPerNode
  <2>2. CASE kind # "Pod"
    <3>1. w' = w
      BY <1>1, <1>3, <2>2, Turns DEF Alone
    <3>2. key \in Keys /\ Kind(key) = "Pod"
      BY <1>1, <3>1, WorkPhases
    <3>3. QED
      BY <1>2, <1>3, <2>2, <3>1, <3>2, OwnEntries
  <2>3. QED
    BY <2>1, <2>2
<1>4. ASSUME UNCHANGED <<work, cache>>
      PROVE  sub \in w'.subs
  BY <1>2, <1>4
<1>5. QED
  BY <1>3, <1>4, OnlyWorkers

LEMMA LinkedStep ==
  ASSUME TypeOK, Lineage, Steady, [Next]_vars, NEW pod \in Pods, NEW owner \in Owners,
         Linked(pod, owner)
  PROVE  Linked(pod, owner)'
<1>1. pod \in Keys /\ Kind(pod) = "Pod"
  BY DEF Keys, Kind
<1>2. CASE cache'[pod] = cache[pod] \/ cache'[pod] = None
  BY <1>2 DEF Linked, Cached, Saved
<1>3. ASSUME NEW kind \in Kinds, Reconcile(kind)
      PROVE  Linked(pod, owner)'
  <2> DEFINE w == work[kind]
  <2>1. CASE kind # "Pod"
    BY <1>1, <1>2, <1>3, <2>1, OwnEntries
  <2>2. CASE Ends(kind) /\ kind = "Pod" /\ w.key = pod
    <3>1. cache'[pod] # None => /\ cache'[pod].hash[2].refs = PodRefs(pod)
                                /\ cache'[pod].refs = PodRefs(pod)
      BY <2>2 DEF Ends
    <3>2. Leads(pod, owner) /\ KindOf[owner] # "Service" => owner \in PodRefs(pod)
      BY DEF Leads, PodRefs, Steady
    <3>3. QED
      BY <3>1, <3>2 DEF Linked, Cached, Saved
  <2>3. QED
    BY <1>1, <1>2, <1>3, <2>1, <2>2, Turns
       DEF Starts, Clears, GoesOn, Ends, Requeues, Delivers, Cached
<1>4. QED
  BY <1>1, <1>2, <1>3, OutsideStep DEF Outside

LEMMA PlacedStep ==
  ASSUME NoReuse, TypeOK, Lineage, [Next]_vars, Calm, NEW kind \in Kinds, Placed(kind)
  PROVE  Placed(kind)'
<1> DEFINE w == work[kind]
<1> SUFFICES ASSUME w'.pc = "nodes", NEW placed \in w'.todo
             PROVE  /\ placed[1] \in RelatedPods[w'.key]
                    /\ store'[placed[1]] # None /\ store'[placed[1]].node = placed[2]
  BY DEF Placed, Exists
<1>1. ASSUME w' = w, placed[1] \in Pods => store'[placed[1]] = store[placed[1]]
      PROVE  /\ placed[1] \in RelatedPods[w'.key]
             /\ store'[placed[1]] # None /\ store'[placed[1]].node = placed[2]
  BY <1>1, WorkPhases DEF Placed, Exists, Reading
<1>2. ASSUME NEW k \in Kinds, Reconcile(k)
      PROVE  /\ placed[1] \in RelatedPods[w'.key]
             /\ store'[placed[1]] # None /\ store'[placed[1]].node = placed[2]
  <2>1. CASE k # kind
    BY <1>1, <1>2, <2>1, Turns DEF Alone
  <2>2. CASE k = kind
    <3>1. GoesOn(kind) /\ store' = store
      <4>1. Reading(kind)'
        BY DEF Reading
      <4>2. QED
        BY <1>2, <2>2, <4>1, Turns DEF Starts, Clears, Ends, Requeues, Delivers
    <3>2. kind # "Pod"
      <4>1. TypeOK'
        BY StepType
      <4>2. work'[kind].key \in Owners
        BY <4>1 DEF TypeOK, CollectorsTypeOK, WorkType, WorkRead, WorkPush, WorkIdle
      <4>3. work'[kind].key = work[kind].key /\ Kind(work[kind].key) = kind
        BY <3>1 DEF GoesOn, Lineage, Job
      <4>4. QED
        BY <4>2, <4>3, KeysAssumption, RelationsAssumption DEF Kind, OwnerKinds
    <3>3. PICK todo, subs : Visited(kind, todo, subs) /\ todo = w'.todo /\ w'.key = w.key
      BY <3>1, <3>2 DEF GoesOn
    <3>4. CASE todo = PlacedPods(w.key)
      BY <3>1, <3>3, <3>4 DEF PlacedPods, Exists
    <3>5. CASE w.pc = "nodes" /\ todo \subseteq w.todo
      BY <3>1, <3>3, <3>5 DEF Placed, Exists
    <3>6. QED
      BY <3>3, <3>4, <3>5 DEF Visited
  <2>3. QED
    BY <2>1, <2>2
<1>3. ASSUME UNCHANGED work
      PROVE  /\ placed[1] \in RelatedPods[w'.key]
             /\ store'[placed[1]] # None /\ store'[placed[1]].node = placed[2]
  <2>1. w' = w /\ placed \in Pods \X Nodes
    BY <1>3, WorkPhases DEF Reading
  <2>2. PICK pod \in Pods, node \in Nodes : placed = <<pod, node>>
    BY <2>1
  <2>3. pod \in RelatedPods[w.key] /\ Exists(pod) /\ store[pod].node = node /\ node # None
    BY <2>1, <2>2, KeysAssumption DEF Placed
  <2>4. ~Leaves(pod)
    BY <1>3, <2>1, <2>2 DEF Calm, Noticed
  <2>5. Ages(pod)
    BY <2>2, AgesStep DEF Lineage, Keys
  <2>6. store'[pod] # None /\ store'[pod].node = node
    BY <2>3, <2>4, <2>5 DEF Leaves, Ages, Exists
  <2>7. QED
    BY <2>1, <2>2, <2>3, <2>6
<1>4. QED
  BY <1>2, <1>3, OnlyWorkers

\* A pod that is gone triggers the owners it led to, before its subscribers
\* get the Delete.
LEMMA OwnersRetracted ==
  ASSUME TypeOK, Lineage, Reconcile("Pod"), NEW pod \in Pods, Clears("Pod", pod),
         Subscribers(pod) # {}, NEW owner \in Owners, owner \in cache[pod].refs,
         KindOf[owner] \in OwnersSources
  PROVE  triggers'[owner] > 0
<1> DEFINE w == work["Pod"]
           entry == cache[pod]
<1>1. "Pod" \in Kinds /\ pod \in Keys /\ owner \in Keys
  BY DEF Kinds, Keys
<1>2. Cached(pod) /\ cache'[pod] # cache[pod] /\ ~Exists(pod)
  BY DEF Subscribers, Clears, Cached
<1>3. entry \in CacheEntry /\ triggers \in [Keys -> Nat]
  BY <1>1, <1>2 DEF TypeOK, CollectorsTypeOK, Cached, WorkQueueTypeOK
<1>4. Forget("Pod", pod)
  <2>1. PICK key \in Keys : Get("Pod", key)
    <3>1. ~Reading("Pod")
      BY DEF Clears
    <3>2. ~PushEvent("Pod")
      BY <1>2 DEF PushEvent
    <3>3. QED
      BY <3>1, <3>2 DEF Reading, Reconcile, WorkerStep, ReadPodSubscribers, RefreshPod,
         NamespaceMissing, ReadFails, ListRelatedPods, CollectNode
  <2>2. ~Exists(key) /\ Forget("Pod", key)
    BY <1>2, <2>1 DEF Get
  <2>3. key = pod
    BY <1>1, <1>2, <2>2, ForgetEnds
  <2>4. QED
    BY <2>2, <2>3
<1>5. PICK uid \in Uid, prev \in SUBSET Subs, refs \in SUBSET Owners :
        uid = entry.uid /\ prev = entry.subs /\ refs = entry.refs
  BY <1>3 DEF CacheEntry
<1>6. PICK evts : /\ evts = ToEvents(uid, NoData, FALSE, {}, prev)
                  /\ EventLoop("Pod", pod, refs, evts)
  BY <1>2, <1>4, <1>5 DEF Forget
<1>7. evts # <<>> /\ Head(evts).type = "Delete"
  <2>1. {} \in SUBSET Subs /\ NoData \in Data /\ FALSE \in BOOLEAN
    BY DEF NoData, Data
  <2>2. IsBatch(evts, uid, NoData, FALSE, {}, prev)
    BY <1>6, <2>1, ToEventsBatch
  <2>3. PICK sub : sub \in prev
    BY <1>2, <1>5 DEF Subscribers
  <2>4. evts \in Seq(Event) /\ \A i \in DOMAIN evts : evts[i].type = "Delete"
    BY <2>2 DEF IsBatch, UpdatedFor
  <2>5. DOMAIN evts # {}
    BY <2>2, <2>3 DEF IsBatch
  <2>6. evts # <<>>
    BY <2>5
  <2>7. 1 \in DOMAIN evts /\ Head(evts) = evts[1]
    BY <2>4, <2>6
  <2>8. QED
    BY <2>4, <2>6, <2>7
<1>8. owner \in TriggeredBy("Pod", refs, evts)
  BY <1>5, <1>7 DEF TriggeredBy
<1>9. triggers'[owner] = triggers[owner] + 1 /\ triggers[owner] \in Nat
  BY <1>1, <1>3, <1>6, <1>8 DEF EventLoop, Trigger
<1>10. QED
  BY <1>9

\* Whom a worker finds, it had found before or finds on the node of a pod that
\* it visits.
LEMMA FindsWorker ==
  ASSUME TypeOK, SubscriberLife, Lineage, NEW owner \in Owners, NEW sub \in Subs,
         Reconcile(KindOf[owner]), Finds(owner, sub)', owner \notin dirty'
  PROVE  /\ owner \notin dirty
         /\ \/ Finds(owner, sub)
            \/ /\ Reads(owner) /\ work[KindOf[owner]].pc = "nodes"
               /\ \E pod \in Pods : <<pod, NodeOf[sub]>> \in work[KindOf[owner]].todo
<1> DEFINE K == KindOf[owner]
           w == work[K]
           Nearby == /\ Reads(owner) /\ w.pc = "nodes"
                     /\ \E pod \in Pods : <<pod, NodeOf[sub]>> \in w.todo
<1>1. owner \in Keys /\ K \in Kinds /\ Kind(owner) = K /\ K # "Pod"
  BY KeysAssumption, RelationsAssumption DEF Keys, Kinds, Kind, OwnerKinds
<1>2. \/ \E key \in Keys : Starts(K, key) \/ Clears(K, key)
      \/ GoesOn(K) \/ Ends(K) \/ Requeues(K) \/ Delivers(K)
  BY <1>1, Turns
<1>3. SUFFICES ASSUME owner \in dirty \/ (~Finds(owner, sub) /\ ~Nearby)
               PROVE  FALSE
  OBVIOUS
<1>4. ASSUME NEW todo, NEW subs, Visited(K, todo, subs), sub \in subs, Reads(owner),
             owner \notin dirty
      PROVE  FALSE
  <2>1. sub \notin w.subs /\ w.key = owner
    BY <1>1, <1>3, <1>4 DEF Finds, Reads
  <2>2. PICK placed \in w.todo : w.pc = "nodes" /\ sub \in SubscribersPerNode(K, placed[2])
    BY <1>4, <2>1 DEF Visited
  <2>3. PICK pod \in Pods, node \in Nodes : placed = <<pod, node>>
    BY <1>1, <2>2, WorkPhases DEF Reading
  <2>4. NodeOf[sub] = node
    <3>1. Life(K, sub) /\ node # None
      BY <1>1, KeysAssumption, <2>3 DEF SubscriberLife
    <3>2. QED
      BY <2>2, <2>3, <3>1 DEF Life, SubscribersPerNode
  <2>5. QED
    BY <1>3, <1>4, <2>2, <2>3, <2>4
<1>5. ASSUME NEW key \in Keys, Starts(K, key)
      PROVE  FALSE
  <2>1. CASE key = owner
    BY <1>1, <1>5, <2>1 DEF Starts, Finds, Reads
  <2>2. CASE key # owner
    <3>1. ~Reads(owner) /\ ~Reads(owner)' /\ Subscribers(owner)' = Subscribers(owner)
      BY <1>1, <1>5, <2>2 DEF Starts, Reads, Subscribers, Cached
    <3>2. QED
      BY <1>3, <1>5, <2>2, <3>1 DEF Starts, Finds
  <2>3. QED
    BY <2>1, <2>2
<1>6. ASSUME NEW key \in Keys, Clears(K, key)
      PROVE  FALSE
  <2>1. ~Reads(owner) /\ ~Reads(owner)'
    BY <1>1, <1>6 DEF Clears, Reads
  <2>2. key # owner /\ cache'[owner] = cache[owner]
    BY <1>1, <1>6, <2>1 DEF Clears, Finds, Subscribers
  <2>3. QED
    BY <1>3, <1>6, <2>1, <2>2 DEF Clears, Finds, Subscribers, Cached
<1>7. CASE GoesOn(K)
  <2>1. PICK todo, subs : Visited(K, todo, subs) /\ todo = work'[K].todo /\ subs = work'[K].subs
    BY <1>1, <1>7 DEF GoesOn
  <2>2. (Reads(owner)' <=> Reads(owner)) /\ Subscribers(owner)' = Subscribers(owner)
    BY <1>1, <1>7 DEF GoesOn, Reads, Subscribers, Cached
  <2>3. QED
    BY <1>3, <1>4, <1>7, <2>1, <2>2 DEF GoesOn, Finds
<1>8. CASE Ends(K)
  <2>1. ~Reads(owner)' /\ sub \in Subscribers(owner)' /\ owner \notin dirty
    BY <1>1, <1>8 DEF Ends, Reads, Finds
  <2>2. CASE w.key # owner
    <3>1. cache'[owner] = cache[owner] /\ ~Reads(owner)
      BY <1>1, <1>8, <2>2 DEF Ends, Reads
    <3>2. QED
      BY <1>3, <2>1, <3>1 DEF Finds, Subscribers, Cached
  <2>3. CASE w.key = owner
    <3>1. PICK subs : subs = IF cache'[owner] = None THEN {} ELSE cache'[owner].subs
      OBVIOUS
    <3>2. Visited(K, {}, subs) /\ Reads(owner) /\ sub \in subs
      BY <1>1, <1>8, <2>1, <2>3, <3>1 DEF Ends, Reads, Subscribers, Cached
    <3>3. QED
      BY <1>4, <2>1, <3>2
  <2>4. QED
    BY <2>2, <2>3
<1>9. CASE Requeues(K)
  <2>1. w.key # owner /\ owner \notin dirty
    BY <1>9 DEF Requeues
  <2>2. ~Reads(owner) /\ ~Reads(owner)' /\ Subscribers(owner)' = Subscribers(owner)
    BY <1>1, <1>9, <2>1 DEF Requeues, Reads, Subscribers, Cached
  <2>3. QED
    BY <1>3, <2>1, <2>2 DEF Finds
<1>10. CASE Delivers(K)
  <2>1. ~Reads(owner) /\ ~Reads(owner)' /\ Subscribers(owner)' = Subscribers(owner)
    BY <1>1, <1>10 DEF Delivers, Reads, Subscribers, Cached
  <2>2. QED
    BY <1>3, <1>10, <2>1 DEF Finds, Delivers
<1>11. QED
  BY <1>2, <1>5, <1>6, <1>7, <1>8, <1>9, <1>10

\* The steps of the worker of the owner's kind.
LEMMA WarrantedWorker ==
  ASSUME TypeOK, SubscriberLife, Lineage, NEW owner \in Owners, KindOf[owner] # "Pod",
         NEW sub \in Subs, Placed(KindOf[owner]), Warranted(owner, sub),
         Reconcile(KindOf[owner])
  PROVE  Warranted(owner, sub)'
<1> DEFINE K == KindOf[owner]
<1>1. /\ owner \in Keys /\ K \in Kinds /\ Kind(owner) = K
      /\ RelatedPods[owner] \subseteq Pods
      /\ \A pod \in Pods : pod \in Keys /\ Kind(pod) = "Pod"
  BY KeysAssumption, RelationsAssumption DEF Keys, Kinds, Kind
<1> SUFFICES ASSUME Healthy(sub)', "Pod" \in KindsOf[sub], Finds(owner, sub)',
                    owner \notin dirty', ~(triggers'[owner] > 0)
             PROVE  \E pod \in RelatedPods[owner] : Backed(pod, sub)'
  BY DEF Warranted
<1>2. Healthy(sub) /\ store' = store /\ Alone(K)
  <2>1. Healthy(sub)
    BY DEF Reconcile, watchVars, broVars, Healthy
  <2>2. QED
    BY <1>1, <2>1, Turns
<1>3. \A pod \in Pods : Backed(pod, sub) => Backed(pod, sub)'
  BY <1>1, <1>2, OwnEntries DEF Backed, Exists, Subscribers, Cached
<1>4. /\ owner \notin dirty
      /\ \/ Finds(owner, sub)
         \/ /\ Reads(owner) /\ work[K].pc = "nodes"
            /\ \E pod \in Pods : <<pod, NodeOf[sub]>> \in work[K].todo
  BY FindsWorker
<1>5. CASE Finds(owner, sub)
  <2>1. ~(triggers[owner] > 0)
    BY <1>1, <1>2 DEF Alone
  <2>2. PICK pod \in RelatedPods[owner] : Backed(pod, sub)
    BY <1>2, <1>4, <1>5, <2>1 DEF Warranted
  <2>3. QED
    BY <1>1, <1>3, <2>2
<1>6. ASSUME Reads(owner), work[K].pc = "nodes", NEW pod \in Pods,
             <<pod, NodeOf[sub]>> \in work[K].todo
      PROVE  \E p \in RelatedPods[owner] : Backed(p, sub)'
  <2>1. pod \in RelatedPods[owner] /\ Exists(pod) /\ store[pod].node = NodeOf[sub]
    BY <1>1, <1>6 DEF Placed, Reads
  <2>2. QED
    BY <1>1, <1>3, <2>1 DEF Backed
<1>7. QED
  BY <1>4, <1>5, <1>6

\* The steps of the pod collector.
LEMMA WarrantedPods ==
  ASSUME TypeOK, SubscriberLife, Lineage, Reconcile("Pod"), NEW owner \in Owners, Findable(owner),
         NEW sub \in Subs, Retained(sub), \A pod \in Pods : Linked(pod, owner),
         Warranted(owner, sub)
  PROVE  Warranted(owner, sub)'
<1> DEFINE K == KindOf[owner]
           w == work["Pod"]
<1>1. /\ owner \in Keys /\ K \in Kinds /\ Kind(owner) = K /\ K \in OwnersSources
      /\ K # "Pod" /\ K # "Service" /\ "Pod" \in Kinds
      /\ RelatedPods[owner] \subseteq Pods
      /\ \A pod \in Pods : pod \in Keys /\ Kind(pod) = "Pod"
  BY KeysAssumption, RelationsAssumption DEF Keys, Kinds, Kind, Findable, OwnersSources
<1> SUFFICES ASSUME Healthy(sub)', "Pod" \in KindsOf[sub], Finds(owner, sub)',
                    owner \notin dirty', ~(triggers'[owner] > 0)
             PROVE  \E pod \in RelatedPods[owner] : Backed(pod, sub)'
  BY DEF Warranted
<1>2. /\ Healthy(sub) /\ store' = store /\ registry' = registry /\ Alone("Pod")
      /\ \/ \E key \in Keys : Starts("Pod", key) \/ Clears("Pod", key)
         \/ GoesOn("Pod") \/ Ends("Pod") \/ Requeues("Pod") \/ Delivers("Pod")
  <2>1. Healthy(sub)
    BY DEF Reconcile, watchVars, broVars, Healthy
  <2>2. QED
    BY <1>1, <2>1, Turns
<1>3. Finds(owner, sub) /\ owner \notin dirty /\ ~(triggers[owner] > 0)
  <2>1. cache'[owner] = cache[owner] /\ owner \notin dirty
    BY <1>1, OwnEntries
  <2>2. work'[K] = work[K] /\ ~(triggers[owner] > 0)
    BY <1>1, <1>2 DEF Alone
  <2>3. QED
    BY <1>1, <2>1, <2>2 DEF Finds, Reads, Reading, Subscribers, Cached
<1>4. PICK pod \in RelatedPods[owner] : Backed(pod, sub)
  BY <1>2, <1>3 DEF Warranted
<1>5. pod \in Pods /\ pod \in Keys /\ Kind(pod) = "Pod"
  BY <1>1
<1>6. CASE Exists(pod) /\ store[pod].node = NodeOf[sub]
  BY <1>2, <1>6 DEF Backed, Exists
<1>7. CASE sub \in Subscribers(pod)
  <2>1. CASE cache'[pod] = cache[pod]
    BY <1>7, <2>1 DEF Backed, Subscribers, Cached
  <2>2. CASE Clears("Pod", pod)
    <3>1. owner \in cache[pod].refs
      BY <1>1, <1>5, <1>7 DEF Findable, Linked, Subscribers
    <3>2. QED
      BY <1>1, <1>5, <1>7, <2>2, <3>1, OwnersRetracted
  <2>3. CASE Ends("Pod") /\ w.key = pod
    <3>1. sub \in registry["Pod"][NodeOf[sub]] /\ w.obj.node = NodeOf[sub] /\ NodeOf[sub] # None
      <4>1. sub \in registry["Pod"][NodeOf[sub]]
        BY <1>2, <1>5, <1>7, StillRegistered
      <4>2. QED
        BY <1>1, <1>7, <2>3, <4>1, SubscribersAssumption, KeysAssumption
           DEF Ends, Lineage, Job, Subscribers
    <3>2. w.pc # "subs"
      BY <2>3, <3>1 DEF Ends, SubscribersPerNode
    <3>3. w.pc = "refs"
      BY <1>1, <1>5, <2>3, <3>2, WorkPhases, KeysAssumption DEF Ends, Reading
    <3>4. sub \in w.subs
      BY <1>2, <1>7, <2>3, <3>3 DEF Retained
    <3>5. cache'[pod] # None /\ cache'[pod].subs = w.subs
      BY <2>3, <3>2 DEF Ends
    <3>6. QED
      BY <3>4, <3>5 DEF Backed, Subscribers, Cached
  <2>4. QED
    BY <1>2, <1>5, <2>1, <2>2, <2>3 DEF Starts, Clears, GoesOn, Ends, Requeues, Delivers
<1>8. QED
  BY <1>4, <1>6, <1>7 DEF Backed

LEMMA WarrantedStep ==
  ASSUME NoReuse, TypeOK, SubscriberLife, Lineage, Retreat, [Next]_vars, Calm,
         NEW owner \in Owners, Findable(owner), NEW sub \in Subs
  PROVE  Warranted(owner, sub)'
<1> DEFINE K == KindOf[owner]
<1>1. /\ owner \in Keys /\ K \in Kinds /\ Kind(owner) = K /\ K # "Pod"
      /\ RelatedPods[owner] \subseteq Pods /\ Warranted(owner, sub)
      /\ \A pod \in Pods : pod \in Keys /\ Kind(pod) = "Pod"
  BY KeysAssumption, RelationsAssumption DEF Keys, Kinds, Kind, Findable, OwnersSources, Retreat
<1>2. ASSUME NEW kind \in Kinds, Reconcile(kind)
      PROVE  Warranted(owner, sub)'
  <2>1. CASE kind = K
    BY <1>1, <1>2, <2>1, WarrantedWorker DEF Retreat
  <2>2. CASE kind = "Pod"
    BY <1>1, <1>2, <2>2, WarrantedPods DEF Retreat
  <2>3. CASE kind # K /\ kind # "Pod"
    <3>1. cache'[owner] = cache[owner] /\ (owner \in dirty => owner \in dirty')
      BY <1>1, <1>2, <2>3, OwnEntries
    <3>2. \A pod \in Pods : cache'[pod] = cache[pod]
      BY <1>1, <1>2, <2>3, OwnEntries
    <3>3. work'[K] = work[K] /\ store' = store /\ (triggers[owner] > 0 => triggers'[owner] > 0)
      BY <1>1, <1>2, <2>3, Turns DEF Alone
    <3>4. Healthy(sub)' => Healthy(sub)
      BY <1>2 DEF Reconcile, watchVars, broVars, Healthy
    <3>5. Finds(owner, sub)' => Finds(owner, sub)
      BY <1>1, <3>1, <3>3 DEF Finds, Reads, Reading, Subscribers, Cached
    <3>6. \A pod \in RelatedPods[owner] : Backed(pod, sub) => Backed(pod, sub)'
      BY <1>1, <3>2, <3>3 DEF Backed, Exists, Subscribers, Cached
    <3>7. QED
      BY <1>1, <3>1, <3>3, <3>4, <3>5, <3>6 DEF Warranted
  <2>4. QED
    BY <2>1, <2>2, <2>3
<1>3. CASE Outside(owner)
  <2> SUFFICES ASSUME Healthy(sub)', "Pod" \in KindsOf[sub], Finds(owner, sub)',
                      owner \notin dirty', ~(triggers'[owner] > 0)
               PROVE  \E pod \in RelatedPods[owner] : Backed(pod, sub)'
    BY DEF Warranted
  <2>1. /\ UNCHANGED <<work, cache>> /\ owner \notin dirty /\ ~(triggers[owner] > 0)
        /\ Finds(owner, sub)
    BY <1>1, <1>3 DEF Outside, Finds, Reads, Reading, Subscribers, Cached
  <2>2. Healthy(sub)
    BY <1>1, <2>1, StaysHealthy DEF Finds
  <2>3. PICK pod \in RelatedPods[owner] : Backed(pod, sub)
    BY <1>1, <2>1, <2>2 DEF Warranted
  <2>4. pod \in Pods /\ pod \in Keys
    BY <1>1
  <2>5. CASE sub \in Subscribers(pod)
    BY <2>1, <2>5 DEF Backed, Subscribers, Cached
  <2>6. CASE Exists(pod) /\ store[pod].node = NodeOf[sub]
    <3>1. Ages(pod) /\ NodeOf[sub] # None
      BY <2>4, AgesStep, SubscribersAssumption, KeysAssumption DEF Lineage
    <3>2. CASE Exists(pod)'
      BY <2>6, <3>1, <3>2 DEF Ages, Backed, Exists
    <3>3. CASE ~Exists(pod)'
      <4>1. Noticed(pod)
        BY <2>4, <2>6, <3>3 DEF Calm, Leaves, Exists
      <4>2. Cached(pod) /\ sub \in cache[pod].subs
        BY <2>2, <2>6, <4>1 DEF Noticed
      <4>3. QED
        BY <2>1, <4>2 DEF Backed, Subscribers, Cached
    <3>4. QED
      BY <3>2, <3>3
  <2>7. QED
    BY <2>3, <2>5, <2>6 DEF Backed
<1>4. QED
  BY <1>1, <1>2, <1>3, OutsideStep

LEMMA RetreatInit == Init => Retreat
<1> SUFFICES ASSUME Init PROVE Retreat
  OBVIOUS
<1>1. /\ \A key \in Keys : cache[key] = None
      /\ \A kind \in Kinds : work[kind] = WorkIdle
  BY DEF Init, CollectorsInit
<1>2. /\ "Pod" \in Kinds /\ \A pod \in Pods : pod \in Keys
      /\ \A owner \in Owners : owner \in Keys /\ Kind(owner) \in Kinds
  BY KindType DEF Kinds, Keys
<1>3. \A owner \in Owners, sub \in Subs : Warranted(owner, sub)
  BY <1>1, <1>2 DEF Warranted, Finds, Reads, Reading, WorkIdle, Subscribers, Cached
<1>4. QED
  BY <1>1, <1>2, <1>3 DEF Retreat, Retained, Linked, Placed, WorkIdle, Cached

LEMMA RetreatStep ==
  ASSUME NoReuse, TypeOK, SubscriberLife, Lineage, Steady, Retreat, [Next]_vars, Calm
  PROVE  Retreat'
<1>1. ASSUME NEW sub \in Subs PROVE Retained(sub)'
  BY RetainedStep DEF Retreat
<1>2. ASSUME NEW pod \in Pods, NEW owner \in Owners PROVE Linked(pod, owner)'
  BY LinkedStep DEF Retreat
<1>3. ASSUME NEW kind \in Kinds PROVE Placed(kind)'
  BY PlacedStep DEF Retreat
<1>4. ASSUME NEW owner \in Owners, Findable(owner), NEW sub \in Subs PROVE Warranted(owner, sub)'
  BY <1>4, WarrantedStep
<1>5. QED
  BY <1>1, <1>2, <1>3, <1>4 DEF Retreat

\* What the invariants say of the owners of a client when everything is
\* processed.
LEMMA NothingLeftOver ==
  ASSUME TypeOK, SubscriberLife, Lineage, Flow, Sync, Trail, Retreat,
         \A sub \in Subs, owner \in Owners : KindOf[owner] \in KindsOf[sub] => Findable(owner)
  PROVE  AllInSync
<1> SUFFICES ASSUME NEW sub \in Subs, Settled(sub), "Pod" \in KindsOf[sub],
                    NEW kind \in Notified(sub)
             PROVE  View(sub, kind) = {Current(key) : key \in Relevant(sub, kind)}
  BY DEF AllInSync, InSync
<1>1. Quiescent /\ Healthy(sub) /\ kind \in KindsOf[sub]
  BY DEF Settled, Notified
<1>2. {Current(key) : key \in Relevant(sub, kind)} \subseteq View(sub, kind)
  BY OwnersFound DEF OwnersInformed, Informed
<1>3. CASE kind = "Pod"
  BY <1>3, SyncPods DEF PodsInSync, InSync
<1>4. CASE kind # "Pod"
  <2> SUFFICES ASSUME NEW item \in mirror[sub], Kind(item.uid[1]) = kind
               PROVE  <<item.uid, item.data.ver>> \in {Current(key) : key \in Relevant(sub, kind)}
    BY <1>2 DEF View
  <2>1. PICK owner \in Owners : item.uid[1] = owner /\ KindOf[owner] = kind
    <3>1. item.uid[1] \in Keys
      BY DEF TypeOK, BrokerTypeOK, Item, Uid
    <3>2. QED
      BY <1>4, <3>1 DEF Keys, Kind
  <2>2. owner \in Keys /\ kind \in Kinds /\ Kind(owner) = kind /\ RelatedPods[owner] \subseteq Pods
    BY <2>1, RelationsAssumption DEF Keys, Kinds
  <2>3. sub \in Subscribers(owner) /\ ~Reads(owner) /\ owner \notin dirty /\ triggers[owner] = 0
    <3>1. sub \in Subscribers(owner)
      BY <1>1, <2>1, <2>2, AtRest DEF Knows
    <3>2. QED
      BY <1>1, <2>2, <3>1 DEF Quiescent, Reads, Reading, WorkIdle
  <2>4. Exists(owner) /\ <<item.uid, item.data.ver>> = Current(owner)
    BY <1>1, <2>1, <2>2, <2>3, SavedIsCurrent
  <2>5. Findable(owner)
    BY <1>1, <2>1
  <2>6. PICK pod \in RelatedPods[owner] : Backed(pod, sub)
    BY <1>1, <2>3, <2>5 DEF Retreat, Warranted, Finds
  <2>7. Exists(pod) /\ store[pod].node = NodeOf[sub] /\ NodeOf[sub] # None
    <3>1. pod \in Pods /\ pod \in Keys
      BY <2>2 DEF Keys
    <3>2. QED
      BY <1>1, <2>6, <3>1, SavedIsCurrent, SubscribersAssumption, KeysAssumption DEF Backed
  <2>8. <<pod, NodeOf[sub]>> \in PlacedPods(owner)
    <3>1. KindOf[owner] # "Service"
      BY <2>5 DEF Findable, OwnersSources
    <3>2. QED
      BY <2>7, <3>1 DEF PlacedPods
  <2>9. owner \in Relevant(sub, kind)
    BY <1>4, <2>1, <2>4, <2>8 DEF Relevant
  <2>10. QED
    BY <2>4, <2>9
<1>5. QED
  BY <1>3, <1>4

\* As long as no name is used again, the references of the pods lead to the
\* owners that are selected, and a pod leaves only after the collectors
\* noticed it, a client of pods has exactly the owners of the pods of its
\* node, at their current version, whenever everything is processed, its
\* stream is healthy and no dispatch failed: an owner is retracted when its
\* last pod leaves the node, by the triggers that go before the Delete of
\* the pod, whatever the other workers do in between.
THEOREM OwnersLeaveWithTheirPods ==
  ASSUME NoReuse,
         \A sub \in Subs, owner \in Owners : KindOf[owner] \in KindsOf[sub] => Findable(owner)
  PROVE  Spec /\ [][Calm]_vars => []AllInSync
<1> DEFINE Inv == TypeOK /\ SubscriberLife /\ Lineage /\ Flow /\ Sync /\ Trail
<1>1. Spec => []Inv
  BY TrailInvariant
<1>2. Init => Retreat
  BY RetreatInit
<1>3. Inv /\ Retreat /\ [Next]_vars /\ [Calm]_vars => Retreat'
  <2>1. ASSUME Inv, Retreat, [Next]_vars, Calm PROVE Retreat'
    BY <2>1, RetreatStep DEF Trail
  <2>2. ASSUME Inv, Retreat, UNCHANGED vars PROVE Retreat'
    <3>1. Calm
      BY <2>2 DEF Calm, Leaves, Exists, vars, clusterVars
    <3>2. QED
      BY <2>1, <2>2, <3>1
  <2>3. QED
    BY <2>1, <2>2
<1>4. Inv /\ Retreat => AllInSync
  BY NothingLeftOver
<1>5. QED
  BY <1>1, <1>2, <1>3, <1>4, PTL DEF Spec
=============================================================================
