---------------------------- MODULE Metacollector ----------------------------
(***************************************************************************)
(* The whole collector: the informers' stores, the dispatchers, the        *)
(* reconcilers, the queue, the Watch handlers and the broker, composed as  *)
(* cmd/collector/run/run.go wires them.                                    *)
(***************************************************************************)
EXTENDS Collectors, EndpointSlices, Broker

vars == <<clusterVars, queueVars, sliceVars, dispVars, cache, work, queue, watchVars, broVars>>

TypeOK ==
  /\ WorkQueueTypeOK
  /\ ClusterTypeOK
  /\ SlicesTypeOK
  /\ DispatcherTypeOK
  /\ BlockingChannelTypeOK
  /\ CollectorsTypeOK
  /\ WatchTypeOK
  /\ BrokerTypeOK

Init ==
  /\ ClusterInit
  /\ SlicesInit
  /\ DispatcherInit
  /\ BlockingChannelInit
  /\ CollectorsInit
  /\ WatchInit
  /\ BrokerInit

-----------------------------------------------------------------------------
ClusterStep ==
  /\ ClusterNext
  /\ UNCHANGED <<sliceVars, dispVars, cache, work, queue, watchVars, broVars>>

SliceChanges ==
  /\ \E slice \in Slices, pods \in (SUBSET Pods) \cup {None} : ChangeSlice(slice, pods)
  /\ UNCHANGED <<dispVars, cache, work, queue, watchVars, broVars>>

DispatchSlices ==
  /\ SliceStep
  /\ UNCHANGED <<dispVars, cache, work, queue, watchVars, broVars>>

DeliverTrigger(key) ==
  /\ Deliver(key)
  /\ UNCHANGED <<clusterVars, sliceVars, dispVars, cache, work, queue, watchVars, broVars>>

Dispatch(kind) ==
  /\ DispatcherStep(kind)
  /\ UNCHANGED <<sliceVars, cache, work, queue, watchVars, broVars>>

Reconcile(kind) ==
  /\ WorkerStep(kind)
  /\ UNCHANGED <<sliceVars, watchVars, broVars>>

StartWatch(sub) ==
  /\ Watch(sub)
  /\ UNCHANGED <<clusterVars, queueVars, sliceVars, dispVars, cache, work, queue, broVars>>

\* The handler hands its message to the dispatcher of the kind.
Notify(sub, kind) ==
  /\ NotifyCollector(sub, kind)
  /\ Receive(kind, sub, Joins(sub))
  /\ UNCHANGED <<clusterVars, queueVars, sliceVars, cache, work, queue, broVars>>

EndStream(sub) ==
  /\ StreamEnds(sub)
  /\ UNCHANGED <<clusterVars, queueVars, sliceVars, dispVars, cache, work, queue, broVars>>

LeaveWatch(sub) ==
  /\ LeaveOnStreamEnd(sub) \/ LeaveOnError(sub)
  /\ UNCHANGED <<clusterVars, queueVars, sliceVars, dispVars, cache, work, queue, broVars>>

\* A send on an open stream fails only by a fault.
BrokerStep ==
  /\ \/ PopEvent /\ UNCHANGED faults
     \/ \E sub \in Subs : LoadConnection(sub) /\ UNCHANGED faults
     \/ \E sub \in Subs : Send(sub) /\ UNCHANGED faults
     \/ \E sub \in Subs : ~Open(sub) /\ SendFails(sub) /\ UNCHANGED faults
     \/ \E sub \in Subs : Open(sub) /\ SendFails(sub) /\ Fault("send")
  /\ UNCHANGED <<store, born, queueVars, sliceVars, dispVars, cache, work>>

Next ==
  \/ ClusterStep
  \/ SliceChanges
  \/ DispatchSlices
  \/ \E key \in Keys : DeliverTrigger(key)
  \/ \E kind \in Kinds : Dispatch(kind) \/ Reconcile(kind)
  \/ \E sub \in Subs : StartWatch(sub) \/ EndStream(sub) \/ LeaveWatch(sub)
  \/ \E sub \in Subs, kind \in Kinds : Notify(sub, kind)
  \/ BrokerStep

Spec == Init /\ [][Next]_vars

-----------------------------------------------------------------------------
(***************************************************************************)
(* Safety.                                                                 *)
(***************************************************************************)

\* The message of sub's departure from the collector of kind is on its way.
Departing(sub, kind) ==
  \/ watch[sub].phase = "left" /\ kind \in watch[sub].todo
  \/ disp[kind].pc = "registry" /\ disp[kind].sub = sub /\ ~disp[kind].join

\* A collector has a subscriber in its registry only under the node and for
\* a kind of its selector, and only while the connection is stored or the
\* message that removes the subscriber is still on its way: no Watch call
\* that ended leaves a subscriber behind (Watch and dispatch).
RegisteredHasConnection ==
  \A kind \in Kinds, node \in Nodes : \A sub \in registry[kind][node] :
    /\ node = NodeOf[sub]
    /\ kind \in KindsOf[sub]
    /\ sub \in conns \/ Departing(sub, kind)

\* The broker never blocks in Connection.Close, also when it closes a
\* connection whose handler has returned and reads the channel no more.
CloseNeverBlocks ==
  \A sub \in Subs : bro.con = sub /\ SendsError(sub) => sub \notin errors

\* No message to sub has been lost.
Healthy(sub) == sub \in conns /\ sub \notin ended \cup closed

Known(sub) == {i.uid : i \in mirror[sub]}

\* On a healthy stream a Create announces a resource the client does not
\* know, and an Update or a Delete is about one that it does (the caches of
\* the collectors mirror what the broker sent).
StreamProtocol ==
  \A sub \in Subs :
    bro.con = sub /\ Healthy(sub) =>
      (bro.evt.type = "Create" <=> bro.evt.uid \notin Known(sub))

\* Nothing is in progress or on its way in any component.
Quiescent ==
  /\ dirty = {}
  /\ dirtySlices = {}
  /\ epsWork = EpsIdle
  /\ \A key \in Keys : triggers[key] = 0
  /\ \A kind \in Kinds : disp[kind] = DispIdle /\ work[kind] = WorkIdle
  /\ queue = <<>>
  /\ bro = BroIdle
  /\ \A sub \in Subs : watch[sub].todo = {}
  /\ \A sub \in Subs : Serving(sub) => sub \notin ended \cup errors

\* The resources of the kind that concern the node of sub.
Relevant(sub, kind) ==
  IF kind = "Pod" THEN PodsOnNode(NodeOf[sub])
  ELSE {o \in Owners : KindOf[o] = kind /\ Exists(o)
                       /\ \E placed \in PlacedPods(o) : placed[2] = NodeOf[sub]}

View(sub, kind) == {<<i.uid, i.data.ver>> : i \in {j \in mirror[sub] : Kind(j.uid[1]) = kind}}

Current(key) == <<<<key, store[key].inc>>, store[key].ver>>

\* The client of sub knows exactly the relevant resources of the kind, at
\* their current version.
InSync(sub, kind) == View(sub, kind) = {Current(key) : key \in Relevant(sub, kind)}

\* The client knows the relevant resources, and perhaps some others.
Informed(sub, kind) == {Current(key) : key \in Relevant(sub, kind)} \subseteq View(sub, kind)

\* A dispatcher gives up after an error, and its subscriber is left without
\* what it would have requested.
NoDispatchFault == "dispatch" \in FaultSites => faults = 0

Settled(sub) == Quiescent /\ Healthy(sub) /\ Serving(sub) /\ NoDispatchFault

\* Once everything is processed, the client of a subscriber that selects
\* pods knows exactly the pods of its node, at their current version: no
\* order of subscriptions, departures, informer events and reconciles loses
\* a pod, keeps one that is gone or leaves a stale version.
PodsInSync ==
  \A sub \in Subs : Settled(sub) /\ "Pod" \in KindsOf[sub] => InSync(sub, "Pod")

\* Once everything is processed, the client of a subscriber that selects pods
\* also knows every selected owner of the pods of its node: an owner is
\* found by the dispatcher, by an event of its own, or by triggerOwners.
OwnersInformed ==
  \A sub \in Subs : Settled(sub) /\ "Pod" \in KindsOf[sub] =>
    \A kind \in Notified(sub) : Informed(sub, kind)

\* Once everything is processed, the references of the pods the client knows
\* lead to owners it knows, for the kinds it selected and whose collectors
\* pods trigger.
RefsResolve ==
  \A sub \in Subs : Settled(sub) =>
    \A item \in mirror[sub] : \A o \in item.data.refs :
      KindOf[o] \in Notified(sub) \cap OwnersSources /\ Exists(o) =>
        Current(o) \in View(sub, KindOf[o])

\* Once everything is processed, the client knows the relevant resources of
\* all the selected kinds and no others: an owner is retracted when its last
\* pod leaves the node.
AllInSync ==
  \A sub \in Subs : Settled(sub) /\ "Pod" \in KindsOf[sub] =>
    \A kind \in Notified(sub) : InSync(sub, kind)

\* The pods that serve the service.
ServingPods(service) == {placed[1] : placed \in PlacedPods(service)}

\* A slice of the service lists the pod, in the store or in the map Pods.
ListedIn(view, service, pod) ==
  \E e \in Slices : ServiceOf[e] = service /\ pod \in PodsOf(view[e])

\* The slice lists pods that serve its service.
SliceSound(e) ==
  slices[e] # None => Exists(ServiceOf[e]) /\ slices[e] \subseteq ServingPods(ServiceOf[e])

\* The slices list the pods that serve their services, and all of them.
SlicesCurrent ==
  /\ \A e \in Slices : SliceSound(e)
  /\ \A o \in Owners : KindOf[o] = "Service" /\ Exists(o) =>
       \A pod \in ServingPods(o) : ListedIn(slices, o, pod)

\* Once everything is processed and the slices are current, the client knows
\* exactly the services that serve a pod of its node.
ServicesInSync ==
  \A sub \in Subs : Settled(sub) /\ SlicesCurrent /\ "Service" \in KindsOf[sub] =>
    InSync(sub, "Service")

\* Once everything is processed and the slices are current, a pod that serves
\* is known with its current references: the slices trigger the pods that
\* joined or left a service.
RefsCurrent ==
  \A sub \in Subs : Settled(sub) /\ SlicesCurrent =>
    \A item \in mirror[sub] :
      LET pod == item.uid[1] IN
      pod \in Pods /\ Exists(pod) /\ HasIP(pod) => item.data.refs = PodRefs(pod)

\* A collector drops the cache entry of a resource only if every subscriber
\* of the entry that is still registered is about to get a Delete for it.
DroppedIsDeleted ==
  [][\A key \in Keys :
       Cached(key) /\ cache'[key] = None =>
         \A sub \in cache[key].subs :
           sub \in registry[Kind(key)][NodeOf[sub]] =>
             \E i \in DOMAIN work'[Kind(key)].evts :
               LET evt == work'[Kind(key)].evts[i] IN
               evt.type = "Delete" /\ evt.uid = cache[key].uid /\ sub \in evt.subs]_vars

-----------------------------------------------------------------------------
(***************************************************************************)
(* The environments in which a client ends up with nothing more than what  *)
(* concerns it.                                                            *)
(***************************************************************************)
Leaves(key) == Exists(key) /\ store'[key] = None

\* Who is to know the pod has it, as far as the cache tells, and no collector
\* is about to look for subscribers on its behalf.
Noticed(pod) ==
  /\ \A sub \in Subs :
       Healthy(sub) /\ "Pod" \in KindsOf[sub] /\ NodeOf[sub] = store[pod].node =>
         Cached(pod) /\ sub \in cache[pod].subs
  /\ \A kind \in Kinds : \A placed \in work[kind].todo : placed[1] # pod

\* The collectors keep up with the pods: one leaves only after it was noticed.
Calm == \A pod \in Pods : Leaves(pod) => Noticed(pod)

\* The store of slices follows the stores of pods and services: a slice
\* changes only to what they hold, a pod that serves leaves only after a slice
\* listed it, and a service after the dispatcher of slices saw its pods.
Ordered ==
  /\ \A e \in Slices : slices'[e] # slices[e] => SliceSound(e)'
  /\ \A o \in Owners : KindOf[o] = "Service" /\ Exists(o) =>
       \A pod \in ServingPods(o) :
         /\ Leaves(pod) => ListedIn(slices, o, pod)
         /\ Leaves(o) => ListedIn(slicePods, o, pod)

-----------------------------------------------------------------------------
(***************************************************************************)
(* What the clients are promised.                                          *)
(***************************************************************************)
Feed == INSTANCE MetadataFeed WITH
  world <- store,
  feed <- mirror,
  sending <- IF bro.con = None THEN None
             ELSE [sub |-> bro.con, type |-> bro.evt.type,
                   item |-> [uid |-> bro.evt.uid, data |-> bro.evt.data]],
  lost <- {sub \in Subs : watch[sub].phase # "new" /\ ~Healthy(sub)}

\* The collector implements the feed: until a message to it is lost, a client
\* gets Creates of resources it selected and does not know, Updates of those it
\* knows to versions that never go back, and Deletes of what it knows.
ImplementsFeed == Feed!FeedSpec

-----------------------------------------------------------------------------
(***************************************************************************)
(* Liveness.  The goroutines of the program are scheduled fairly, generic  *)
(* events in flight arrive and Send returns: the client of an open stream  *)
(* reads, or its stream ends.  The cluster and the clients owe nothing.    *)
(***************************************************************************)
Fairness ==
  /\ \A key \in Keys : WF_vars(DeliverTrigger(key))
  /\ WF_vars(DispatchSlices)
  /\ \A kind \in Kinds : WF_vars(Dispatch(kind)) /\ WF_vars(Reconcile(kind))
  /\ \A sub \in Subs : WF_vars(LeaveWatch(sub))
  /\ \A sub \in Subs, kind \in Kinds : WF_vars(Notify(sub, kind))
  /\ WF_vars(BrokerStep)

FairSpec == Spec /\ Fairness

\* Whatever happens, the program catches up: no worker, dispatcher, handler
\* or the broker waits for ever for another one.  It is about instances
\* without owners: a pod whose namespace never appears is retried for ever.
CatchesUp == []<>Quiescent

\* The handler of a stream that ended returns.
WatchReturns == \A sub \in Subs : sub \in ended ~> Returned(sub)
=============================================================================
