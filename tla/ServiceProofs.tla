---------------------------- MODULE ServiceProofs ----------------------------
(***************************************************************************)
(* Once everything is processed and the slices are current, a client has   *)
(* exactly the services that serve a pod of its node, and the pods that    *)
(* serve refer to their services.  No event of a pod triggers a service:   *)
(* the dispatcher of slices does, for the changes of the slices it saw.    *)
(* Hence the slices have to follow the other stores (Ordered); the run     *)
(* slices_ahead shows what happens otherwise.                              *)
(***************************************************************************)
EXTENDS OwnerProofs

Services == {owner \in Owners : KindOf[owner] = "Service"}

\* The pods a service selects find the service by its selector.
Selecting(svc) == \A pod \in RelatedPods[svc] : svc \in OwnerRefs[pod]

-----------------------------------------------------------------------------
(***************************************************************************)
(* The invariant, in parts.                                                *)
(***************************************************************************)

\* The kubelet reports the address of a pod once the pod has a node.
Addressed(pod) == Exists(pod) /\ HasIP(pod) => store[pod].node # None

\* The map Pods of the dispatcher is what the slice holds, or the slice is to
\* be reconciled; both list pods that served the service.
Sliced(e) ==
  LET svc == ServiceOf[e] IN
  /\ slicePods[e] # slices[e] => e \in dirtySlices
  /\ \A pod \in PodsOf(slices[e]) \cup PodsOf(slicePods[e]) :
       /\ born[svc] = 1 /\ born[pod] = 1 /\ pod \in RelatedPods[svc]
       /\ svc \in Services /\ Exists(pod) => store[pod].node # None /\ HasIP(pod)

\* The listed pod is on the node of the registered subscriber.
Entitled(svc, pod, sub) ==
  /\ sub \in registry["Service"][NodeOf[sub]]
  /\ Exists(svc) /\ Exists(pod) /\ store[pod].node = NodeOf[sub]
  /\ ListedIn(slices, svc, pod)
  /\ NoDispatchFault

\* The service will get to the subscriber, or has.
Reached(svc, pod, sub) ==
  Entitled(svc, pod, sub) => \/ svc \in dirty \/ triggers[svc] > 0
                           \/ Asking(svc, pod, sub)
                           \/ Visiting(svc, pod, sub)

\* The pod serves on the node, or its slice has yet to change.
Stands(svc, pod, node) ==
  \/ Exists(pod) /\ store[pod].node = node /\ HasIP(pod)
  \/ ~Exists(pod) /\ ListedIn(slices, svc, pod)

\* A service that a client has serves a pod of its node, or is to be
\* reconciled.
Upheld(svc, sub) ==
  Healthy(sub) /\ Finds(svc, sub) =>
    \/ svc \in dirty \/ triggers[svc] > 0
    \/ \E pod \in RelatedPods[svc] : Stands(svc, pod, NodeOf[sub])

\* The same of the pods that the worker has still to visit.
Standing(svc) ==
  LET w == work["Service"] IN
  Reads(svc) /\ w.pc = "nodes" =>
    \A placed \in w.todo :
      /\ placed[1] \in RelatedPods[svc]
      /\ svc \in dirty \/ triggers[svc] > 0 \/ Stands(svc, placed[1], placed[2])

\* The pod is to be reconciled.
PodDue(pod) == pod \in dirty \/ triggers[pod] > 0 \/ pod \in epsWork.pods \/ Reads(pod)

\* A pod that the dispatcher of slices saw refers to the service, unless the
\* pod is to be reconciled.
RefUp(pod, svc) ==
  Exists(svc) /\ Cached(pod) /\ ListedIn(slicePods, svc, pod) =>
    PodDue(pod) \/ svc \in Saved(pod).refs

\* A pod that refers to a service that is gone is to be reconciled, or will be
\* once the dispatcher sees the slice without it.
RefDown(pod, svc) ==
  ~Exists(svc) /\ Exists(pod) /\ HasIP(pod) /\ Cached(pod) /\ svc \in Saved(pod).refs =>
    PodDue(pod) \/ ListedIn(slicePods, svc, pod)

\* Nothing is left that does not serve.
Support ==
  /\ \A pod \in Pods : Addressed(pod)
  /\ \A e \in Slices : Sliced(e)
  /\ \A svc \in Services : Standing(svc) /\ \A sub \in Subs : Upheld(svc, sub)

\* For the services that select the pods that refer to them.
Delivery ==
  \A svc \in Services : Selecting(svc) =>
    \A pod \in RelatedPods[svc], sub \in Subs : Reached(svc, pod, sub)

\* What the entries of the pods refer to.
References ==
  /\ \A pod \in Pods, owner \in Owners : Linked(pod, owner)
  /\ \A svc \in Services, pod \in Pods :
       /\ Selecting(svc) => RefUp(pod, svc)
       /\ Listed(svc) => RefDown(pod, svc)

-----------------------------------------------------------------------------
(***************************************************************************)
(* The slices.                                                             *)
(***************************************************************************)

LEMMA AddressedStep ==
  ASSUME TypeOK, [Next]_vars, NEW pod \in Pods, Addressed(pod)
  PROVE  Addressed(pod)'
<1>1. pod \in Keys /\ store \in [Keys -> Object \cup {None}] /\ born \in [Keys -> Nat]
  BY DEF Keys, TypeOK, ClusterTypeOK
<1>2. ASSUME store'[pod] = store[pod] PROVE Addressed(pod)'
  BY <1>2 DEF Addressed, Exists, HasIP
<1>3. ASSUME ClusterStep PROVE Addressed(pod)'
  <2>1. ASSUME NEW key \in Keys, NEW node \in Nodes \cup {None}, CreateObject(key, node)
        PROVE  Addressed(pod)'
    <3>1. key # pod => store'[pod] = store[pod]
      BY <1>1, <2>1 DEF CreateObject, Observe
    <3>2. key = pod => store'[pod].ver = 0
      BY <1>1, <2>1 DEF CreateObject, Observe, NewObject
    <3>3. QED
      BY <1>2, <3>1, <3>2 DEF Addressed, HasIP
  <2>2. ASSUME NEW p \in Pods, NEW node \in Nodes, SchedulePod(p, node)
        PROVE  Addressed(pod)'
    <3>1. p # pod => store'[pod] = store[pod]
      BY <1>1, <2>2 DEF SchedulePod, Observe
    <3>2. p = pod => store'[pod].node = node
      <4>1. p = pod => store[pod] \in Object
        BY <1>1, <2>2 DEF SchedulePod, Exists
      <4>2. QED
        BY <1>1, <2>2, <4>1 DEF SchedulePod, Observe, Object
    <3>3. QED
      BY <1>2, <3>1, <3>2, KeysAssumption DEF Addressed
  <2>3. ASSUME NEW key \in Keys, UpdateObject(key)
        PROVE  Addressed(pod)'
    <3>1. key # pod => store'[pod] = store[pod]
      BY <1>1, <2>3 DEF UpdateObject, Observe
    <3>2. key = pod => store'[pod].node = store[pod].node /\ store[pod].node # None
      <4>1. key = pod => store[pod] \in Object
        BY <1>1, <2>3 DEF UpdateObject, Exists
      <4>2. QED
        BY <1>1, <2>3, <4>1 DEF UpdateObject, Observe, Object, PassesFilter
    <3>3. QED
      BY <1>2, <3>1, <3>2 DEF Addressed
  <2>4. ASSUME NEW key \in Keys, DeleteObject(key)
        PROVE  Addressed(pod)'
    <3>1. key # pod => store'[pod] = store[pod]
      BY <1>1, <2>4 DEF DeleteObject, Observe
    <3>2. key = pod => ~Exists(pod)'
      BY <1>1, <2>4 DEF DeleteObject, Observe, Exists
    <3>3. QED
      BY <1>2, <3>1, <3>2 DEF Addressed
  <2>5. QED
    BY <1>3, <2>1, <2>2, <2>3, <2>4 DEF ClusterStep, ClusterNext, Keys
<1>4. QED
  BY <1>2, <1>3, StoreStep

\* Who changes the slices and what the dispatcher knows of them.
LEMMA SlicesStep ==
  ASSUME [Next]_vars
  PROVE  SliceChanges \/ DispatchSlices \/ UNCHANGED sliceVars
BY DEF Next, ClusterStep, DeliverTrigger, Dispatch, Reconcile, StartWatch, EndStream, LeaveWatch,
   Notify, BrokerStep, vars

\* An object that was there before is there only if it still is.
LEMMA StillThere ==
  ASSUME NoReuse, TypeOK, Births, [Next]_vars, NEW pod \in Pods, born[pod] = 1, Exists(pod)'
  PROVE  /\ Exists(pod)
         /\ store[pod].node # None => store'[pod].node = store[pod].node
         /\ HasIP(pod) => HasIP(pod)'
<1>1. pod \in Keys /\ Ages(pod)
  BY AgesStep DEF Keys
<1>2. store \in [Keys -> Object \cup {None}] /\ store' \in [Keys -> Object \cup {None}]
  BY StepType DEF TypeOK, ClusterTypeOK
<1>3. Exists(pod)
  BY <1>1 DEF Ages, Exists
<1>4. store[pod].ver \in Nat /\ store'[pod].ver \in Nat
  BY <1>1, <1>2, <1>3 DEF Exists, Object
<1>5. store'[pod].ver >= store[pod].ver
  BY <1>1, <1>3, <1>4 DEF Ages, Exists
<1>6. HasIP(pod) => HasIP(pod)'
  BY <1>4, <1>5 DEF HasIP
<1>7. QED
  BY <1>1, <1>3, <1>6 DEF Ages, Exists

LEMMA SlicedStep ==
  ASSUME NoReuse, TypeOK, Births, [Next]_vars, Ordered, NEW e \in Slices, Sliced(e)
  PROVE  Sliced(e)'
<1> DEFINE svc == ServiceOf[e]
           Good(pod) == /\ born[svc] = 1 /\ born[pod] = 1 /\ pod \in RelatedPods[svc]
                        /\ svc \in Services /\ Exists(pod) => store[pod].node # None /\ HasIP(pod)
<1>1. /\ svc \in Owners /\ svc \in Keys /\ RelatedPods[svc] \subseteq Pods
      /\ \A pod \in Pods : pod \in Keys
  BY SlicesAssumption, RelationsAssumption DEF Keys
<1>2. /\ slices \in [Slices -> (SUBSET Pods) \cup {None}]
      /\ slicePods \in [Slices -> (SUBSET Pods) \cup {None}]
  BY DEF TypeOK, SlicesTypeOK
<1>3. \A key \in Keys : Ages(key)
  BY AgesStep
<1>4. ASSUME NEW pod \in Pods, Good(pod) PROVE Good(pod)'
  <2>1. born'[svc] = 1 /\ born'[pod] = 1
    BY <1>1, <1>3, <1>4 DEF Ages
  <2>2. svc \in Services /\ Exists(pod)' => store'[pod].node # None /\ HasIP(pod)'
    BY <1>4, StillThere
  <2>3. QED
    BY <1>4, <2>1, <2>2
<1>5. \A pod \in PodsOf(slices[e]) \cup PodsOf(slicePods[e]) : pod \in Pods /\ Good(pod)
  BY <1>2 DEF Sliced, PodsOf
<1>6. ASSUME NEW pod \in PodsOf(slices'[e]), slices'[e] # slices[e]
      PROVE  Good(pod)'
  <2>1. slices'[e] # None /\ pod \in slices'[e]
    BY <1>6 DEF PodsOf
  <2>2. Exists(svc)' /\ pod \in ServingPods(svc)'
    BY <1>6, <2>1 DEF Ordered, SliceSound
  <2>3. /\ pod \in RelatedPods[svc] /\ Exists(pod)' /\ store'[pod].node # None
        /\ svc \in Services => HasIP(pod)'
    BY <2>2 DEF ServingPods, PlacedPods, Services, Exists, HasIP
  <2>4. Births'
    BY <1>3 DEF Births, Ages, Exists
  <2>5. QED
    BY <1>1, <2>2, <2>3, <2>4 DEF Births
<1>7. ASSUME slicePods'[e] \in {slicePods[e], slices[e]}
      PROVE  \A pod \in PodsOf(slices'[e]) \cup PodsOf(slicePods'[e]) : Good(pod)'
  BY <1>4, <1>5, <1>6, <1>7
<1>8. /\ slicePods'[e] \in {slicePods[e], slices[e]}
      /\ slicePods'[e] # slices'[e] => e \in dirtySlices'
  <2>1. CASE UNCHANGED sliceVars
    BY <2>1 DEF sliceVars, Sliced
  <2>2. CASE SliceChanges
    <3>1. PICK slice \in Slices, pods \in (SUBSET Pods) \cup {None} : ChangeSlice(slice, pods)
      BY <2>2 DEF SliceChanges
    <3>2. QED
      BY <1>2, <3>1 DEF ChangeSlice, Sliced
  <2>3. CASE DispatchSlices
    <3>1. ASSUME NEW slice \in Slices, ReconcileSlice(slice)
          PROVE  /\ slicePods'[e] \in {slicePods[e], slices[e]}
                 /\ slicePods'[e] # slices'[e] => e \in dirtySlices'
      BY <1>2, <3>1 DEF ReconcileSlice, Sliced
    <3>2. CASE (\E pod \in Pods : TriggerPod(pod)) \/ TriggerService
      BY <3>2 DEF TriggerPod, TriggerService, Sliced
    <3>3. QED
      BY <2>3, <3>1, <3>2 DEF DispatchSlices, SliceStep
  <2>4. QED
    BY <2>1, <2>2, <2>3, SlicesStep
<1>9. QED
  BY <1>7, <1>8 DEF Sliced

\* The collector of services hears of every change of a slice.
LEMMA ListedStep ==
  ASSUME TypeOK, [Next]_vars, NEW svc \in Owners, NEW pod \in Pods
  PROVE  svc \in dirty' \/ (ListedIn(slices, svc, pod)' <=> ListedIn(slices, svc, pod))
<1>1. CASE UNCHANGED slices
  BY <1>1 DEF ListedIn
<1>2. CASE SliceChanges
  <2>1. PICK slice \in Slices, pods \in (SUBSET Pods) \cup {None} : ChangeSlice(slice, pods)
    BY <1>2 DEF SliceChanges
  <2>2. CASE ServiceOf[slice] = svc
    BY <2>1, <2>2 DEF ChangeSlice, Enqueue
  <2>3. CASE ServiceOf[slice] # svc
    <3>1. \A e \in Slices : ServiceOf[e] = svc => slices'[e] = slices[e]
      BY <2>1, <2>3 DEF ChangeSlice, TypeOK, SlicesTypeOK
    <3>2. QED
      BY <3>1 DEF ListedIn
  <2>4. QED
    BY <2>2, <2>3
<1>3. CASE DispatchSlices
  BY <1>1, <1>3 DEF DispatchSlices, SliceStep, ReconcileSlice, TriggerPod, TriggerService
<1>4. QED
  BY <1>1, <1>2, <1>3, SlicesStep DEF sliceVars

\* The dispatcher of slices triggers the pods that joined or left.
LEMMA SeenStep ==
  ASSUME TypeOK, [Next]_vars, NEW svc \in Owners, NEW pod \in Pods
  PROVE  pod \in epsWork'.pods \/ (ListedIn(slicePods, svc, pod)' <=> ListedIn(slicePods, svc, pod))
<1>1. CASE UNCHANGED slicePods
  BY <1>1 DEF ListedIn
<1>2. ASSUME NEW slice \in Slices, ReconcileSlice(slice), pod \notin epsWork'.pods
      PROVE  ListedIn(slicePods, svc, pod)' <=> ListedIn(slicePods, svc, pod)
  <2>1. epsWork'.pods = TriggeredPods(slice)
    BY <1>2 DEF ReconcileSlice
  <2>2. pod \in PodsOf(slicePods[slice]) <=> pod \in PodsOf(slices[slice])
    BY <1>2, <2>1 DEF TriggeredPods
  <2>3. \A e \in Slices : slicePods'[e] = IF e = slice THEN slices[e] ELSE slicePods[e]
    BY <1>2 DEF ReconcileSlice, TypeOK, SlicesTypeOK
  <2>4. \A e \in Slices : pod \in PodsOf(slicePods'[e]) <=> pod \in PodsOf(slicePods[e])
    BY <2>2, <2>3
  <2>5. QED
    BY <2>4 DEF ListedIn
<1>3. CASE SliceChanges
  BY <1>1, <1>3 DEF SliceChanges, ChangeSlice
<1>4. CASE DispatchSlices
  BY <1>1, <1>2, <1>4 DEF DispatchSlices, SliceStep, TriggerPod, TriggerService
<1>5. QED
  BY <1>1, <1>3, <1>4, SlicesStep DEF sliceVars

-----------------------------------------------------------------------------
(***************************************************************************)
(* The services a client has.                                              *)
(***************************************************************************)

\* The end of a pod that serves leaves a slice that has yet to change.
LEMMA StandsStep ==
  ASSUME NoReuse, TypeOK, Births, [Next]_vars, Ordered, \A e \in Slices : Sliced(e),
         NEW svc \in Services, NEW pod \in RelatedPods[svc], NEW node \in Nodes,
         Stands(svc, pod, node), Exists(svc)
  PROVE  Stands(svc, pod, node)' \/ svc \in dirty'
<1>1. svc \in Owners /\ KindOf[svc] = "Service" /\ pod \in Pods /\ pod \in Keys /\ node # None
  BY RelationsAssumption, KeysAssumption DEF Services, Keys
<1>2. svc \in dirty' \/ (ListedIn(slices, svc, pod)' <=> ListedIn(slices, svc, pod))
  BY <1>1, ListedStep
<1>3. CASE Exists(pod) /\ store[pod].node = node /\ HasIP(pod)
  <2>1. born[pod] = 1
    BY <1>1, <1>3 DEF Births
  <2>2. CASE Exists(pod)'
    BY <1>1, <1>3, <2>1, <2>2, StillThere DEF Stands
  <2>3. CASE ~Exists(pod)'
    <3>1. <<pod, store[pod].node>> \in PlacedPods(svc)
      BY <1>1, <1>3 DEF PlacedPods
    <3>2. pod \in ServingPods(svc)
      BY <3>1 DEF ServingPods
    <3>3. ListedIn(slices, svc, pod)
      BY <1>1, <1>3, <2>3, <3>2 DEF Ordered, Leaves, Exists
    <3>4. QED
      BY <1>2, <2>3, <3>3 DEF Stands
  <2>4. QED
    BY <2>2, <2>3
<1>4. CASE ~Exists(pod) /\ ListedIn(slices, svc, pod)
  <2>1. born[pod] = 1
    BY <1>4 DEF ListedIn, Sliced
  <2>2. ~Exists(pod)'
    BY <1>1, <1>4, <2>1, StillThere
  <2>3. QED
    BY <1>2, <1>4, <2>2 DEF Stands
<1>5. QED
  BY <1>3, <1>4 DEF Stands

\* A service whose worker has an object, or that somebody has, exists or is to
\* be reconciled.
LEMMA HeldServices ==
  ASSUME Sync, NEW svc \in Services, Reads(svc) \/ Subscribers(svc) # {}
  PROVE  Exists(svc) \/ svc \in dirty
<1>1. svc \in Keys /\ svc \notin Pods
  BY KeysAssumption DEF Services, Keys
<1>2. QED
  BY <1>1 DEF Sync, Cleared, PassesFilter

\* The steps of the workers leave the slices and the pods alone.
LEMMA StandsWorker ==
  ASSUME TypeOK, Lineage, NEW kind \in Kinds, Reconcile(kind), NEW svc, NEW pod \in Pods, NEW node
  PROVE  Stands(svc, pod, node)' <=> Stands(svc, pod, node)
<1>1. store' = store /\ slices' = slices
  BY Turns DEF Reconcile, sliceVars
<1>2. QED
  BY <1>1 DEF Stands, Exists, HasIP, ListedIn

LEMMA StandingStep ==
  ASSUME NoReuse, TypeOK, Lineage, Sync, [Next]_vars, Ordered, \A e \in Slices : Sliced(e),
         NEW svc \in Services, Standing(svc)
  PROVE  Standing(svc)'
<1> DEFINE w == work["Service"]
<1>1. /\ svc \in Owners /\ svc \in Keys /\ Kind(svc) = "Service" /\ KindOf[svc] = "Service"
      /\ "Service" \in Kinds /\ RelatedPods[svc] \subseteq Pods
  BY KeysAssumption, RelationsAssumption DEF Services, Keys, Kinds, Kind
<1> SUFFICES ASSUME Reads(svc)', w'.pc = "nodes", NEW placed \in w'.todo
             PROVE  /\ placed[1] \in RelatedPods[svc]
                    /\ \/ svc \in dirty' \/ triggers'[svc] > 0
                       \/ Stands(svc, placed[1], placed[2])'
  BY DEF Standing
<1>2. PICK pod \in Pods, node \in Nodes : placed = <<pod, node>>
  <2>1. TypeOK'
    BY StepType
  <2>2. work'["Service"].todo \in SUBSET (Pods \X Nodes)
    BY <1>1, <2>1 DEF TypeOK, CollectorsTypeOK, WorkType, WorkRead, WorkPush, WorkIdle
  <2>3. QED
    BY <2>2
<1>3. ASSUME Reads(svc), w.pc = "nodes", placed \in w.todo
      PROVE  /\ pod \in RelatedPods[svc]
             /\ svc \in dirty \/ triggers[svc] > 0 \/ Stands(svc, pod, node)
  BY <1>2, <1>3 DEF Standing
<1>4. ASSUME NEW kind \in Kinds, Reconcile(kind)
      PROVE  /\ pod \in RelatedPods[svc]
             /\ svc \in dirty' \/ triggers'[svc] > 0 \/ Stands(svc, pod, node)'
  <2>1. (triggers[svc] > 0 => triggers'[svc] > 0) /\ store' = store
    BY <1>1, <1>4, Turns DEF Alone
  <2>2. Stands(svc, pod, node)' <=> Stands(svc, pod, node)
    BY <1>4, StandsWorker
  <2>3. CASE kind # "Service"
    <3>1. w' = w
      BY <1>1, <1>4, <2>3, Turns DEF Alone
    <3>2. Reads(svc) /\ w.pc = "nodes" /\ placed \in w.todo
      BY <1>1, <3>1 DEF Reads, Reading
    <3>3. svc \in dirty => svc \in dirty'
      BY <1>1, <1>4, <2>3, OwnEntries
    <3>4. QED
      BY <1>3, <2>1, <2>2, <3>2, <3>3
  <2>4. CASE kind = "Service"
    <3>1. GoesOn("Service")
      BY <1>1, <1>4, <2>4, Turns DEF Reads, Starts, Clears, Ends, Requeues, Delivers
    <3>2. Reads(svc) /\ w.key = svc /\ dirty' = dirty
      BY <1>1, <3>1 DEF GoesOn, Reads
    <3>3. PICK todo, subs : Visited("Service", todo, subs) /\ placed \in todo
      BY <3>1 DEF GoesOn
    <3>4. CASE todo = PlacedPods(svc)
      <4>1. PICK p \in RelatedPods[svc] : /\ placed = <<p, store[p].node>>
                                          /\ Exists(p) /\ HasIP(p)
        BY <1>1, <3>3, <3>4 DEF PlacedPods
      <4>2. p = pod /\ store[pod].node = node
        BY <1>2, <4>1
      <4>3. QED
        BY <2>2, <4>1, <4>2 DEF Stands
    <3>5. CASE w.pc = "nodes" /\ todo \subseteq w.todo
      BY <1>3, <2>1, <2>2, <3>2, <3>3, <3>5
    <3>6. QED
      BY <3>2, <3>3, <3>4, <3>5 DEF Visited
  <2>5. QED
    BY <2>3, <2>4
<1>5. CASE Outside(svc)
  <2>1. Reads(svc) /\ w.pc = "nodes" /\ placed \in w.todo
    BY <1>1, <1>5 DEF Outside, Reads, Reading
  <2>2. pod \in RelatedPods[svc] /\ (svc \in dirty \/ triggers[svc] > 0 \/ Stands(svc, pod, node))
    BY <1>3, <2>1
  <2>3. Exists(svc) \/ svc \in dirty
    BY <2>1, HeldServices
  <2>4. Stands(svc, pod, node) /\ Exists(svc) => Stands(svc, pod, node)' \/ svc \in dirty'
    BY <2>2, StandsStep DEF Lineage
  <2>5. QED
    BY <1>2, <1>5, <2>2, <2>3, <2>4 DEF Outside
<1>6. QED
  BY <1>1, <1>2, <1>4, <1>5, OutsideStep

LEMMA UpheldStep ==
  ASSUME NoReuse, TypeOK, SubscriberLife, Lineage, Sync, [Next]_vars, Ordered,
         \A e \in Slices : Sliced(e),
         NEW svc \in Services, Standing(svc), NEW sub \in Subs, Upheld(svc, sub)
  PROVE  Upheld(svc, sub)'
<1>1. /\ svc \in Owners /\ svc \in Keys /\ Kind(svc) = "Service" /\ KindOf[svc] = "Service"
      /\ "Service" \in Kinds /\ RelatedPods[svc] \subseteq Pods /\ NodeOf[sub] \in Nodes
  BY KeysAssumption, RelationsAssumption, SubscribersAssumption DEF Services, Keys, Kinds, Kind
<1> SUFFICES ASSUME Healthy(sub)', Finds(svc, sub)', svc \notin dirty', ~(triggers'[svc] > 0)
             PROVE  \E pod \in RelatedPods[svc] : Stands(svc, pod, NodeOf[sub])'
  BY DEF Upheld
<1>2. ASSUME NEW kind \in Kinds, Reconcile(kind)
      PROVE  \E pod \in RelatedPods[svc] : Stands(svc, pod, NodeOf[sub])'
  <2>1. ~(triggers[svc] > 0)
    BY <1>1, <1>2, Turns DEF Alone
  <2>2. Healthy(sub)
    BY <1>2 DEF Reconcile, watchVars, broVars, Healthy
  <2>3. \A pod \in Pods : Stands(svc, pod, NodeOf[sub]) => Stands(svc, pod, NodeOf[sub])'
    BY <1>2, StandsWorker
  <2>4. ASSUME Finds(svc, sub), svc \notin dirty
        PROVE  \E pod \in RelatedPods[svc] : Stands(svc, pod, NodeOf[sub])'
    BY <1>1, <2>1, <2>2, <2>3, <2>4 DEF Upheld
  <2>5. CASE kind # "Service"
    <3>1. work'["Service"] = work["Service"]
      BY <1>1, <1>2, <2>5, Turns DEF Alone
    <3>2. cache'[svc] = cache[svc] /\ (svc \in dirty => svc \in dirty')
      BY <1>1, <1>2, <2>5, OwnEntries
    <3>3. Finds(svc, sub)
      BY <1>1, <3>1, <3>2 DEF Finds, Reads, Reading, Subscribers, Cached
    <3>4. QED
      BY <2>4, <3>2, <3>3
  <2>6. CASE kind = "Service"
    <3>1. /\ svc \notin dirty
          /\ \/ Finds(svc, sub)
             \/ /\ Reads(svc) /\ work["Service"].pc = "nodes"
                /\ \E pod \in Pods : <<pod, NodeOf[sub]>> \in work["Service"].todo
      BY <1>1, <1>2, <2>6, FindsWorker
    <3>2. ASSUME Reads(svc), work["Service"].pc = "nodes", NEW pod \in Pods,
                 <<pod, NodeOf[sub]>> \in work["Service"].todo
          PROVE  \E p \in RelatedPods[svc] : Stands(svc, p, NodeOf[sub])'
      <4>1. pod \in RelatedPods[svc] /\ Stands(svc, pod, NodeOf[sub])
        BY <2>1, <3>1, <3>2 DEF Standing
      <4>2. QED
        BY <2>3, <4>1
    <3>3. QED
      BY <2>4, <3>1, <3>2
  <2>7. QED
    BY <2>5, <2>6
<1>3. CASE Outside(svc)
  <2>1. /\ svc \notin dirty /\ ~(triggers[svc] > 0) /\ Finds(svc, sub)
    BY <1>1, <1>3 DEF Outside, Finds, Reads, Reading, Subscribers, Cached
  <2>2. Healthy(sub)
    BY <1>1, <2>1, StaysHealthy DEF Finds
  <2>3. PICK pod \in RelatedPods[svc] : Stands(svc, pod, NodeOf[sub])
    BY <2>1, <2>2 DEF Upheld
  <2>4. Exists(svc)
    BY <2>1, HeldServices DEF Finds
  <2>5. QED
    BY <1>1, <2>3, <2>4, StandsStep DEF Lineage
<1>4. QED
  BY <1>1, <1>2, <1>3, OutsideStep

-----------------------------------------------------------------------------
(***************************************************************************)
(* The services of the pods of a node.                                     *)
(***************************************************************************)

LEMMA ReachedStep ==
  ASSUME NoReuse, TypeOK, Lineage, [Next]_vars, \A e \in Slices : Sliced(e),
         NEW svc \in Services, Selecting(svc), NEW pod \in RelatedPods[svc], NEW sub \in Subs,
         Reached(svc, pod, sub)
  PROVE  Reached(svc, pod, sub)'
<1>1. /\ svc \in Owners /\ svc \in Keys /\ svc \notin Pods /\ KindOf[svc] = "Service"
      /\ Kind(svc) = "Service" /\ "Service" \in Kinds /\ pod \in Pods /\ pod \in Keys
  BY KeysAssumption, RelationsAssumption DEF Services, Keys, Kinds, Kind
<1> SUFFICES ASSUME Entitled(svc, pod, sub)', svc \notin dirty', ~(triggers'[svc] > 0)
             PROVE  Asking(svc, pod, sub)' \/ Visiting(svc, pod, sub)'
  BY DEF Reached
<1>2. ListedIn(slices, svc, pod) /\ NoDispatchFault
  BY <1>1, ListedStep, FaultsStep DEF Entitled
<1>3. /\ Exists(pod) /\ store[pod].node = NodeOf[sub] /\ HasIP(pod)
      /\ NodeOf[sub] \in Nodes /\ NodeOf[sub] # None
  <2>1. PICK e \in Slices : ServiceOf[e] = svc /\ pod \in PodsOf(slices[e])
    BY <1>2 DEF ListedIn
  <2>2. born[pod] = 1 /\ (Exists(pod) => store[pod].node # None /\ HasIP(pod))
    BY <2>1 DEF Sliced
  <2>3. Exists(pod)' /\ store'[pod].node = NodeOf[sub]
    BY DEF Entitled
  <2>4. Exists(pod) /\ (store[pod].node # None => store'[pod].node = store[pod].node)
    BY <1>1, <2>2, <2>3, StillThere DEF Lineage
  <2>5. QED
    BY <2>2, <2>3, <2>4, SubscribersAssumption, KeysAssumption
<1>4. ASSUME Exists(svc), sub \in registry["Service"][NodeOf[sub]], svc \notin dirty,
             ~(triggers[svc] > 0)
      PROVE  Asking(svc, pod, sub) \/ Visiting(svc, pod, sub)
  BY <1>2, <1>3, <1>4 DEF Reached, Entitled
<1>5. ASSUME NEW kind \in Kinds, Reconcile(kind)
      PROVE  Asking(svc, pod, sub)' \/ Visiting(svc, pod, sub)'
  <2>1. UNCHANGED <<store, registry, disp>> /\ ~(triggers[svc] > 0)
    BY <1>1, <1>5, Turns DEF Alone
  <2>2. Exists(svc) /\ sub \in registry["Service"][NodeOf[sub]]
    BY <2>1 DEF Entitled, Exists
  <2>3. <<pod, NodeOf[sub]>> \in PlacedPods(svc)
    <3>1. <<pod, store[pod].node>> \in PlacedPods(svc)
      BY <1>3 DEF PlacedPods
    <3>2. QED
      BY <1>3, <3>1
  <2>4. CASE Asking(svc, pod, sub)
    BY <2>1, <2>4 DEF Asking
  <2>5. CASE svc \in dirty \/ Visiting(svc, pod, sub)
    BY <1>1, <1>5, <2>2, <2>3, <2>5, VisitingWorker
  <2>6. QED
    BY <1>4, <2>1, <2>2, <2>4, <2>5
<1>6. CASE Outside(svc)
  <2>1. /\ svc \notin dirty /\ ~(triggers[svc] > 0)
        /\ Visiting(svc, pod, sub) => Visiting(svc, pod, sub)'
    BY <1>6 DEF Outside, Visiting, Reads, Reading, Subscribers, Cached
  <2>2. Exists(svc)
    BY <1>1, <1>6 DEF Outside, PassesFilter, Entitled, Exists
  <2>3. CASE Dispatch("Service")
    <3> SUFFICES ASSUME ~Visiting(svc, pod, sub)
                 PROVE  Asking(svc, pod, sub)'
      BY <2>1
    <3>1. svc \in DispatchTargets("Service", pod)
      BY <1>1, <2>2 DEF DispatchTargets, Selecting
    <3>2. sub \in registry["Service"][NodeOf[sub]] => Asking(svc, pod, sub)
      BY <1>4, <2>1, <2>2
    <3>3. sub \in registry'["Service"][NodeOf[sub]] /\ NoDispatchFault'
      BY DEF Entitled
    <3>4. QED
      BY <1>1, <1>3, <2>3, <3>1, <3>2, <3>3, AskingDispatch
  <2>4. CASE ~Dispatch("Service")
    <3>1. /\ registry'["Service"] = registry["Service"]
          /\ disp'["Service"] = disp["Service"] \/ disp["Service"].pc = "idle"
      BY <1>1, <2>4, Undispatched
    <3>2. Asking(svc, pod, sub) \/ Visiting(svc, pod, sub)
      BY <1>4, <2>1, <2>2, <3>1 DEF Entitled
    <3>3. Asking(svc, pod, sub) => Asking(svc, pod, sub)'
      BY <1>1, <3>1 DEF Asking
    <3>4. QED
      BY <2>1, <3>2, <3>3
  <2>5. QED
    BY <2>3, <2>4
<1>7. QED
  BY <1>1, <1>5, <1>6, OutsideStep

-----------------------------------------------------------------------------
(***************************************************************************)
(* The references of the pods.                                             *)
(***************************************************************************)

\* The entry of a pod changes only to the references of the moment, and the
\* request for the pod is not lost.
LEMMA DueWorker ==
  ASSUME TypeOK, Lineage, NEW kind \in Kinds, Reconcile(kind), NEW pod \in Pods, Cached(pod)'
  PROVE  \/ cache'[pod] = cache[pod] /\ (PodDue(pod) => PodDue(pod)')
         \/ Saved(pod)'.refs = PodRefs(pod)
<1> DEFINE w == work["Pod"]
<1>1. pod \in Keys /\ Kind(pod) = "Pod" /\ "Pod" \in Kinds
  BY DEF Keys, Kind, Kinds
<1>2. epsWork' = epsWork /\ (triggers[pod] > 0 => triggers'[pod] > 0)
  BY <1>1, Turns DEF Reconcile, sliceVars, Alone
<1>3. CASE kind # "Pod"
  <2>1. cache'[pod] = cache[pod] /\ (pod \in dirty => pod \in dirty')
    BY <1>1, <1>3, OwnEntries
  <2>2. w' = w
    BY <1>1, <1>3, Turns DEF Alone
  <2>3. QED
    BY <1>1, <1>2, <2>1, <2>2 DEF PodDue, Reads, Reading
<1>4. CASE kind = "Pod"
  <2>1. ASSUME NEW key \in Keys, Starts("Pod", key)
        PROVE  cache'[pod] = cache[pod] /\ (PodDue(pod) => PodDue(pod)')
    BY <1>1, <1>2, <2>1 DEF Starts, PodDue, Reads
  <2>2. ASSUME NEW key \in Keys, Clears("Pod", key)
        PROVE  cache'[pod] = cache[pod] /\ (PodDue(pod) => PodDue(pod)')
    <3>1. key # pod
      BY <2>2 DEF Clears
    <3>2. QED
      BY <1>1, <1>2, <2>2, <3>1 DEF Clears, PodDue, Reads
  <2>3. CASE GoesOn("Pod") \/ Requeues("Pod") \/ Delivers("Pod")
    BY <1>1, <1>2, <2>3 DEF GoesOn, Requeues, Delivers, PodDue, Reads
  <2>4. CASE Ends("Pod") /\ w.key # pod
    BY <1>1, <1>2, <2>4 DEF Ends, PodDue, Reads
  <2>5. CASE Ends("Pod") /\ w.key = pod
    BY <1>1, <2>5 DEF Ends, Cached, Saved
  <2>6. QED
    BY <1>1, <1>4, <2>1, <2>2, <2>3, <2>4, <2>5, Turns
<1>5. QED
  BY <1>3, <1>4

LEMMA DueOutside ==
  ASSUME TypeOK, [Next]_vars, NEW pod \in Pods, Outside(pod), PodDue(pod)
  PROVE  PodDue(pod)'
<1>1. pod \in Keys
  BY DEF Keys
<1>2. CASE pod \in dirty \/ triggers[pod] > 0 \/ Reads(pod)
  BY <1>2 DEF Outside, PodDue, Reads, Reading
<1>3. CASE pod \in epsWork.pods
  <2>1. CASE UNCHANGED epsWork
    BY <1>3, <2>1 DEF PodDue
  <2>2. ASSUME NEW p \in Pods, TriggerPod(p)
        PROVE  PodDue(pod)'
    <3>1. CASE p = pod
      <4>1. triggers'[pod] = triggers[pod] + 1 /\ triggers[pod] \in Nat
        BY <1>1, <2>2, <3>1 DEF TriggerPod, Request, Trigger, TypeOK, WorkQueueTypeOK
      <4>2. triggers'[pod] > 0
        BY <4>1
      <4>3. QED
        BY <4>2 DEF PodDue
    <3>2. CASE p # pod
      <4>1. epsWork'.pods = epsWork.pods \ {p}
        BY <2>2 DEF TriggerPod, TypeOK, SlicesTypeOK
      <4>2. QED
        BY <1>3, <3>2, <4>1 DEF PodDue
    <3>3. QED
      BY <3>1, <3>2
  <2>3. ASSUME NEW slice \in Slices
        PROVE  ~ReconcileSlice(slice)
    BY <1>3 DEF ReconcileSlice, EpsIdle
  <2>4. ~TriggerService
    BY <1>3 DEF TriggerService
  <2>5. QED
    BY <2>1, <2>2, <2>3, <2>4, SlicesStep
       DEF SliceChanges, ChangeSlice, DispatchSlices, SliceStep, sliceVars
<1>4. QED
  BY <1>2, <1>3 DEF PodDue

LEMMA RefUpStep ==
  ASSUME NoReuse, TypeOK, Lineage, [Next]_vars, \A e \in Slices : Sliced(e), NEW svc \in Services,
         Selecting(svc), NEW pod \in Pods, RefUp(pod, svc)
  PROVE  RefUp(pod, svc)'
<1>1. svc \in Owners /\ svc \in Keys /\ KindOf[svc] = "Service" /\ pod \in Keys
  BY DEF Services, Keys
<1> SUFFICES ASSUME Exists(svc)', Cached(pod)', ListedIn(slicePods, svc, pod)', ~PodDue(pod)'
             PROVE  svc \in Saved(pod)'.refs
  BY DEF RefUp
<1>2. ListedIn(slicePods, svc, pod)
  BY <1>1, SeenStep DEF PodDue
<1>3. Exists(svc) /\ svc \in OwnerRefs[pod]
  <2>1. PICK e \in Slices : ServiceOf[e] = svc /\ pod \in PodsOf(slicePods[e])
    BY <1>2 DEF ListedIn
  <2>2. born[svc] = 1 /\ pod \in RelatedPods[svc]
    BY <2>1 DEF Sliced
  <2>3. Ages(svc)
    BY <1>1, AgesStep DEF Lineage
  <2>4. QED
    BY <2>2, <2>3 DEF Ages, Exists, Selecting
<1>4. ASSUME cache'[pod] = cache[pod], ~PodDue(pod)
      PROVE  svc \in Saved(pod)'.refs
  BY <1>2, <1>3, <1>4 DEF RefUp, Cached, Saved
<1>5. ASSUME NEW kind \in Kinds, Reconcile(kind)
      PROVE  svc \in Saved(pod)'.refs
  <2>1. svc \in PodRefs(pod)
    BY <1>1, <1>3 DEF PodRefs
  <2>2. QED
    BY <1>4, <1>5, <2>1, DueWorker
<1>6. CASE Outside(pod)
  <2>1. ~PodDue(pod)
    BY <1>6, DueOutside
  <2>2. QED
    BY <1>4, <1>6, <2>1 DEF Outside
<1>7. QED
  BY <1>1, <1>5, <1>6, OutsideStep

LEMMA RefDownStep ==
  ASSUME NoReuse, TypeOK, Lineage, [Next]_vars, Ordered, NEW svc \in Services, Listed(svc),
         NEW pod \in Pods, Referring(pod), Addressed(pod), RefDown(pod, svc)
  PROVE  RefDown(pod, svc)'
<1>1. svc \in Owners /\ svc \in Keys /\ KindOf[svc] = "Service" /\ pod \in Keys
  BY DEF Services, Keys
<1> SUFFICES ASSUME ~Exists(svc)', Exists(pod)', HasIP(pod)', Cached(pod)',
                    svc \in Saved(pod)'.refs, ~PodDue(pod)'
             PROVE  ListedIn(slicePods, svc, pod)
  BY <1>1, SeenStep DEF RefDown, PodDue
<1>2. ASSUME NEW kind \in Kinds, Reconcile(kind)
      PROVE  ListedIn(slicePods, svc, pod)
  <2>1. store' = store
    BY <1>2, Turns
  <2>2. svc \notin PodRefs(pod)
    BY <1>1, <2>1 DEF PodRefs, Exists
  <2>3. cache'[pod] = cache[pod] /\ ~PodDue(pod)
    BY <1>2, <2>2, DueWorker
  <2>4. QED
    BY <2>1, <2>3 DEF RefDown, Exists, HasIP, Cached, Saved
<1>3. CASE Outside(pod)
  <2>1. ~PodDue(pod) /\ Cached(pod) /\ svc \in Saved(pod).refs
    BY <1>3, DueOutside DEF Outside, Cached, Saved
  <2>2. store'[pod] = store[pod]
    <3>1. Addressed(pod)'
      BY AddressedStep
    <3>2. PassesFilter(pod, store'[pod])
      BY <3>1 DEF Addressed, PassesFilter
    <3>3. QED
      BY <1>3, <3>2 DEF Outside, PodDue
  <2>3. Exists(pod) /\ HasIP(pod) /\ store[pod].node # None
    BY <2>2 DEF Exists, HasIP, Addressed
  <2>4. CASE ~Exists(svc)
    BY <2>1, <2>3, <2>4 DEF RefDown
  <2>5. CASE Exists(svc)
    <3>1. pod \in RelatedPods[svc]
      BY <2>1 DEF Referring, Listed
    <3>2. <<pod, store[pod].node>> \in PlacedPods(svc)
      BY <2>3, <3>1 DEF PlacedPods
    <3>3. pod \in ServingPods(svc)
      BY <3>2 DEF ServingPods
    <3>4. QED
      BY <1>1, <2>5, <3>3 DEF Ordered, Leaves, Exists
  <2>6. QED
    BY <2>4, <2>5
<1>4. QED
  BY <1>1, <1>2, <1>3, OutsideStep

-----------------------------------------------------------------------------
(***************************************************************************)
(* The invariant.                                                          *)
(***************************************************************************)

LEMMA ServicesInit == Init => Support /\ Delivery /\ References
<1> SUFFICES ASSUME Init PROVE Support /\ Delivery /\ References
  OBVIOUS
<1>1. /\ \A key \in Keys : cache[key] = None
      /\ \A kind \in Kinds : work[kind] = WorkIdle
      /\ \A pod \in Pods : ~Exists(pod)
      /\ \A e \in Slices : slices[e] = None /\ slicePods[e] = None
  BY KeysAssumption, ClusterAssumption
     DEF Init, CollectorsInit, ClusterInit, SlicesInit, Exists, Keys
<1>2. \A pod \in Pods : pod \in Keys
  BY DEF Keys
<1>3. \A e \in Slices : Sliced(e)
  BY <1>1 DEF Sliced, PodsOf
<1>4. ASSUME NEW svc \in Services
      PROVE  ~Reads(svc) /\ Subscribers(svc) = {} /\ RelatedPods[svc] \subseteq Pods
  <2>1. svc \in Keys /\ Kind(svc) \in Kinds /\ RelatedPods[svc] \subseteq Pods
    BY KindType, RelationsAssumption DEF Services, Keys
  <2>2. QED
    BY <1>1, <2>1 DEF Reads, Reading, WorkIdle, Subscribers, Cached
<1>5. Support
  BY <1>1, <1>3, <1>4 DEF Support, Addressed, Standing, Upheld, Finds
<1>6. Delivery
  BY <1>1, <1>4 DEF Delivery, Reached, Entitled
<1>7. References
  BY <1>1, <1>2 DEF References, Linked, RefUp, RefDown, Cached
<1>8. QED
  BY <1>5, <1>6, <1>7

LEMMA ServicesStep ==
  ASSUME NoReuse, TypeOK, SubscriberLife, Lineage, Sync, Trail, Support, Delivery, References,
         [Next]_vars, Ordered
  PROVE  Support' /\ Delivery' /\ References'
<1>1. \A e \in Slices : Sliced(e)
  BY DEF Support
<1>2. Support'
  <2>1. ASSUME NEW pod \in Pods PROVE Addressed(pod)'
    BY AddressedStep DEF Support
  <2>2. ASSUME NEW e \in Slices PROVE Sliced(e)'
    BY <1>1, SlicedStep DEF Lineage
  <2>3. ASSUME NEW svc \in Services PROVE Standing(svc)'
    BY <1>1, StandingStep DEF Support
  <2>4. ASSUME NEW svc \in Services, NEW sub \in Subs PROVE Upheld(svc, sub)'
    BY <1>1, UpheldStep DEF Support
  <2>5. QED
    BY <2>1, <2>2, <2>3, <2>4 DEF Support
<1>3. Delivery'
  <2> SUFFICES ASSUME NEW svc \in Services, Selecting(svc), NEW pod \in RelatedPods[svc],
                      NEW sub \in Subs
               PROVE  Reached(svc, pod, sub)'
    BY DEF Delivery
  <2>1. QED
    BY <1>1, ReachedStep DEF Delivery
<1>4. References'
  <2>1. ASSUME NEW pod \in Pods, NEW owner \in Owners PROVE Linked(pod, owner)'
    BY LinkedStep DEF References, Trail
  <2>2. ASSUME NEW svc \in Services, Selecting(svc), NEW pod \in Pods PROVE RefUp(pod, svc)'
    BY <1>1, <2>2, RefUpStep DEF References
  <2>3. ASSUME NEW svc \in Services, Listed(svc), NEW pod \in Pods PROVE RefDown(pod, svc)'
    <3>1. Referring(pod) /\ Addressed(pod)
      BY DEF Trail, Support, Keys
    <3>2. QED
      BY <2>3, <3>1, RefDownStep DEF References
  <2>4. QED
    BY <2>1, <2>2, <2>3 DEF References
<1>5. QED
  BY <1>2, <1>3, <1>4

LEMMA ServicesInvariant ==
  ASSUME NoReuse
  PROVE  Spec /\ [][Ordered]_vars =>
           []( /\ TypeOK /\ SubscriberLife /\ Lineage /\ Flow /\ Sync /\ Trail
               /\ Support /\ Delivery /\ References )
<1> DEFINE Base == TypeOK /\ SubscriberLife /\ Lineage /\ Flow /\ Sync /\ Trail
           Inv == Support /\ Delivery /\ References
<1>1. Spec => []Base
  BY TrailInvariant
<1>2. Init => Inv
  BY ServicesInit
<1>3. Base /\ Inv /\ [Next]_vars /\ [Ordered]_vars => Inv'
  <2>1. ASSUME Base, Inv, [Next]_vars, Ordered PROVE Inv'
    BY <2>1, ServicesStep
  <2>2. ASSUME Base, Inv, UNCHANGED vars PROVE Inv'
    <3>1. Ordered
      BY <2>2 DEF Ordered, Leaves, Exists, vars, clusterVars, sliceVars
    <3>2. QED
      BY <2>1, <2>2, <3>1
  <2>3. QED
    BY <2>1, <2>2
<1>4. QED
  BY <1>1, <1>2, <1>3, PTL DEF Spec

-----------------------------------------------------------------------------
(***************************************************************************)
(* What the invariants say of a client when everything is processed.       *)
(***************************************************************************)

\* A current slice lists pods that serve.
LEMMA ListedServes ==
  ASSUME SlicesCurrent, NEW svc \in Services, NEW pod, ListedIn(slices, svc, pod)
  PROVE  Exists(svc) /\ Exists(pod) /\ pod \in RelatedPods[svc]
<1>1. PICK e \in Slices : ServiceOf[e] = svc /\ pod \in PodsOf(slices[e])
  BY DEF ListedIn
<1>2. slices[e] # None /\ pod \in slices[e]
  BY <1>1 DEF PodsOf
<1>3. Exists(svc) /\ pod \in ServingPods(svc)
  BY <1>1, <1>2 DEF SlicesCurrent, SliceSound
<1>4. QED
  BY <1>3 DEF ServingPods, PlacedPods

LEMMA ServicesFound ==
  ASSUME TypeOK, SubscriberLife, Lineage, Flow, Sync, Support, Delivery,
         \A svc \in Services : Selecting(svc)
  PROVE  ServicesInSync
<1> SUFFICES ASSUME NEW sub \in Subs, Settled(sub), SlicesCurrent, "Service" \in KindsOf[sub]
             PROVE  View(sub, "Service") = {Current(key) : key \in Relevant(sub, "Service")}
  BY DEF ServicesInSync, InSync
<1>1. /\ Quiescent /\ Healthy(sub) /\ Serving(sub) /\ NoDispatchFault
      /\ NodeOf[sub] \in Nodes /\ NodeOf[sub] # None
  BY SubscribersAssumption, KeysAssumption DEF Settled
<1>2. ASSUME NEW svc \in Services
      PROVE  /\ svc \in Owners /\ svc \in Keys /\ Kind(svc) = "Service" /\ KindOf[svc] = "Service"
             /\ "Service" \in Kinds /\ RelatedPods[svc] \subseteq Pods
             /\ svc \notin dirty /\ triggers[svc] = 0 /\ ~Reads(svc)
             /\ disp["Service"] = DispIdle
  <2>1. /\ svc \in Owners /\ svc \in Keys /\ Kind(svc) = "Service" /\ KindOf[svc] = "Service"
        /\ "Service" \in Kinds /\ RelatedPods[svc] \subseteq Pods
    BY KeysAssumption, RelationsAssumption DEF Services, Keys, Kinds, Kind
  <2>2. QED
    BY <1>1, <2>1 DEF Quiescent, Reads, Reading, WorkIdle
<1>3. ASSUME NEW svc \in Relevant(sub, "Service")
      PROVE  Current(svc) \in View(sub, "Service")
  <2>1. svc \in Services /\ Exists(svc)
    BY DEF Relevant, Services
  <2>2. PICK pod \in RelatedPods[svc] : /\ Exists(pod) /\ store[pod].node = NodeOf[sub]
                                        /\ <<pod, store[pod].node>> \in PlacedPods(svc)
    BY DEF Relevant, PlacedPods
  <2>3. ListedIn(slices, svc, pod)
    <3>1. pod \in ServingPods(svc)
      BY <2>2 DEF ServingPods
    <3>2. QED
      BY <1>2, <2>1, <3>1 DEF SlicesCurrent
  <2>4. sub \in registry["Service"][NodeOf[sub]]
    <3>1. watch[sub].phase = "joined" /\ watch[sub].todo = {}
      BY <1>1 DEF Serving, Quiescent
    <3>2. ~Holds("Service", sub, TRUE)
      BY <1>2, <2>1 DEF Holds, DispIdle
    <3>3. QED
      BY <1>2, <2>1, <3>1, <3>2 DEF Sync, Welcome
  <2>5. Entitled(svc, pod, sub) /\ ~Asking(svc, pod, sub)
    BY <1>1, <1>2, <2>1, <2>2, <2>3, <2>4 DEF Entitled, Asking, DispIdle
  <2>6. Visiting(svc, pod, sub)
    BY <1>2, <2>1, <2>5 DEF Delivery, Reached
  <2>7. sub \in Subscribers(svc)
    BY <1>2, <2>1, <2>6 DEF Visiting
  <2>8. QED
    BY <1>1, <1>2, <2>1, <2>7, SavedIsCurrent
<1>4. ASSUME NEW item \in mirror[sub], Kind(item.uid[1]) = "Service"
      PROVE  <<item.uid, item.data.ver>> \in {Current(key) : key \in Relevant(sub, "Service")}
  <2>1. PICK svc \in Services : item.uid[1] = svc
    <3>1. item.uid[1] \in Keys
      BY DEF TypeOK, BrokerTypeOK, Item, Uid
    <3>2. QED
      BY <1>4, <3>1 DEF Keys, Kind, Services
  <2>2. sub \in Subscribers(svc)
    BY <1>1, <1>2, <2>1, AtRest DEF Knows
  <2>3. Exists(svc) /\ <<item.uid, item.data.ver>> = Current(svc)
    BY <1>1, <1>2, <2>1, <2>2, SavedIsCurrent
  <2>4. PICK pod \in RelatedPods[svc] : Stands(svc, pod, NodeOf[sub])
    BY <1>1, <1>2, <2>2 DEF Support, Upheld, Finds
  <2>5. Exists(pod) /\ store[pod].node = NodeOf[sub] /\ HasIP(pod)
    BY <2>4, ListedServes DEF Stands
  <2>6. <<pod, NodeOf[sub]>> \in PlacedPods(svc)
    <3>1. <<pod, store[pod].node>> \in PlacedPods(svc)
      BY <1>1, <2>5 DEF PlacedPods
    <3>2. QED
      BY <2>5, <3>1
  <2>7. svc \in Relevant(sub, "Service")
    BY <1>2, <2>3, <2>6 DEF Relevant
  <2>8. QED
    BY <2>3, <2>7
<1>5. View(sub, "Service") \subseteq {Current(key) : key \in Relevant(sub, "Service")}
  BY <1>4 DEF View
<1>6. QED
  BY <1>3, <1>5

LEMMA RefsSettled ==
  ASSUME TypeOK, SubscriberLife, Lineage, Flow, Sync, Trail, Support, References,
         \A svc \in Services : Selecting(svc) /\ Listed(svc),
         \A pod \in Pods : \A owner \in OwnerRefs[pod] :
           KindOf[owner] = "Deployment" => Leads(pod, owner)
  PROVE  RefsCurrent
<1> SUFFICES ASSUME NEW sub \in Subs, Settled(sub), SlicesCurrent, NEW item \in mirror[sub],
                    NEW pod \in Pods, item.uid[1] = pod, Exists(pod), HasIP(pod)
             PROVE  item.data.refs = PodRefs(pod)
  BY DEF RefsCurrent
<1>1. Quiescent /\ Healthy(sub) /\ pod \in Keys /\ Kind(pod) = "Pod" /\ "Pod" \in Kinds
  BY DEF Settled, Keys, Kind, Kinds
<1>2. item.data = Saved(pod) /\ Cached(pod)
  <2>1. Knows(sub, pod)
    BY DEF Knows
  <2>2. QED
    BY <1>1, <2>1, AtRest DEF Subscribers
<1>3. ~PodDue(pod) /\ \A e \in Slices : slicePods[e] = slices[e]
  BY <1>1 DEF Quiescent, PodDue, Reads, Reading, WorkIdle, EpsIdle, Support, Sliced
<1>4. \A svc \in Services : ListedIn(slicePods, svc, pod) <=> ListedIn(slices, svc, pod)
  BY <1>3 DEF ListedIn
<1>5. \A owner \in OwnerRefs[pod] : owner \in Owners /\ (KindOf[owner] = "Service" => owner \in Services)
  BY RelationsAssumption DEF Services
<1>6. ASSUME NEW owner \in Saved(pod).refs
      PROVE  owner \in PodRefs(pod)
  <2>1. owner \in OwnerRefs[pod]
    BY <1>1, <1>2 DEF Trail, Referring
  <2>2. KindOf[owner] = "Service" => Exists(owner)
    <3> SUFFICES ASSUME owner \in Services, ~Exists(owner) PROVE FALSE
      BY <1>5, <2>1
    <3>1. ListedIn(slices, owner, pod)
      BY <1>2, <1>3, <1>4 DEF References, RefDown
    <3>2. QED
      BY <3>1, ListedServes
  <2>3. KindOf[owner] = "Deployment" =>
          \E r \in OwnerRefs[pod] : KindOf[r] = "ReplicaSet" /\ Exists(r)
    BY <2>1 DEF Leads, Trail, Steady
  <2>4. QED
    BY <2>1, <2>2, <2>3 DEF PodRefs
<1>7. ASSUME NEW owner \in PodRefs(pod)
      PROVE  owner \in Saved(pod).refs
  <2>1. owner \in OwnerRefs[pod] /\ owner \in Owners
    BY <1>5 DEF PodRefs
  <2>2. CASE KindOf[owner] = "Service"
    <3>1. owner \in Services /\ Exists(owner) /\ pod \in RelatedPods[owner]
      BY <1>5, <2>1, <2>2 DEF PodRefs, Listed
    <3>2. store[pod].node # None
      BY DEF Support, Addressed
    <3>3. <<pod, store[pod].node>> \in PlacedPods(owner)
      BY <3>1, <3>2 DEF PlacedPods
    <3>4. pod \in ServingPods(owner)
      BY <3>3 DEF ServingPods
    <3>5. ListedIn(slicePods, owner, pod)
      BY <1>4, <2>1, <2>2, <3>1, <3>4 DEF SlicesCurrent
    <3>6. QED
      BY <1>2, <1>3, <3>1, <3>5 DEF References, RefUp
  <2>3. CASE KindOf[owner] # "Service"
    <3>1. Leads(pod, owner)
      BY <2>1 DEF Leads
    <3>2. QED
      BY <1>2, <2>1, <2>3, <3>1 DEF References, Linked
  <2>4. QED
    BY <2>2, <2>3
<1>8. QED
  BY <1>2, <1>6, <1>7

-----------------------------------------------------------------------------
\* As long as no name is used again, the services select the pods that find
\* them and the store of slices follows the other stores, a client has
\* exactly the services that serve a pod of its node, at their current
\* version, whenever everything is processed, the slices are current, its
\* stream is healthy and no dispatch failed: between the dispatchers, the
\* slices and the collector of services, which reads the pods and the
\* registry at different times, no order of steps loses a service or keeps
\* one that serves nothing.
THEOREM ServicesReachTheirClients ==
  ASSUME NoReuse, \A svc \in Services : Selecting(svc)
  PROVE  Spec /\ [][Ordered]_vars => []ServicesInSync
<1> DEFINE Inv == /\ TypeOK /\ SubscriberLife /\ Lineage /\ Flow /\ Sync /\ Trail
                  /\ Support /\ Delivery /\ References
<1>1. Spec /\ [][Ordered]_vars => []Inv
  BY ServicesInvariant
<1>2. Inv => ServicesInSync
  BY ServicesFound
<1>3. QED
  BY <1>1, <1>2, PTL

\* Under the same conditions, with the ReplicaSets between the pods and their
\* Deployments in place, a client has every pod that serves with its current
\* references: the dispatcher of slices triggers the pods that joined or left
\* a service, also when the service is gone before the pod was reconciled.
THEOREM ReferencesStayCurrent ==
  ASSUME NoReuse, \A svc \in Services : Selecting(svc) /\ Listed(svc),
         \A pod \in Pods : \A owner \in OwnerRefs[pod] :
           KindOf[owner] = "Deployment" => Leads(pod, owner)
  PROVE  Spec /\ [][Ordered]_vars => []RefsCurrent
<1> DEFINE Inv == /\ TypeOK /\ SubscriberLife /\ Lineage /\ Flow /\ Sync /\ Trail
                  /\ Support /\ Delivery /\ References
<1>1. Spec /\ [][Ordered]_vars => []Inv
  BY ServicesInvariant
<1>2. Inv => RefsCurrent
  BY RefsSettled
<1>3. QED
  BY <1>1, <1>2, PTL
=============================================================================
