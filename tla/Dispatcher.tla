------------------------------ MODULE Dispatcher ------------------------------
(***************************************************************************)
(* The dispatch goroutine of each collector (collectors/dispatch.go) and   *)
(* the registry of subscribers per node it maintains                       *)
(* (pkg/subscriber/types.go).  A goroutine receives the message of a       *)
(* subscriber, updates the registry of its collector, lists the pods of    *)
(* the subscriber's node and enqueues the resources related to each pod.   *)
(***************************************************************************)
EXTENDS Cluster

\* registry[kind][node] is the set of subscribers; a node without
\* subscribers has no entry in the code's map, and the empty set here.
VARIABLES registry, disp

dispVars == <<registry, disp>>

DispIdle == [pc |-> "idle", sub |-> None, join |-> FALSE, todo |-> {}]

DispBusy == [pc : {"registry", "list", "send"},
             sub : Subs, join : BOOLEAN, todo : SUBSET Pods]

DispatcherTypeOK ==
  /\ registry \in [Kinds -> [Nodes -> SUBSET Subs]]
  /\ disp \in [Kinds -> DispBusy \cup {DispIdle}]

DispatcherInit ==
  /\ registry = [k \in Kinds |-> [n \in Nodes |-> {}]]
  /\ disp = [k \in Kinds |-> DispIdle]

\* GetSubscribersPerNode; pods without a node have no subscribers.
SubscribersPerNode(kind, node) == IF node = None THEN {} ELSE registry[kind][node]

\* The resources of the kind that a pod found on the node stands for.
DispatchTargets(kind, pod) ==
  IF kind = "Pod" THEN {pod}
  ELSE {o \in OwnerRefs[pod] :
          /\ KindOf[o] = kind
          /\ kind = "Service" => Exists(o)
          /\ kind = "Deployment" =>
               \E r \in OwnerRefs[pod] : KindOf[r] = "ReplicaSet" /\ Exists(r)}

\* The goroutine takes the message of sub from the unbuffered channel.
Receive(kind, sub, join) ==
  /\ disp[kind].pc = "idle"
  /\ disp' = [disp EXCEPT ![kind] =
                [pc |-> "registry", sub |-> sub, join |-> join, todo |-> {}]]
  /\ UNCHANGED registry

\* Mutant: the reason of the message is not looked at.
UpdateRegistryAddsOnly(kind) ==
  LET d == disp[kind] IN
  /\ d.pc = "registry"
  /\ registry' = [registry EXCEPT ![kind][NodeOf[d.sub]] = @ \cup {d.sub}]
  /\ disp' = [disp EXCEPT ![kind].pc = "list"]
  /\ UNCHANGED <<clusterVars, queueVars>>

\* AddSubscriberPerNode or DeleteSubscriberPerNode.
UpdateRegistry(kind) ==
  LET d == disp[kind] IN
  /\ d.pc = "registry"
  /\ registry' = [registry EXCEPT ![kind][NodeOf[d.sub]] =
                    IF d.join THEN @ \cup {d.sub} ELSE @ \ {d.sub}]
  /\ disp' = [disp EXCEPT ![kind].pc = "list"]
  /\ UNCHANGED <<clusterVars, queueVars>>

\* The goroutine goes on with the pods left, or waits for the next message.
Dispatching(kind, pods) ==
  disp' = [disp EXCEPT ![kind] =
             IF pods = {} THEN DispIdle ELSE [@ EXCEPT !.pc = "send", !.todo = pods]]

PodsOnNode(node) == {p \in Pods : Exists(p) /\ store[p].node = node}

ListPods(kind) ==
  /\ disp[kind].pc = "list"
  /\ Dispatching(kind, PodsOnNode(NodeOf[disp[kind].sub]))
  /\ UNCHANGED <<clusterVars, queueVars, registry>>

\* The list fails: the error is logged and nothing is dispatched.
ListPodsFails(kind) ==
  /\ disp[kind].pc = "list"
  /\ Fault("dispatch")
  /\ Dispatching(kind, {})
  /\ UNCHANGED <<store, born, queueVars, registry>>

\* The requests for one pod of the list.
DispatchPod(kind, pod) ==
  /\ disp[kind].pc = "send"
  /\ pod \in disp[kind].todo
  /\ Request(DispatchTargets(kind, pod))
  /\ Dispatching(kind, disp[kind].todo \ {pod})
  /\ UNCHANGED <<clusterVars, dirty, registry>>

\* Reading the ReplicaSet of the pod, or the services of its namespace, fails:
\* the goroutine goes on with the next pod.
DispatchPodFails(kind, pod) ==
  /\ kind \in {"Deployment", "Service"}
  /\ disp[kind].pc = "send"
  /\ pod \in disp[kind].todo
  /\ Fault("dispatch")
  /\ Dispatching(kind, disp[kind].todo \ {pod})
  /\ UNCHANGED <<store, born, queueVars, registry>>

DispatcherStep(kind) ==
  \/ UpdateRegistry(kind)
  \/ ListPods(kind)
  \/ ListPodsFails(kind)
  \/ \E pod \in Pods : DispatchPod(kind, pod) \/ DispatchPodFails(kind, pod)
=============================================================================
