# A TLA+ model of k8s-metacollector

`k8s-metacollector` watches a Kubernetes cluster and streams to each subscriber
(a Falco instance) the metadata of the resources that concern the node of the
subscriber: the pods on it, their namespaces, deployments, replica sets, daemon
sets and replication controllers, and the services that serve them. This
directory holds a model of the program, the TLC runs that check it on small
instances, and theorems about it with proofs that TLAPS checks. `PROJECT.json`
gives, for every definition, the source lines it models.

## 1. Inventory

| Part (code) | State | Operations |
|---|---|---|
| Informers and work queues (controller-runtime; `collectors/indexes.go`, `metrics.go`) | stores of objects, one queue of names per controller, generic events in the source channels | object added, changed, removed; filter; enqueue; deliver a generic event |
| Pod collector (`collectors/pod.go`) | cache entries, the reconcile in progress | `Reconcile`: get, read subscribers, find references, compare with the cache, push; `triggerOwners` |
| Metadata collectors (`collectors/partialObjectMetadata.go`) | cache entries, the reconcile in progress | `Reconcile`, `getSubscribers` |
| Service collector (`collectors/services.go`) | the same | `Reconcile`, `getSubscribers` (pods with an address only) |
| Dispatchers (`collectors/dispatch.go`), registries (`pkg/subscriber`) | subscribers per node, the message in hand | receive, add or delete the subscriber, list the pods of the node, request the related resources |
| Endpoint slice dispatcher (`collectors/endpointslices.go`) | pods per slice, service per slice | `Reconcile`, `getPods`, `triggerPods`, `triggerService` |
| Events and caches (`pkg/events`, `pkg/fields`) | subscribers, hash, UID and references of each resource sent | `GenerateSubscribers`, `ToEvents` |
| Queue (`broker/blockingChannel.go`) | a buffer of length 1 | `Push`, `Pop` |
| Broker (`broker/broker.go`) | the event in hand, the connection in hand | pop, look a connection up, send, close |
| gRPC server (`metadata/server.go`) | map of connections; per connection a `once` and an error channel of capacity 1 | `Watch`, `notifyCollectors`, `Close` |
| Idle timeout of watches (`pkg/transport/idle_timeout.go`) | timer, flag and state of a response body | round trip, read, reset, expire, close |
| Transformers (`collectors/transformers.go`) and the `objFieldsHandler`s | none | which fields of an object are stored, sent and hashed |
| Start and stop (`cmd/collector/run/run.go`, `Broker.Start`) | the context of the manager, the channel `stopping` | add the runnables, cancel, stop the server, wait |
| Metrics, command line, generated gRPC code | none that the others depend on | |

How they interact:

* A `Watch` handler stores its connection, then sends a message on the unbuffered
  channel of the dispatcher of each selected kind. When the stream ends, or the
  broker closes the connection, it removes the connection and sends to all of
  them again.
* A dispatcher changes the registry that its collector reads, and sends
  the names of resources to the source channel of its controller.
* A reconcile reads the stores and the registry, updates its cache, and pushes
  events on the one queue. The pod collector also triggers the collectors of the
  owners of a pod when it sends a Create or a Delete.
* The broker pops events and sends each to its subscribers, one by one, and
  reports a failing stream to its handler through the connection.

What is hard here: every arrow is asynchronous and each component looks at shared
state more than once in an operation. The stores are filled by independent
watches, in any order. The cache of a collector stands for what the clients know,
but is updated before the events are sent. Each of the bounded channels may make
its sender wait, and the one queue joins all the collectors.

What makes each part correct: the registry holds exactly the subscribers that
are connected (up to messages on their way); an event reaches a client in the
order Create, Update*, Delete for each resource; a client that stays connected
ends up with exactly the relevant resources; nobody waits for ever.
`PROJECT.json` lists the hazards line by line, with the properties aimed at each.

## 2. Modules

| Module | Code | Variables |
|---|---|---|
| `Resources` | `pkg/resource`, `pkg/fields`, `pkg/events` | none: keys, objects, events, `ToEvents` |
| `WorkQueue` | controller-runtime queues and sources (external) | `dirty`, `triggers` |
| `Cluster` | informers (external), predicates | `store`, `born`, `faults` |
| `EndpointSlices` | `collectors/endpointslices.go` | `slices`, `dirtySlices`, `slicePods`, `epsWork` |
| `Dispatcher` | `collectors/dispatch.go`, `pkg/subscriber` | `registry`, `disp` |
| `BlockingChannel` | `broker/blockingChannel.go` | `queue` |
| `Collectors` | `collectors/pod.go`, `partialObjectMetadata.go`, `services.go`, `pkg/events/cache.go` | `cache`, `work` |
| `WatchServer` | `metadata/server.go` | `watch`, `conns`, `ended`, `errors`, `closed` |
| `Broker` | `broker/broker.go` | `bro`, and `mirror`, what the clients hold |
| `Metacollector` | `cmd/collector/run/run.go` | composes all of them; the properties |
| `MetadataFeed` | what the clients are promised (abstract) | `world`, `feed`, `sending`, `lost` |
| `Shutdown` | the blocking operations of all of the above and their ways out; `Broker.Start`, `run.go` | `ctx`, `start`, `exited`, `gone`, what is under way |
| `Transformers` | `collectors/transformers.go`, the `objFieldsHandler`s | none: fields stored, dropped, sent |
| `WatchBody` | `pkg/transport/idle_timeout.go` | `rc`, `timer`, `fired`, `timedOut`, `reader`, `err`, `watcher` |
| `Informer` | one object from the API server to a collector, over `WatchBody` and `Transformers` | `api`, the stream, `store`, `dirty`, `known` |
| `MetacollectorProofs`, `LineageProofs`, `StreamProofs`, `SyncProofs`, `OwnerProofs`, `ServiceProofs` | | theorems about `Metacollector`; each extends the one it rests on |
| `ShutdownProofs`, `InformerProofs` | | theorems about `Shutdown` and `Informer` |

`MCPods`, `MCOwners`, `MCRetract`, `MCDeployment`, `MCServices`, `MCShutdown` and
`MCInformer` give the constants their values; each `.cfg` is one run. A few definitions with the
comment `Mutant` sit before the definition they replace: each one is a
plausible mistake in that code and breaks a property.

### Data

A resource is a key (its namespaced name). A name can be used again:
the UID is the pair of the key and the number of its incarnation. The content
of an object is a version number; of a pod, version 0 has no address yet. A
reference is the key of the owner it names. The relations between pods and
owners, which the code finds with indexes, owner references and selectors, are
the constants `OwnerRefs` (from the pod) and `RelatedPods` (from the owner).
Each element of `Subs` is one `Watch` call; a client that reconnects is a second
element.

### Steps, and what is atomic

* `Get` takes a name and reads its object. A failure of this first read only
  puts the name back: a stutter.
* `ReadPodSubscribers` reads the registry. The object in hand may be stale by
  then, and the subscribers by the next step. A pod without subscribers loses
  its cache entry.
* `RefreshPod` joins the reads of the namespace, of the ReplicaSet and of the
  services with the comparison with the cache. The cache belongs to the one
  worker of its kind (`MaxConcurrentReconciles` is left at 1), so that only the reads could be
  interleaved with others' steps. Here they see one state of the stores; in the program each
  store is read once, a moment apart, so that the references may be a mix of two states. The
  model has such a mix when the independent watches deliver the two changes in the other order;
  what is lost is that another worker looks at the stores between the two changes.
* `ListRelatedPods` takes the list, `CollectNode` reads the registry for one pod
  of it; in between pods move and subscribers come.
* `PushEvent` pushes one event and blocks while the queue is full. The cache
  was updated before. The goroutines `triggerOwners` starts before an event are
  started in the step before the push of that event; each one is a
  count in `triggers` that reaches the queue at any later time.
* A dispatcher receives, changes the registry, lists and requests in separate
  steps. `Request` waits while `SourceLen` events for the name wait in the
  source. The program has a channel of length 1 per source, for all names; here the
  bound is per name and joins the sources of a controller, whose events are the same to it.
  The services of one pod are requested in one step, the program sends them one by one.
  Neither matters to who waits: `Deliver` can always empty a source.
* The broker looks a connection up (`LoadConnection`) and sends (`Send`,
  `SendFails`) in separate steps, so that a handler may leave or return in
  between. `Send` fails when the stream is over, or by a fault.
* `Leave` removes the connection; the collectors are told afterwards, one by one.
* The service of an endpoint slice is in a map keyed by the name of the slice without its
  namespace. A slice of `SharedNames` has a name that another namespace uses as
  well: when it is gone (and only then, as a reconcile of an existing slice
  writes the entry first) its service or another one may be triggered.

### The abstract feed

`MetadataFeed` says what a client is promised, without collectors, caches and
queues: until its call is `lost`, a Create is about a resource of a selected kind that it does
not know, an Update about one that it knows and to a version no older, a Delete
about one that it knows; nothing is newer than its object, and a pod is on the
node of the client. `Metacollector` implements it (`ImplementsFeed`) with the
stores as the world, what the clients received as the feed, the connection and
the event in the hand of the broker as the message on its way, and as lost the calls that
are not `Healthy`: whose connection is gone or was closed, or whose stream ended.
As `reuse_stream` shows, the promise is broken when a name is used twice.

### Shutdown

`Metacollector` with contexts would be out of TLC's reach. `Shutdown` keeps only
what goroutines wait for: requests that a dispatcher has to send, events that a worker
has to push, triggers of the slices, the event in the broker's hand, the messages of
the handlers; counts instead of contents. Whether a node has pods or a reconcile
has events is a choice. The source that a dispatcher fills and the one that
triggers fill are one channel of a controller here. `gone` are the goroutines
that returned; the manager waits for `Runnables` and for `Broker.Start`, not for
the loop that pops (`Popper`) nor for the goroutines of `triggerOwners`. A `Push`
that gives up loses its event while the reconcile goes on: in the short time
before its stream is closed a client may miss an event that the cache has.

### The way of an object

`Informer` follows one object. Its fields are written; an event or, after
`Interval` quiet ticks, a bookmark goes on the wire; the reader hands events to the
informer, which stores the transformed object and tells the controller, unless it
takes the update for a resync (the same `resourceVersion`, after the first resync
check). Streams end, or stall for a while or for ever. Time passes
(`Tick`) only when nothing of what is due is left: a goroutine is fast
compared with the timeout, which is minutes. An object is a function from
field names to numbers, the version of the last write of the field; a dropped field is 0.

## 3. Runs

Passing runs:

| Run | Instance | Checks | Distinct states |
|---|---|---|---|
| `pods` | 1 node, 1 pod, 2 subscribers that may leave, 2 faults of reads in a reconcile or of sends; the subscribers are symmetric | `TypeOK`, `RegisteredHasConnection`, `CloseNeverBlocks`, `PodsInSync`, `DroppedIsDeleted`, `ImplementsFeed` | 2 420 000 |
| `live` | the same, no faults and no updates, fair | `CatchesUp`, `WatchReturns` | 170 000 |
| `owners` | 1 pod, its namespace, created in any order, 1 fault | `PodsInSync`, `OwnersInformed`, `RefsResolve`, `ImplementsFeed` | 170 000 |
| `retract` | 2 nodes, 2 pods of a namespace, which are symmetric | `AllInSync` | 1 630 000 |
| `deployment` | 1 pod, its ReplicaSet, its Deployment, 1 fault in a dispatcher | `StreamProtocol`, `OwnersInformed`, `RefsResolve` | 370 000 |
| `services` | 1 pod, a service, its slice, whose name another namespace uses too | `StreamProtocol`, `PodsInSync`, `ServicesInSync`, `RefsCurrent` | 1 330 000 |
| `shutdown` | pods, one collector for the related kinds, the slices, 1 call; queues of length 1 | `TypeOK`, `HandlersReturned`, `Terminates` | 310 000 |
| `informer` | an object of each type, 2 writes, 2 stalls, timeout 2, bookmarks after 1 tick | `TypeOK`, `UpdatesAreNews`, `HealthyStreamKept`, `TimeoutReported`, `Converges` | 650 000 |

What they show:

* `RegisteredHasConnection`: no collector keeps a subscriber whose call ended.
* `CloseNeverBlocks`: the broker never waits in `Close`, even if the handler is gone.
* `StreamProtocol`: on a stream that lost no message, a Create is for a
  resource the client does not have, an Update or Delete for one it has.
* `PodsInSync`, `AllInSync`, `ServicesInSync`: when everything is processed, a
  healthy client has exactly the relevant pods (all selected kinds, services) in
  their current version. `OwnersInformed` is the half of `AllInSync` that holds
  without restriction on when pods leave: nothing is missing.
* `RefsResolve`, `RefsCurrent`: the references of the pods at a client lead to
  owners it has, and are the current ones.
* `DroppedIsDeleted`: a cache entry is given up only with a Delete for every
  subscriber still registered.
* `CatchesUp`, `WatchReturns`: the components do not wait for each other for
  ever, and the handler of each ended stream returns. The run has no owners: a pod whose
  namespace never appears is retried for ever, and the collector does not come to rest.
* `ImplementsFeed`: the collector implements the abstract feed (section 2).
* `Terminates`: after a cancellation, or a failure of the gRPC server, the process exits
  without the timeout of the manager, wherever its goroutines were, even if a client never
  reads the message that the broker is sending. `HandlersReturned`: no call is
  left behind by an exit without an error.
* `Converges`: no change that a collector needs is lost for ever, when streams stall or
  are closed by the timeout, and after the resync check. `HealthyStreamKept`,
  `TimeoutReported`: the timeout hits only streams that stalled, and the error says so.
  `UpdatesAreNews`: what is stored for the informer's sake does not reach the clients.

Two runs restrict the environment, because without it the program does not have
the property, as the runs `owner_stale` and `slices_ahead` show. The restrictions are
formulas of `Metacollector`, which the theorems of section 4 use too. `retract` has the action
constraint `Calm`: a pod leaves only after it was `Noticed`, that is, the cache says
who has it, and no collector is about to look for subscribers on its behalf. `services` has
`Ordered`: the store of slices follows the stores of pods and services. A slice changes only
to pods that serve, a pod that serves leaves only after a slice has listed it, and a
service only after the dispatcher of the slices has seen its pods. To stay within a few minutes
the run has `Paced`, which adds to `Ordered` that a slice is written once it is complete and
that things leave when the collector has come to rest; the theorems do without that.

Runs that find a disagreement between the code and what its README or comments
say (`findings` in `PROJECT.json` quotes them):

| Run | What happens |
|---|---|
| `reuse_stream` | A pod is replaced by one of the same name while the worker is busy. The cache entry of the old one turns the new one into an Update for a UID that was never created, and keeps the old UID. |
| `owner_stale` | The namespace collector sees a pod, the pod collector does not before it is gone: the namespace is sent and never retracted. |
| `late_replicaset` | The ReplicaSet is stored after the pod: the Deployment appears in the references of an Update, which triggers no owner. |
| `slices_ahead` | The slice is processed before the address of its pod is stored: the service is never sent. |

Two limits follow from the model in the same way and have no run of their own. If a pod is replaced by one of
the same name that has no node yet, its entry is dropped without a Delete
(`pod.go:130-137`): `DroppedIsDeleted` holds only while `MaxInc` is 1. A subscriber
that selects an owner kind without selecting pods is not told when the first pod of an owner
arrives on its node, because only events of pods trigger owners (`pod.go:215-229`):
`OwnersInformed` is about subscribers that select pods.

### Bounds, and why they are enough

* One node with subscribers: the registries of nodes are independent. `retract`
  has a second node without subscribers, so that pods of a namespace differ.
* Two subscribers: one may come while the other leaves or fails, and an event
  has a subscriber after the one that failed. One is enough where departures are
  not the question.
* `MaxInc` is 1, except in the runs about reuse of a name, where it is 2;
  `MaxVer` is 1 where updates matter.
* `QueueLen` is 1 as in `run.go`. `SourceLen` is 1: one waiting event per name,
  as much as the buffers of the sources; more would be the same request.
* `MaxFaults` is 2 in `pods` (both connections may fail, or one while a name is
  retried) and 1 elsewhere: a fault in a reconcile only puts the name back.
* In `shutdown`, one collector stands for the owners and services: they differ only in
  who triggers them, and it has both. Each counter is at most 1: a goroutine with
  one more item to send waits at the same places. One call may come before or
  after the cancellation, wait for any collector, and be what the broker sends to.
* In `informer`, two versions are an object and its change; the second stall may hit
  the stream that replaced the first one. Timeout 2 and interval 1 are the
  smallest with a bookmark in between, and `HealthyKept` (section 4) holds for all.
* `CHECK_DEADLOCK FALSE` (not in `informer`): the cluster is bounded, and when it and the clients
  stop the program rests. `CatchesUp` is the property that excludes that
  the program stops with work left.

### Fairness

`Fairness` has weak fairness for each goroutine of the program (dispatchers,
workers, handlers, the broker, the endpoint slice dispatcher) and for the
delivery of each waiting generic event: the Go scheduler and the runtime of the
controllers guarantee that what can run does. There is none for the cluster,
for new `Watch` calls or for the end of streams. It includes that `Send` returns,
which gRPC guarantees only while the client reads or its stream ends: a client that
neither reads nor goes away holds up the broker, and with it everybody.

`Shutdown` does without that: nothing is fair that depends on a client or on a reader that
may be gone (`Send`, `Pop`, `Push`, `ReadSource`, `NotifyCollector`); only the branches on the
context and on `stopping`, and the steps of `Broker.Start` and of the manager, are. A worker
between two names may take another one before it sees that its queue is shut
down, so that its end needs strong fairness; a queue that is shut down hands out what
it holds and no more.

`Informer` assumes that time passes, that the server sends its bookmarks while
the response is open, and that the goroutines of client-go and of the body run. A stall need not
end, a response need not either. The order of the timings (`Interval < Timeout`) is an
assumption on the flag, as its help text has it. By default the timeout is 0 and disabled:
then a stream that stalls for ever loses every later change, and `Converges` does not hold.

## 4. Proofs

`MetacollectorProofs` proves for every value of the constants that satisfies
the named assumptions (any nodes, pods, owners, relations, subscribers, bounds; the
assumptions type the constants, and `NoneAssumption` says that `None`, which stands for
nil, is no object, cache entry or message):

* `TypeCorrect`: `Spec => []TypeOK`. It is inductive as it stands, since the type
  of `work` ties what the worker holds to where it is in a reconcile: one that
  pushes has an event and no object, one that reads has an object of its kind.
  `ToEventsType`, `EventLoopType`, `RefreshType` and `ForgetType` are about the
  operators of a reconcile; then there is one lemma per component.
* `NoSubscriberLeftBehind`: `Spec => []RegisteredHasConnection`. The property alone is not
  inductive: it does not say that a message to join which a dispatcher has in hand
  was sent by a call that goes on, or that this dispatcher is told again later.
  `SubscriberLife` adds, for each pair of kind and subscriber, where the messages
  stand: who is registered was told to join (`Told`) or has its departure in
  the dispatcher's hand (`Holds`); a message to join in hand means that the call has not told
  this collector of its departure, which the unbuffered channel and the single
  goroutine of the dispatcher ensure; the connection is stored exactly while the call is joined.
* `BrokerNeverBlocksInClose`: `Spec => []CloseNeverBlocks`, from `ErrorsAreClosed`: an
  error waits in a channel only if the `once` of its connection is used.

### The way of an event

The modules that follow are about `Metacollector` too, for every value of the
constants with `NoReuse`: no object is created under the name of a deleted one
(`MaxInc` is at most 1). That is a limit of the program, not of the proofs: `reuse_stream`
shows how the promise breaks when a name is used twice. Names of pods of a controller are
generated and not used again; those of a StatefulSet are. Nothing is assumed of
the number of objects, versions, nodes, subscribers and faults, or of the order of any
steps. Each part of the invariants was checked with TLC on the instances of the
runs before it was proved.

`LineageProofs`: the invariant `Lineage` says where everything comes from. An
object that a worker holds is an older state of the stored one (`Older`); the subscribers of a
cache entry, of an event in the hands of a worker, of the queue or of the broker,
and the clients that have the resource, selected the kind, began their call and,
for a pod, are on its node (`Fits`); those of the cache are registered or left;
the events of one reconcile have disjoint subscribers (`Batch`). `RefreshSettles` and
`ForgetSettles` say what a reconcile does to the entry and the events, in the form
all later proofs use; `ReconcileCases` and `BrokerCases` split the steps.

* `DropsAreAnnounced`: `Spec => DroppedIsDeleted`.

`StreamProofs`: the invariant `Flow` follows a resource from the client back
to the cache. For each resource and healthy subscriber there is a set of places in the queue
(`known`) after which the client will know the resource; each event on its way agrees with the
place before it and after it (`Near`, `Line`), and the place at the end of the queue differs from
the cache by what the worker has to push (`Far`). Saying that such a set exists avoids an
induction over the queue: a push extends the
set, a pop shifts it (`LineLonger`, `LineShorter`).

* `StreamsMakeSense`: `Spec => []StreamProtocol`.

The second part of the module is the refinement. The invariant `Versions` adds that versions go up on their way: what
a client, the broker, the queue and a worker have of a resource is no newer than what follows.

* `CollectorImplementsFeed`: `Spec => ImplementsFeed`. The initial states map to initial
  states of `MetadataFeed` (`FeedStart`); a step of the cluster maps to a step of its world,
  the end of a stream and what a handler or `Close` does to a connection to a loss,
  the broker's lookup and send to the steps of a message, and the
  rest to stutters (`FeedStep`). A send is where `Lineage`, `Flow` and `Versions` are needed.

`SyncProofs`: what is missing at a client is on its way. The invariant `Sync` names who sees to it:

* `Welcome`: a collector that was told of a subscriber has registered it, or its
  dispatcher has it in hand;
* `Cleared`, `Tracked`: a resource that is gone, or newer than what is cached, is to be reconciled;
* `Awaited`: a pod on the node of a registered subscriber is to be reconciled, or is
  requested by the dispatcher, or the worker will find or has found the subscriber;
* `Echo`: the last event on its way to a healthy subscriber carries what the
  cache has saved, and if there is none the client has that.

When everything is processed only the last case of each remains (`AtRest`, `SavedIsCurrent`, `PodsFound`).

* `PodsReachTheirClients`: `Spec => []PodsInSync`.

`OwnerProofs`: the invariant `Trail` says the same of the owners. The references that
are sent are those of pods to their owners (`Referring`), and for a pod that a
subscriber has, its owner is to be reconciled, or requested by a trigger or the
dispatcher, or the owner's worker will find the subscriber (`Followed`). The
subscriber of the pod is what `triggerOwners` acts on: it is called with
the first Create, so that the owner is triggered after its pod is stored and its subscriber registered.
Two hypotheses on the relations say for which owners the program ensures this:

* `Findable`: pods trigger the collector of the owner (so it is no Service, which is found
  through its slices: run `slices_ahead`), and the pods it lists refer to it. A Deployment is referred to
  only while a ReplicaSet of the pod is stored, so one must be there from the start
  and stay: run `late_replicaset` shows what happens otherwise.
* `Listed`: the owner's collector lists the pods that refer to it.

The instances of the runs `owners` and `deployment` satisfy both. With them

* `OwnersReachTheirClients`: `Spec => []OwnersInformed`, if the owners of selected kinds are `Findable`.
* `ReferencesLeadSomewhere`: `Spec => []RefsResolve`, if the owners whose kinds pods trigger
  are `Findable` and `Listed`.

* `OwnersLeaveWithTheirPods`: `Spec /\ [][Calm]_vars => []AllInSync`, if the owners of selected
  kinds are `Findable`. `Trail` says that nothing is missing; the other half, that nothing
  is left over, needs the invariant `Retreat`. An owner that a client has is to be reconciled, or has a
  pod that is on the node or is still in the cache with the client as a subscriber
  (`Warranted`, `Backed`): when this pod is gone, the Delete of the pod goes to a subscriber and so triggers the
  owner. For this the entry of a pod must not lose a healthy subscriber (`Retained`),
  and must refer to the owner (`Linked`), since `triggerOwners` takes the references of the entry; and
  what a worker has still to visit must be where it was when the pods were listed
  (`Placed`). The two
  halves of `Noticed` keep `Backed` and `Placed` when a pod leaves: without them a namespace is sent for a pod
  that the pod collector never had, and nothing retracts it (run `owner_stale`).

`ServiceProofs`: services differ, because no event of a pod triggers them; the dispatcher of slices
does. Three invariants:

* `Support`: the map `Pods` of the dispatcher is what the slice holds or the slice is to be reconciled
  (`Sliced`); a service that a client has serves a pod of its node, or is to be reconciled, or a
  slice that lists the pod has yet to change (`Upheld`, and `Standing` for the pods the
  worker has still to visit).
* `Delivery`: a service with a listed pod on the node of a registered subscriber is to be
  reconciled or requested, or its worker will find or has found the subscriber (`Reached`).
* `References`: the saved references of a pod have the services whose slices the dispatcher saw, and no service that is
  gone, unless the pod is to be reconciled or a slice has yet to be seen (`RefUp`, `RefDown`).

The hypotheses are on the relation between selectors and references: the pods that a service selects
refer to it (`Selecting`), and for `RefsCurrent` the converse (`Listed`), together with a
ReplicaSet in place for the references to Deployments (`Leads`). In the code both directions are
the same selector. `ServicesInSync` and `RefsCurrent` speak of states in which
the slices are current.

* `ServicesReachTheirClients`: `Spec /\ [][Ordered]_vars => []ServicesInSync`.
* `ReferencesStayCurrent`: `Spec /\ [][Ordered]_vars => []RefsCurrent`.

Before they were proved, TLC checked `Retreat` in full on the instance of `retract`, and the
three invariants of the services on the instance of `services` under `Ordered` without
the pace of the run (42 million states).

### Stop and informer

`ShutdownProofs`, for any number of kinds, calls and lengths of the channels:

* `Typing`: `Spec => []TypeOK`, in three parts: the work under way, the calls, and what stopped.
* `NoCallLeft`: `Spec => []HandlersReturned`, from `CallsOver`: once `Broker.Start` has
  returned no call is in progress, since a stopped server takes none and a handler that
  returned does not notify again; the process exits only after that or after a failure.

`InformerProofs`, for any timeout, interval below it, number of writes and stalls:

* `Typing`: `Spec => []TypeOK`.
* `TimerReports`: `Spec => TimeoutReported`, from `Marked`: the function of the timer is
  about to close the body, or the body is closed and not by the reflector, only with the flag set.
* `HealthyKept`: `Spec => HealthyStreamKept`. The property speaks of one step; what carries it is
  `Followed`: since the last stall the timer has run at most for the interval of the
  bookmarks, and while the reader waits on an empty open stream, at most since the
  server sent something.
* `OnlyNews`: `Spec => UpdatesAreNews`, from `Transformed`: what is stored and what was reconciled
  has lost the fields its transformer drops, and the fields of a message are those
  or visible ones (`SentIsVisible`).

### Only model-checked

* Liveness (`CatchesUp`, `WatchReturns`, `Terminates`, `Converges`): out of the prover's reach.
  All other properties of the passing runs are stated by theorems: `AllInSync`, `ServicesInSync` and
  `RefsCurrent` for the environments `Calm` and `Ordered`, as in the runs, the rest for
  every environment.
* The condition on the ReplicaSets (`Leads`) and `NoReuse` are conditions of the theorems and
  not of the program. `late_replicaset` and `reuse_stream` show that the properties fail without
  them; whether weaker conditions are enough is open.

## 5. Not modelled

* What a client sees during a shutdown: `Shutdown` has no contents, and the
  timeout of the manager is not in it because `Terminates` shows it is not needed.
* The deletion of the object in `Informer`: a relist may compress a deletion and a
  creation, as the reuse of a name does in `Metacollector`.
* A client that does not read while the program goes on, and flow control.
* The failure of a list in a dispatcher leaves the subscriber without initial
  metadata. The model has it (run `deployment`); the properties about what a
  client ends up with exclude it (`NoDispatchFault`).
* Slices made by hand: a slice is one that its controller made for a service, so that the service found by the
  generated name (`endpointslices.go:82`) and the one that owns the slice are `ServiceOf`.
* An update of a pod without a node (`UpdateObject`): its event does not pass the filter. The
  store of an informer and the event to the controller change in one step (`Observe`): a
  reconcile reads the store, not the event.
* References by UID: the model keeps names, so a reference to an owner that was
  replaced is not told apart from one to the new owner.
* The index of pods by the generated name may differ from the owner references:
  `RelatedPods` is a constant instead.
* Departed subscribers may stay in the cache entry of an owner until its next
  reconcile. They are not told apart from present ones by the code either; UIDs of
  subscribers are never used twice.
* Metrics (counters, and the map of send times that only they read), flags, TLS, generated code.

## 6. Plan

Done: `Resources`, `Cluster`, `Dispatcher`, `Collectors`, `BlockingChannel`, `WatchServer`,
`Broker`, `EndpointSlices` and their composition; `Shutdown`; `Transformers`,
`WatchBody` and `Informer`; the abstract `MetadataFeed`; the proofs of section 4.

Next:

1. The index of pods by generated name, where owners of different kinds share a prefix.
2. The queue's map of send times.
3. Proofs for names that are used again, after the reconcile of the deletion: `NoReuse` could be
   weakened to an environment like `Calm`.
