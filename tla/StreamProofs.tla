---------------------------- MODULE StreamProofs ----------------------------
(***************************************************************************)
(* The streams make sense to their clients: the proof that on a healthy    *)
(* stream a Create is about a resource that the client does not know, and  *)
(* an Update or a Delete about one that it does.  The invariant follows a  *)
(* resource from the client back to the cache of its collector: to the     *)
(* event in the hands of the broker, along the queue, and to the events    *)
(* the worker has still to push.  With the versions of the events, this    *)
(* gives the refinement of MetadataFeed.                                   *)
(***************************************************************************)
EXTENDS LineageProofs

\* The event is about key and meant for sub.
Mine(evt, key, sub) == evt.uid[1] = key /\ sub \in evt.subs

\* The client of sub knows the resource.
Knows(sub, key) == \E item \in mirror[sub] : item.uid[1] = key

\* The broker has an event about key that sub has not got yet.
Waiting(key, sub) == (bro.con = sub \/ sub \in bro.todo) /\ bro.evt.uid[1] = key

\* The worker has such an event.
Pending(key, sub) ==
  \E i \in DOMAIN work[Kind(key)].evts : Mine(work[Kind(key)].evts[i], key, sub)

(***************************************************************************)
(* known are the places of the queue after which the client will know the  *)
(* resource: i stands for what it knows after the i-th event, 0 after the  *)
(* event in the hands of the broker.                                       *)
(***************************************************************************)

\* What the client knows, and what it will know after the broker's event.
Near(key, sub, known) ==
  /\ Waiting(key, sub) => /\ bro.evt.type = "Create" <=> ~Knows(sub, key)
                          /\ 0 \in known <=> bro.evt.type # "Delete"
  /\ ~Waiting(key, sub) => (0 \in known <=> Knows(sub, key))

\* The events of the queue, one after the other.
Line(q, key, sub, known) ==
  \A i \in 1..Len(q) :
    /\ Mine(q[i], key, sub) => /\ q[i].type = "Create" <=> i - 1 \notin known
                               /\ i \in known <=> q[i].type # "Delete"
    /\ ~Mine(q[i], key, sub) => (i \in known <=> i - 1 \in known)

\* What the client will know after the n events of the queue, and what the
\* cache says of it: they differ by the event the worker has to push.
Far(key, sub, n, known) ==
  /\ \A i \in DOMAIN work[Kind(key)].evts :
       LET evt == work[Kind(key)].evts[i] IN
       Mine(evt, key, sub) => /\ evt.type = "Create" <=> n \notin known
                              /\ evt.type # "Delete" <=> sub \in Subscribers(key)
  /\ ~Pending(key, sub) => (n \in known <=> sub \in Subscribers(key))

FlowOf(key, sub, known) ==
  /\ Near(key, sub, known)
  /\ Line(queue, key, sub, known)
  /\ Far(key, sub, Len(queue), known)

Flows(key, sub) == \E known \in SUBSET (0..Len(queue)) : FlowOf(key, sub, known)

\* From the cache of its collector to the client, everything a healthy
\* subscriber is to get about a resource makes sense in turn.
Flow == \A key \in Keys, sub \in Subs : Healthy(sub) => Flows(key, sub)

-----------------------------------------------------------------------------
(***************************************************************************)
(* The queue.                                                              *)
(***************************************************************************)

\* A place is added behind the last one, known or not.
LEMMA Extended ==
  ASSUME NEW n \in Nat, NEW known \in SUBSET (0..n), NEW P
  PROVE  \E known2 \in SUBSET (0..(n + 1)) :
           /\ \A i \in 0..n : i \in known2 <=> i \in known
           /\ n + 1 \in known2 <=> P
<1>1. \A i \in known : i \in 0..n
  OBVIOUS
<1>2. CASE P
  <2>1. known \cup {n + 1} \in SUBSET (0..(n + 1))
    BY <1>1
  <2>2. /\ \A i \in 0..n : i \in known \cup {n + 1} <=> i \in known
        /\ n + 1 \in known \cup {n + 1}
    OBVIOUS
  <2>3. QED
    BY <1>2, <2>1, <2>2
<1>3. CASE ~P
  <2>1. known \in SUBSET (0..(n + 1)) /\ n + 1 \notin known
    BY <1>1
  <2>2. QED
    BY <1>3, <2>1
<1>4. QED
  BY <1>2, <1>3

\* The events q2 are those of q and evt, which follows from what the client
\* will know.
LEMMA LineLonger ==
  ASSUME NEW q, NEW q2, NEW evt, NEW key, NEW sub, NEW n \in Nat, n = Len(q), n + 1 = Len(q2),
         \A i \in 1..n : q2[i] = q[i], q2[n + 1] = evt,
         NEW known \in SUBSET (0..n), Line(q, key, sub, known),
         Mine(evt, key, sub) => (evt.type = "Create" <=> n \notin known)
  PROVE  \E known2 \in SUBSET (0..(n + 1)) :
           /\ Line(q2, key, sub, known2)
           /\ 0 \in known2 <=> 0 \in known
           /\ Mine(evt, key, sub) => (n + 1 \in known2 <=> evt.type # "Delete")
           /\ ~Mine(evt, key, sub) => (n + 1 \in known2 <=> n \in known)
<1>1. PICK known2 \in SUBSET (0..(n + 1)) :
        /\ \A i \in 0..n : i \in known2 <=> i \in known
        /\ n + 1 \in known2 <=> \/ Mine(evt, key, sub) /\ evt.type # "Delete"
                                \/ ~Mine(evt, key, sub) /\ n \in known
  BY Extended
<1>2. Line(q2, key, sub, known2)
  <2> SUFFICES ASSUME NEW i \in 1..(n + 1)
               PROVE  /\ Mine(q2[i], key, sub) =>
                           /\ q2[i].type = "Create" <=> i - 1 \notin known2
                           /\ i \in known2 <=> q2[i].type # "Delete"
                      /\ ~Mine(q2[i], key, sub) => (i \in known2 <=> i - 1 \in known2)
    BY DEF Line
  <2>1. CASE i \in 1..n
    <3>1. q2[i] = q[i] /\ i \in 0..n /\ i - 1 \in 0..n
      BY <2>1
    <3>2. QED
      BY <1>1, <2>1, <3>1 DEF Line
  <2>2. CASE i = n + 1
    <3>1. q2[i] = evt /\ i - 1 = n /\ n \in 0..n
      BY <2>2
    <3>2. QED
      BY <1>1, <2>2, <3>1
  <2>3. QED
    BY <2>1, <2>2
<1>3. 0 \in 0..n
  OBVIOUS
<1>4. QED
  BY <1>1, <1>2, <1>3

\* The events q2 are those of q without the first one.
LEMMA LineShorter ==
  ASSUME NEW q, NEW q2, NEW key, NEW sub, NEW m \in Nat, m = Len(q2), m + 1 = Len(q),
         \A i \in 1..m : q2[i] = q[i + 1],
         NEW known \in SUBSET (0..(m + 1)), Line(q, key, sub, known)
  PROVE  /\ \E known2 \in SUBSET (0..m) :
              /\ Line(q2, key, sub, known2)
              /\ 0 \in known2 <=> 1 \in known
              /\ m \in known2 <=> m + 1 \in known
         /\ Mine(q[1], key, sub) => /\ q[1].type = "Create" <=> 0 \notin known
                                    /\ 1 \in known <=> q[1].type # "Delete"
         /\ ~Mine(q[1], key, sub) => (1 \in known <=> 0 \in known)
<1>1. PICK known2 \in SUBSET (0..m) : \A i \in 0..m : i \in known2 <=> i + 1 \in known
  <2>1. {i \in 0..m : i + 1 \in known} \in SUBSET (0..m)
    OBVIOUS
  <2>2. QED
    BY <2>1
<1>2. Line(q2, key, sub, known2)
  <2> SUFFICES ASSUME NEW i \in 1..m
               PROVE  /\ Mine(q2[i], key, sub) =>
                           /\ q2[i].type = "Create" <=> i - 1 \notin known2
                           /\ i \in known2 <=> q2[i].type # "Delete"
                      /\ ~Mine(q2[i], key, sub) => (i \in known2 <=> i - 1 \in known2)
    BY DEF Line
  <2>1. PICK j \in 1..(m + 1) : j = i + 1
    OBVIOUS
  <2>2. /\ Mine(q[j], key, sub) => /\ q[j].type = "Create" <=> j - 1 \notin known
                                   /\ j \in known <=> q[j].type # "Delete"
        /\ ~Mine(q[j], key, sub) => (j \in known <=> j - 1 \in known)
    BY DEF Line
  <2>3. /\ q2[i] = q[j] /\ j - 1 = i
        /\ i \in known2 <=> j \in known
        /\ i - 1 \in known2 <=> j - 1 \in known
    <3>1. i - 1 \in 0..m /\ i \in 0..m /\ (i - 1) + 1 = j - 1
      BY <2>1
    <3>2. QED
      BY <1>1, <2>1, <3>1
  <2>4. QED
    BY <2>2, <2>3
<1>3. 0 + 1 = 1 /\ 0 \in 0..m /\ m \in 0..m /\ 1 \in 1..(m + 1) /\ 1 - 1 = 0
  OBVIOUS
<1>4. /\ 0 \in known2 <=> 1 \in known
      /\ m \in known2 <=> m + 1 \in known
  BY <1>1, <1>3
<1>5. /\ Mine(q[1], key, sub) => /\ q[1].type = "Create" <=> 0 \notin known
                                 /\ 1 \in known <=> q[1].type # "Delete"
      /\ ~Mine(q[1], key, sub) => (1 \in known <=> 0 \in known)
  BY <1>3 DEF Line
<1>6. QED
  BY <1>2, <1>4, <1>5

-----------------------------------------------------------------------------
(***************************************************************************)
(* The steps.                                                              *)
(***************************************************************************)

\* Steps of the cluster, the dispatchers and the handlers.
LEMMA FlowSame ==
  ASSUME UNCHANGED <<cache, work, queue, bro, mirror>>, NEW key \in Keys, NEW sub \in Subs,
         Flows(key, sub)
  PROVE  Flows(key, sub)'
<1>1. PICK known \in SUBSET (0..Len(queue)) : FlowOf(key, sub, known)
  BY DEF Flows
<1>2. Near(key, sub, known)'
  BY <1>1 DEF FlowOf, Near, Waiting, Knows
<1>3. Far(key, sub, Len(queue), known)'
  BY <1>1 DEF FlowOf, Far, Pending, Subscribers, Cached
<1>4. Line(queue, key, sub, known)'
  BY <1>1 DEF FlowOf, Line
<1>5. QED
  BY <1>2, <1>3, <1>4 DEF Flows, FlowOf

\* Nobody knows or sends anything to a call that did not begin.
LEMMA FlowNew ==
  ASSUME TypeOK, Lineage, NEW key \in Keys, NEW sub \in Subs, watch[sub].phase = "new"
  PROVE  Flows(key, sub)
<1>1. \A k \in Keys : ~Fits(k, sub)
  BY DEF Fits
<1>2. ASSUME NEW evt \in Event, Sound(evt)
      PROVE  sub \notin evt.subs
  BY <1>1, <1>2 DEF Sound, Event, Uid
<1>3. ~Knows(sub, key)
  BY <1>1 DEF Knows, Lineage, Items
<1>4. ~Waiting(key, sub)
  <2>1. SUFFICES ASSUME bro.con = sub \/ sub \in bro.todo PROVE FALSE
    BY DEF Waiting
  <2>2. Busy
    BY <2>1, KeysAssumption DEF Busy
  <2>3. bro.evt \in Event /\ Sound(bro.evt) /\ sub \in bro.evt.subs
    BY <2>1, <2>2, KeysAssumption
       DEF TypeOK, BrokerTypeOK, BroBusy, BroIdle, Busy, Lineage, InHand
  <2>4. QED
    BY <1>2, <2>3
<1>5. \A i \in DOMAIN queue : ~Mine(queue[i], key, sub)
  <2>1. \A i \in DOMAIN queue : queue[i] \in Event /\ Sound(queue[i])
    BY DEF TypeOK, BlockingChannelTypeOK, Lineage, Queued
  <2>2. QED
    BY <1>2, <2>1 DEF Mine
<1>6. \A i \in DOMAIN work[Kind(key)].evts : ~Mine(work[Kind(key)].evts[i], key, sub)
  <2>1. PICK kind \in Kinds : kind = Kind(key)
    BY KindType
  <2>2. work[kind].evts \in Seq(Event)
    BY WorkPhases
  <2>3. \A i \in DOMAIN work[kind].evts : work[kind].evts[i] \in Event /\ Sound(work[kind].evts[i])
    BY <2>2 DEF Lineage, Batch
  <2>4. QED
    BY <1>2, <2>1, <2>3 DEF Mine
<1>7. sub \notin Subscribers(key)
  BY <1>1 DEF Subscribers, Lineage, Entry
<1>8. queue \in Seq(Event)
  BY DEF TypeOK, BlockingChannelTypeOK
<1>9. DOMAIN queue = 1..Len(queue)
  BY <1>8
<1>10. Near(key, sub, {}) /\ Line(queue, key, sub, {}) /\ Far(key, sub, Len(queue), {})
  BY <1>3, <1>4, <1>5, <1>6, <1>7, <1>9 DEF Near, Line, Far, Pending
<1>11. {} \in SUBSET (0..Len(queue))
  OBVIOUS
<1>12. QED
  BY <1>10, <1>11 DEF Flows, FlowOf

\* A reconcile that pushes nothing changes the far end only.
LEMMA FlowFar ==
  ASSUME UNCHANGED <<queue, bro, mirror>>, NEW key \in Keys, NEW sub \in Subs, Flows(key, sub),
         \A known \in SUBSET (0..Len(queue)) :
           Far(key, sub, Len(queue), known) => Far(key, sub, Len(queue), known)'
  PROVE  Flows(key, sub)'
<1>1. PICK known \in SUBSET (0..Len(queue)) : FlowOf(key, sub, known)
  BY DEF Flows
<1>2. Near(key, sub, known)'
  BY <1>1 DEF FlowOf, Near, Waiting, Knows
<1>3. Line(queue, key, sub, known)'
  BY <1>1 DEF FlowOf, Line
<1>4. QED
  BY <1>1, <1>2, <1>3 DEF Flows, FlowOf

\* The entry of a resource is settled: the events say what changes for whom.
LEMMA FlowSettles ==
  ASSUME TypeOK, SubscriberLife, Lineage, NEW kind \in Kinds, NEW k \in Keys, NEW data \in Data,
         NEW subs \in SUBSET Subs, Settles(kind, k, data, subs),
         NEW key \in Keys, NEW sub \in Subs, NEW n, NEW known, Far(key, sub, n, known)
  PROVE  Far(key, sub, n, known)'
<1>1. PICK updated \in BOOLEAN, w \in WorkPush \cup {WorkIdle} :
        /\ work'[kind] = w
        /\ w.evts = ToEvents(<<k, 1>>, data, updated, subs, Subscribers(k))
  BY DEF Settles, Moves
<1>2. PICK uid \in Uid, prev \in SUBSET Subs, evts \in {w.evts} :
        /\ uid = <<k, 1>> /\ prev = Subscribers(k)
        /\ evts = ToEvents(uid, data, updated, subs, prev)
  <2>1. Subscribers(k) \in SUBSET Subs
    BY DEF TypeOK, CollectorsTypeOK, Subscribers, Cached, CacheEntry
  <2>2. QED
    BY <1>1, <2>1 DEF Uid
<1>3. IsBatch(evts, uid, data, updated, subs, prev)
  BY <1>2, ToEventsBatch
<1>4. /\ work'[kind].evts = evts /\ DOMAIN work[kind].evts = {}
      /\ \A kk \in Kinds \ {kind} : work'[kk] = work[kk]
      /\ Kind(k) = kind /\ Subscribers(k)' = subs
      /\ \A kk \in Keys \ {k} : Subscribers(kk)' = Subscribers(kk)
  BY <1>1, <1>2 DEF Settles, Moves, Subscribers, Cached
<1> \A i \in DOMAIN evts : evts[i].uid[1] = k
  <2>1. \A i \in DOMAIN evts : evts[i].uid = uid
    BY <1>3 DEF IsBatch
  <2>2. uid[1] = k
    BY <1>2
  <2>3. QED
    BY <2>1, <2>2
<1>5. CASE key = k
  <2>1. /\ n \in known <=> sub \in prev
        /\ sub \in Subscribers(key)' <=> sub \in subs
        /\ work'[Kind(key)].evts = evts
    BY <1>2, <1>4, <1>5 DEF Far, Pending
  <2>2. ASSUME NEW i \in DOMAIN evts, Mine(evts[i], key, sub)
        PROVE  /\ evts[i].type = "Create" <=> n \notin known
               /\ evts[i].type # "Delete" <=> sub \in Subscribers(key)'
    BY <1>3, <2>1, <2>2 DEF IsBatch, Mine, UpdatedFor
  <2>3. \A i \in DOMAIN evts : sub \in evts[i].subs => Mine(evts[i], key, sub)
    BY <1>5 DEF Mine
  <2>4. (\A i \in DOMAIN evts : ~Mine(evts[i], key, sub))
          => (n \in known <=> sub \in Subscribers(key)')
    BY <1>3, <2>1, <2>3 DEF IsBatch
  <2>5. QED
    BY <2>1, <2>2, <2>4 DEF Far, Pending
<1>6. CASE key # k /\ Kind(key) = kind
  <2>1. \A i \in DOMAIN evts : ~Mine(evts[i], key, sub)
    BY <1>6 DEF Mine
  <2>2. n \in known <=> sub \in Subscribers(key)
    BY <1>4, <1>6 DEF Far, Pending
  <2>3. QED
    BY <1>4, <1>6, <2>1, <2>2 DEF Far, Pending
<1>7. CASE key # k /\ Kind(key) # kind
  <2>1. work'[Kind(key)] = work[Kind(key)] /\ Subscribers(key)' = Subscribers(key)
    BY <1>4, <1>7, KindType
  <2>2. QED
    BY <2>1 DEF Far, Pending
<1>8. QED
  BY <1>4, <1>5, <1>6, <1>7

\* The pod collector drops the entry of a pod: nobody healthy had it.
LEMMA FlowDropsPod ==
  ASSUME TypeOK, SubscriberLife, Lineage, DropsPod, NEW key \in Keys, NEW sub \in Subs,
         Healthy(sub), NEW n, NEW known, Far(key, sub, n, known)
  PROVE  Far(key, sub, n, known)'
<1> DEFINE w == work["Pod"]
<1>1. "Pod" \in Kinds
  BY DEF Kinds
<1>2. /\ Reading("Pod") /\ w.key \in Keys /\ w.evts = <<>> /\ Job("Pod")
      /\ w.obj.node # None => registry["Pod"][w.obj.node] = {}
  BY <1>1, WorkPhases DEF DropsPod, Reading, Lineage
<1>3. /\ work'["Pod"].evts = <<>>
      /\ \A k \in Kinds \ {"Pod"} : work'[k] = work[k]
      /\ \A k \in Keys \ {w.key} : Subscribers(k)' = Subscribers(k)
  BY <1>2 DEF DropsPod, Moves, WorkIdle, TypeOK, CollectorsTypeOK, Subscribers, Cached
<1>4. work'[Kind(key)].evts = work[Kind(key)].evts
  BY <1>2, <1>3, KindType
<1>5. CASE key # w.key
  BY <1>3, <1>4, <1>5 DEF Far, Pending
<1>6. CASE key = w.key
  <2>1. sub \notin Subscribers(key)
    <3> SUFFICES ASSUME sub \in Subscribers(key) PROVE FALSE
      OBVIOUS
    <3>1. Kind(key) = "Pod" /\ w.obj.node = NodeOf[sub] /\ NodeOf[sub] # None
      BY <1>2, <1>6, SubscribersAssumption, KeysAssumption DEF Job, Subscribers
    <3>2. sub \in registry["Pod"][NodeOf[sub]] \/ watch[sub].phase = "left"
      BY <3>1 DEF Subscribers, Lineage, Entry, Registered
    <3>3. watch[sub].phase # "left"
      BY <1>1 DEF Healthy, SubscriberLife, Life
    <3>4. QED
      BY <1>2, <3>1, <3>2, <3>3
  <2>2. sub \notin Subscribers(key)'
    BY <1>2, <1>6 DEF DropsPod, Subscribers, Cached, TypeOK, CollectorsTypeOK
  <2>3. QED
    BY <1>4, <2>1, <2>2 DEF Far, Pending
<1>7. QED
  BY <1>5, <1>6

\* An event moves from the worker to the queue.
LEMMA FlowPushes ==
  ASSUME TypeOK, Lineage, NEW kind \in Kinds, Pushes(kind), UNCHANGED <<bro, mirror>>,
         NEW key \in Keys, NEW sub \in Subs, Flows(key, sub)
  PROVE  Flows(key, sub)'
<1> DEFINE w == work[kind]
<1>1. PICK known \in SUBSET (0..Len(queue)) : FlowOf(key, sub, known)
  BY DEF Flows
<1>2. PICK es \in Seq(Event), tl \in Seq(Event), evt \in Event :
        /\ es = w.evts /\ tl = Tail(es) /\ evt = es[1] /\ evt = Head(es) /\ 1 \in DOMAIN es
        /\ \A i \in DOMAIN tl : i \in Nat /\ i > 0 /\ i + 1 \in DOMAIN es /\ tl[i] = es[i + 1]
        /\ \A i \in DOMAIN es : i \in Nat /\ (i = 1 \/ i - 1 \in DOMAIN tl)
  <2>1. PICK es \in Seq(Event) : es = w.evts /\ es # <<>>
    BY WorkPhases DEF Pushes
  <2>2. QED
    BY <2>1, Tailed
<1>3. /\ queue' = Append(queue, evt) /\ UNCHANGED cache /\ work'[kind].evts = tl
      /\ \A k \in Kinds \ {kind} : work'[k] = work[k]
  <2>1. work'[kind] = IF tl = <<>> THEN WorkIdle
                      ELSE [WorkIdle EXCEPT !.pc = "push", !.key = w.key, !.refs = w.refs,
                                            !.evts = tl]
    BY <1>2 DEF Pushes, Moves
  <2>2. work'[kind].evts = tl
    BY <2>1 DEF WorkIdle
  <2>3. QED
    BY <1>2, <2>2 DEF Pushes, Moves
<1>4. /\ Kind(w.key) = kind
      /\ \A i \in DOMAIN es : es[i].uid[1] = w.key
      /\ \A i, j \in DOMAIN es : i # j => es[i].subs \cap es[j].subs = {}
  BY <1>2 DEF Lineage, Batch, Pushes
<1>5. PICK n \in Nat : /\ n = Len(queue) /\ n + 1 = Len(queue')
                       /\ \A i \in 1..n : queue'[i] = queue[i]
                       /\ queue'[n + 1] = evt
  <2>1. PICK q \in Seq(Event) : q = queue
    BY DEF TypeOK, BlockingChannelTypeOK
  <2>2. PICK q2 : q2 = queue' /\ q2 = Append(q, evt)
    BY <1>3, <2>1
  <2>3. Len(q) \in Nat /\ DOMAIN q = 1..Len(q)
    BY <2>1
  <2>4. /\ Len(q2) = Len(q) + 1 /\ q2[Len(q) + 1] = evt
        /\ \A i \in DOMAIN q : q2[i] = q[i]
    BY <2>2, Appended
  <2>5. QED
    BY <2>1, <2>2, <2>3, <2>4
<1>6. ASSUME Mine(evt, key, sub)
      PROVE  /\ Kind(key) = kind
             /\ evt.type = "Create" <=> n \notin known
             /\ evt.type # "Delete" <=> sub \in Subscribers(key)
             /\ \A i \in DOMAIN tl : ~Mine(tl[i], key, sub)
  <2>1. Kind(key) = kind
    BY <1>2, <1>4, <1>6 DEF Mine
  <2>2. /\ evt.type = "Create" <=> n \notin known
        /\ evt.type # "Delete" <=> sub \in Subscribers(key)
    BY <1>1, <1>2, <1>5, <1>6, <2>1 DEF FlowOf, Far
  <2>3. ASSUME NEW i \in DOMAIN tl
        PROVE  ~Mine(tl[i], key, sub)
    <3>1. i + 1 \in DOMAIN es /\ i + 1 # 1 /\ tl[i] = es[i + 1]
      BY <1>2
    <3>2. QED
      BY <1>2, <1>4, <1>6, <3>1 DEF Mine
  <2>4. QED
    BY <2>1, <2>2, <2>3
<1>q. PICK q, q2 : q = queue /\ q2 = queue'
  OBVIOUS
<1>7. PICK known2 \in SUBSET (0..(n + 1)) :
           /\ Line(q2, key, sub, known2)
           /\ 0 \in known2 <=> 0 \in known
           /\ Mine(evt, key, sub) => (n + 1 \in known2 <=> evt.type # "Delete")
           /\ ~Mine(evt, key, sub) => (n + 1 \in known2 <=> n \in known)
  <2>1. /\ n = Len(q) /\ n + 1 = Len(q2) /\ q2[n + 1] = evt
        /\ \A i \in 1..n : q2[i] = q[i]
        /\ known \in SUBSET (0..n)
        /\ Line(q, key, sub, known)
    BY <1>1, <1>5, <1>q DEF FlowOf
  <2>2. Mine(evt, key, sub) => (evt.type = "Create" <=> n \notin known)
    BY <1>6
  <2>3. QED
    BY <2>1, <2>2, LineLonger
<1>8. Near(key, sub, known2)'
  BY <1>1, <1>7 DEF FlowOf, Near, Waiting, Knows
<1>9. Line(queue, key, sub, known2)'
  BY <1>7, <1>q DEF Line
<1>10. Subscribers(key)' = Subscribers(key)
  BY <1>3 DEF Subscribers, Cached
<1>11. Far(key, sub, n + 1, known2)'
  <2>1. CASE Mine(evt, key, sub)
    BY <1>3, <1>6, <1>7, <1>10, <2>1 DEF Far, Pending
  <2>2. CASE ~Mine(evt, key, sub) /\ Kind(key) # kind
    <3>1. work'[Kind(key)] = work[Kind(key)]
      BY <1>3, <2>2, KindType
    <3>2. QED
      BY <1>1, <1>5, <1>7, <1>10, <2>2, <3>1 DEF FlowOf, Far, Pending
  <2>3. CASE ~Mine(evt, key, sub) /\ Kind(key) = kind
    <3>1. ASSUME NEW i \in DOMAIN tl, Mine(tl[i], key, sub)
          PROVE  /\ tl[i].type = "Create" <=> n + 1 \notin known2
                 /\ tl[i].type # "Delete" <=> sub \in Subscribers(key)'
      <4>1. PICK j \in DOMAIN es : tl[i] = es[j]
        BY <1>2
      <4>2. /\ es[j].type = "Create" <=> n \notin known
            /\ es[j].type # "Delete" <=> sub \in Subscribers(key)
        BY <1>1, <1>2, <1>5, <2>3, <3>1, <4>1 DEF FlowOf, Far
      <4>3. QED
        BY <1>7, <1>10, <2>3, <4>1, <4>2
    <3>2. ASSUME \A i \in DOMAIN tl : ~Mine(tl[i], key, sub)
          PROVE  n + 1 \in known2 <=> sub \in Subscribers(key)'
      <4>1. \A i \in DOMAIN es : ~Mine(es[i], key, sub)
        <5> SUFFICES ASSUME NEW i \in DOMAIN es PROVE ~Mine(es[i], key, sub)
          OBVIOUS
        <5>1. CASE i = 1
          BY <1>2, <2>3, <5>1
        <5>2. CASE i # 1
          <6>1. PICK j \in DOMAIN tl : j = i - 1
            BY <1>2, <5>2
          <6>2. i \in Nat /\ j \in Nat /\ j + 1 = i /\ tl[j] = es[j + 1]
            BY <1>2, <6>1
          <6>3. QED
            BY <3>2, <6>2
        <5>3. QED
          BY <5>1, <5>2
      <4>2. n \in known <=> sub \in Subscribers(key)
        BY <1>1, <1>2, <1>5, <2>3, <4>1 DEF FlowOf, Far, Pending
      <4>3. QED
        BY <1>7, <1>10, <2>3, <4>2
    <3>3. QED
      BY <1>3, <2>3, <3>1, <3>2 DEF Far, Pending
  <2>4. QED
    BY <2>1, <2>2, <2>3
<1>12. QED
  <2>1. Far(key, sub, Len(queue), known2)'
    BY <1>5, <1>11 DEF Far, Pending
  <2>2. known2 \in SUBSET (0..Len(queue'))
    BY <1>5
  <2>3. QED
    BY <1>8, <1>9, <2>1, <2>2 DEF Flows, FlowOf

\* The steps of a worker.
LEMMA FlowReconcile ==
  ASSUME TypeOK, SubscriberLife, Lineage, NEW kind \in Kinds, Reconcile(kind),
         NEW key \in Keys, NEW sub \in Subs, Healthy(sub), Flows(key, sub)
  PROVE  Flows(key, sub)'
<1>1. UNCHANGED <<bro, mirror>>
  BY DEF Reconcile, broVars
<1>2. ASSUME NEW k \in Keys, NEW data \in Data, NEW subs \in SUBSET Subs,
             Settles(kind, k, data, subs)
      PROVE  Flows(key, sub)'
  <2>1. UNCHANGED queue
    BY <1>2 DEF Settles
  <2>2. \A n, known : Far(key, sub, n, known) => Far(key, sub, n, known)'
    BY <1>2, FlowSettles
  <2>3. PICK n : n = Len(queue)
    OBVIOUS
  <2>4. \A known : Far(key, sub, Len(queue), known) => Far(key, sub, Len(queue), known)'
    BY <2>1, <2>2, <2>3 DEF Far, Pending, Subscribers, Cached
  <2>5. QED
    BY <1>1, <2>1, <2>4, FlowFar
<1>3. CASE DropsPod
  <2>1. UNCHANGED queue
    BY <1>3 DEF DropsPod
  <2>2. \A n, known : Far(key, sub, n, known) => Far(key, sub, n, known)'
    BY <1>3, FlowDropsPod
  <2>3. PICK n : n = Len(queue)
    OBVIOUS
  <2>4. \A known : Far(key, sub, Len(queue), known) => Far(key, sub, Len(queue), known)'
    BY <2>1, <2>2, <2>3 DEF Far, Pending, Subscribers, Cached
  <2>5. QED
    BY <1>1, <2>1, <2>4, FlowFar
<1>4. CASE Pushes(kind)
  BY <1>1, <1>4, FlowPushes
<1>5. ASSUME UNCHANGED <<cache, queue>>, work[kind].evts = <<>>, work'[kind].evts = <<>>,
             \A k \in Kinds \ {kind} : work'[k] = work[k]
      PROVE  Flows(key, sub)'
  <2>1. work'[Kind(key)].evts = work[Kind(key)].evts
    BY <1>5, KindType
  <2>2. \A known : Far(key, sub, Len(queue), known) => Far(key, sub, Len(queue), known)'
    BY <1>5, <2>1 DEF Far, Pending, Subscribers, Cached
  <2>3. QED
    BY <1>1, <1>5, <2>2, FlowFar
<1>6. ASSUME \/ \E k \in Keys : Begins(kind, k)
             \/ \E subs \in SUBSET Subs : Continues(kind, subs)
             \/ GivesUp(kind)
      PROVE  Flows(key, sub)'
  <2>1. WorkIdle.evts = <<>>
    BY DEF WorkIdle
  <2>2. Reading(kind) => work[kind].evts = <<>> /\ work[kind] \in WorkRead
    BY WorkPhases
  <2>3. CASE \E k \in Keys : Begins(kind, k)
    <3>1. PICK k \in Keys : Begins(kind, k)
      BY <2>3
    <3>2. work'[kind].evts = <<>>
      BY <3>1 DEF Begins, Moves, WorkIdle
    <3>3. QED
      BY <1>5, <2>1, <3>1, <3>2 DEF Begins, Moves
  <2>4. CASE \E subs \in SUBSET Subs : Continues(kind, subs)
    <3>1. PICK subs \in SUBSET Subs : Continues(kind, subs)
      BY <2>4
    <3>2. work'[kind].evts = <<>> /\ work[kind].evts = <<>>
      BY <2>2, <3>1 DEF Continues, Moves, WorkRead
    <3>3. QED
      BY <1>5, <3>1, <3>2 DEF Continues, Moves
  <2>5. CASE GivesUp(kind)
    BY <1>5, <2>1, <2>2, <2>5 DEF GivesUp, Moves
  <2>6. QED
    BY <1>6, <2>3, <2>4, <2>5
<1>7. NoData \in Data /\ (Reading(kind) => work[kind].key \in Keys)
  BY WorkPhases DEF NoData, Data
<1>8. \/ \E k \in Keys, data \in Data, subs \in SUBSET Subs : Settles(kind, k, data, subs)
      \/ DropsPod
      \/ Pushes(kind)
      \/ \E k \in Keys : Begins(kind, k)
      \/ \E subs \in SUBSET Subs : Continues(kind, subs)
      \/ GivesUp(kind)
  BY <1>7, ReconcileCases
<1>9. QED
  BY <1>2, <1>3, <1>4, <1>6, <1>8

\* The broker takes the first event of the queue in hand.
LEMMA FlowTakes ==
  ASSUME TypeOK, Lineage, Takes, UNCHANGED <<cache, work>>,
         NEW key \in Keys, NEW sub \in Subs, Flows(key, sub)
  PROVE  Flows(key, sub)'
<1>1. PICK known \in SUBSET (0..Len(queue)) : FlowOf(key, sub, known)
  BY DEF Flows
<1>2. PICK q \in Seq(Event) : q = queue /\ q # <<>>
  BY DEF Takes, TypeOK, BlockingChannelTypeOK
<1>3. PICK q2, evt : q2 = Tail(q) /\ evt = q[1] /\ evt = Head(q)
  BY <1>2, Tailed
<1>4. PICK m \in Nat : m = Len(q2) /\ m + 1 = Len(q) /\ \A i \in 1..m : q2[i] = q[i + 1]
  <2>1. q2 \in Seq(Event) /\ Len(q2) = Len(q) - 1 /\ Len(q) \in Nat /\ Len(q2) \in Nat
    BY <1>2, <1>3, Tailed
  <2>2. \A i \in DOMAIN q2 : q2[i] = q[i + 1]
    BY <1>2, <1>3, Tailed
  <2>3. DOMAIN q2 = 1..Len(q2)
    BY <2>1
  <2>4. QED
    BY <2>1, <2>2, <2>3
<1>5. known \in SUBSET (0..(m + 1)) /\ Line(q, key, sub, known)
  BY <1>1, <1>2, <1>4 DEF FlowOf
<1>6. /\ \E known2 \in SUBSET (0..m) :
           /\ Line(q2, key, sub, known2)
           /\ 0 \in known2 <=> 1 \in known
           /\ m \in known2 <=> m + 1 \in known
      /\ Mine(q[1], key, sub) => /\ q[1].type = "Create" <=> 0 \notin known
                                 /\ 1 \in known <=> q[1].type # "Delete"
      /\ ~Mine(q[1], key, sub) => (1 \in known <=> 0 \in known)
  BY <1>4, <1>5, LineShorter
<1>7. PICK known2 \in SUBSET (0..m) :
        /\ Line(q2, key, sub, known2)
        /\ 0 \in known2 <=> 1 \in known
        /\ m \in known2 <=> m + 1 \in known
  BY <1>6
<1>8. /\ queue' = q2 /\ mirror' = mirror
      /\ bro'.todo = evt.subs /\ bro'.con = None
      /\ evt.subs # {} => bro'.evt = evt
  BY <1>2, <1>3 DEF Takes, Busy
<1>9. ~Waiting(key, sub) /\ sub # None
  BY KeysAssumption DEF Takes, Busy, Waiting
<1>10. Waiting(key, sub)' <=> Mine(evt, key, sub)
  BY <1>8, <1>9 DEF Waiting, Mine
<1>11. 0 \in known <=> Knows(sub, key)
  BY <1>1, <1>9 DEF FlowOf, Near
<1>12. Near(key, sub, known2)'
  <2>1. Knows(sub, key)' <=> Knows(sub, key)
    BY <1>8 DEF Knows
  <2>2. CASE Mine(evt, key, sub)
    <3>1. bro'.evt = evt /\ Waiting(key, sub)'
      BY <1>8, <1>10, <2>2 DEF Mine
    <3>2. /\ evt.type = "Create" <=> 0 \notin known
          /\ 1 \in known <=> evt.type # "Delete"
      BY <1>3, <1>6, <2>2
    <3>3. QED
      BY <1>7, <1>11, <2>1, <3>1, <3>2 DEF Near
  <2>3. CASE ~Mine(evt, key, sub)
    BY <1>3, <1>6, <1>7, <1>10, <1>11, <2>1, <2>3 DEF Near
  <2>4. QED
    BY <2>2, <2>3
<1>13. Line(queue, key, sub, known2)'
  BY <1>7, <1>8 DEF Line
<1>14. Far(key, sub, m + 1, known)
  BY <1>1, <1>2, <1>4 DEF FlowOf
<1>15. Far(key, sub, m, known2)'
  BY <1>7, <1>14 DEF Far, Pending, Subscribers, Cached
<1>16. QED
  <2>1. Far(key, sub, Len(queue), known2)'
    BY <1>4, <1>8, <1>15 DEF Far, Pending
  <2>2. known2 \in SUBSET (0..Len(queue'))
    BY <1>4, <1>8
  <2>3. QED
    BY <1>12, <1>13, <2>1, <2>2 DEF Flows, FlowOf

\* The other steps of the broker change the near end only.
LEMMA FlowNear ==
  ASSUME UNCHANGED <<cache, work, queue>>, NEW key \in Keys, NEW sub \in Subs, Flows(key, sub),
         \A known \in SUBSET (0..Len(queue)) : Near(key, sub, known) => Near(key, sub, known)'
  PROVE  Flows(key, sub)'
<1>1. PICK known \in SUBSET (0..Len(queue)) : FlowOf(key, sub, known)
  BY DEF Flows
<1>2. Near(key, sub, known)'
  BY <1>1 DEF FlowOf
<1>3. Far(key, sub, Len(queue), known)'
  BY <1>1 DEF FlowOf, Far, Pending, Subscribers, Cached
<1>4. Line(queue, key, sub, known)'
  BY <1>1 DEF FlowOf, Line
<1>5. QED
  BY <1>2, <1>3, <1>4 DEF Flows, FlowOf

\* A message tells the client of the resource, or takes it away.
LEMMA FlowSends ==
  ASSUME TypeOK, Lineage, NEW sub \in Subs, Sends(sub), NEW key \in Keys,
         NEW known, Near(key, sub, known)
  PROVE  Near(key, sub, known)'
<1>1. Busy /\ sub # None
  BY KeysAssumption DEF Sends, Served, Busy
<1>2. PICK evt \in Event, items \in SUBSET Item, new \in {mirror'[sub]} :
        evt = bro.evt /\ items = mirror[sub] /\ new = mirror'[sub] /\ new = Apply(items, evt)
  BY <1>1 DEF Sends, TypeOK, BrokerTypeOK, BroBusy, BroIdle, Busy
<1>3. /\ sub \notin bro.todo /\ evt.uid[2] = 1
      /\ evt.uid \in Uid
      /\ \A item \in items : item.uid \in Uid /\ item.uid[2] = 1
  BY <1>1, <1>2 DEF Lineage, InHand, Sound, Sends, Served, Items, Event, Item
<1>4. \A item \in items : item.uid[1] = evt.uid[1] => item.uid = evt.uid
  BY <1>3 DEF Uid
<1>5. /\ \A item \in new : \/ item \in items /\ item.uid # evt.uid
                           \/ evt.type # "Delete" /\ item.uid = evt.uid
      /\ \A item \in items : item.uid # evt.uid => item \in new
      /\ (\E item \in new : item.uid = evt.uid) <=> evt.type # "Delete"
  BY <1>2, Applied
<1>6. ~Waiting(key, sub)'
  BY <1>1, <1>3 DEF Sends, Served, Waiting
<1>7. CASE evt.uid[1] = key
  <2>1. 0 \in known <=> evt.type # "Delete"
    BY <1>2, <1>7 DEF Near, Waiting, Sends, Served
  <2>2. (\E item \in new : item.uid[1] = key) <=> evt.type # "Delete"
    BY <1>4, <1>5, <1>7
  <2>3. QED
    BY <1>2, <1>6, <2>1, <2>2 DEF Near, Knows
<1>8. CASE evt.uid[1] # key
  <2>1. 0 \in known <=> \E item \in items : item.uid[1] = key
    BY <1>2, <1>8 DEF Near, Waiting, Knows
  <2>2. (\E item \in new : item.uid[1] = key) <=> \E item \in items : item.uid[1] = key
    BY <1>5, <1>8
  <2>3. QED
    BY <1>2, <1>6, <2>1, <2>2 DEF Near, Knows
<1>9. QED
  BY <1>7, <1>8

\* The steps of the broker.
LEMMA FlowBroker ==
  ASSUME TypeOK, Lineage, BrokerStep, NEW key \in Keys, NEW sub \in Subs,
         Healthy(sub), Healthy(sub)', Flows(key, sub)
  PROVE  Flows(key, sub)'
<1>1. UNCHANGED <<cache, work>>
  BY DEF BrokerStep
<1>2. CASE Takes
  BY <1>1, <1>2, FlowTakes
<1>3. ASSUME UNCHANGED queue, mirror'[sub] = mirror[sub],
             bro'.con = sub \/ sub \in bro'.todo <=> bro.con = sub \/ sub \in bro.todo,
             Busy' => bro'.evt = bro.evt
      PROVE  Flows(key, sub)'
  <2>1. Waiting(key, sub)' <=> Waiting(key, sub)
    BY <1>3, KeysAssumption DEF Waiting, Busy
  <2>2. Waiting(key, sub) => bro'.evt = bro.evt
    BY <1>3, KeysAssumption DEF Waiting, Busy
  <2>3. \A known : Near(key, sub, known) => Near(key, sub, known)'
    BY <1>3, <2>1, <2>2 DEF Near, Knows
  <2>4. QED
    BY <1>1, <1>3, <2>3, FlowNear
<1>4. ASSUME NEW s \in Subs, LooksUp(s)
      PROVE  Flows(key, sub)'
  <2>1. sub # None /\ sub \in conns
    BY KeysAssumption DEF Healthy
  <2>2. bro'.con = sub \/ sub \in bro'.todo <=> bro.con = sub \/ sub \in bro.todo
    BY <1>4, <2>1 DEF LooksUp
  <2>3. QED
    BY <1>3, <1>4, <2>2 DEF LooksUp
<1>5. ASSUME NEW s \in Subs, Served(s), s # sub, mirror'[sub] = mirror[sub]
      PROVE  Flows(key, sub)'
  <2>1. bro'.con = sub \/ sub \in bro'.todo <=> bro.con = sub \/ sub \in bro.todo
    BY <1>5, KeysAssumption DEF Served
  <2>2. QED
    BY <1>3, <1>5, <2>1 DEF Served
<1>6. ASSUME NEW s \in Subs, Misses(s)
      PROVE  Flows(key, sub)'
  <2>1. s # sub
    BY <1>6 DEF Misses, Healthy
  <2>2. QED
    BY <1>5, <1>6, <2>1 DEF Misses
<1>7. ASSUME NEW s \in Subs, Sends(s)
      PROVE  Flows(key, sub)'
  <2>1. CASE s = sub
    <3>1. UNCHANGED queue
      BY <1>7 DEF Sends, Served
    <3>2. \A known : Near(key, sub, known) => Near(key, sub, known)'
      BY <1>7, <2>1, FlowSends
    <3>3. QED
      BY <1>1, <3>1, <3>2, FlowNear
  <2>2. CASE s # sub
    <3>1. mirror'[sub] = mirror[sub]
      BY <1>7, <2>2 DEF Sends, TypeOK, BrokerTypeOK
    <3>2. QED
      BY <1>5, <1>7, <2>2, <3>1 DEF Sends
  <2>3. QED
    BY <2>1, <2>2
<1>8. QED
  BY <1>2, <1>4, <1>6, <1>7, BrokerCases

\* A stream is healthy from its start until something of it is lost.
LEMMA HealthyStep ==
  ASSUME [Next]_vars, NEW sub \in Subs, Healthy(sub)'
  PROVE  Healthy(sub) \/ StartWatch(sub)
<1>1. CASE BrokerStep
  BY <1>1 DEF BrokerStep, PopEvent, LoadConnection, Send, SendFails, Close, SendError,
     watchVars, Healthy
<1>2. ASSUME NEW s \in Subs,
             StartWatch(s) \/ EndStream(s) \/ LeaveWatch(s) \/ \E kind \in Kinds : Notify(s, kind)
      PROVE  Healthy(sub) \/ StartWatch(sub)
  BY <1>2 DEF StartWatch, Watch, EndStream, StreamEnds, LeaveWatch, LeaveOnStreamEnd,
     LeaveOnError, Leave, Notify, NotifyCollector, Healthy
<1>3. CASE \/ ClusterStep \/ SliceChanges \/ DispatchSlices
           \/ \E key \in Keys : DeliverTrigger(key)
           \/ \E kind \in Kinds : Dispatch(kind) \/ Reconcile(kind)
           \/ UNCHANGED vars
  <2>1. UNCHANGED watchVars
    BY <1>3 DEF ClusterStep, SliceChanges, DispatchSlices, DeliverTrigger, Dispatch, Reconcile,
       vars
  <2>2. QED
    BY <2>1 DEF watchVars, Healthy
<1>4. QED
  BY <1>1, <1>2, <1>3 DEF Next

\* No step breaks the flow.
LEMMA FlowStep ==
  ASSUME TypeOK, SubscriberLife, Lineage, Flow, [Next]_vars
  PROVE  Flow'
<1> SUFFICES ASSUME NEW key \in Keys, NEW sub \in Subs, Healthy(sub)'
             PROVE  Flows(key, sub)'
  BY DEF Flow
<1>1. CASE StartWatch(sub)
  <2>1. Flows(key, sub)
    BY <1>1, FlowNew DEF StartWatch, Watch
  <2>2. QED
    BY <1>1, <2>1, FlowSame DEF StartWatch, broVars
<1>2. CASE Healthy(sub)
  <2>1. Flows(key, sub)
    BY <1>2 DEF Flow
  <2>2. CASE BrokerStep
    BY <1>2, <2>1, <2>2, FlowBroker
  <2>3. CASE \E kind \in Kinds : Reconcile(kind)
    BY <1>2, <2>1, <2>3, FlowReconcile
  <2>4. CASE UNCHANGED <<cache, work, queue, bro, mirror>>
    BY <2>1, <2>4, FlowSame
  <2>5. QED
    BY <2>2, <2>3, <2>4 DEF Next, ClusterStep, SliceChanges, DispatchSlices, DeliverTrigger,
       Dispatch, StartWatch, EndStream, LeaveWatch, Notify, vars, broVars
<1>3. QED
  BY <1>1, <1>2, HealthyStep

\* What the broker is about to send to a healthy subscriber makes sense.
LEMMA FlowProtocol ==
  ASSUME TypeOK, Lineage, Flow
  PROVE  StreamProtocol
<1> SUFFICES ASSUME NEW sub \in Subs, bro.con = sub, Healthy(sub)
             PROVE  bro.evt.type = "Create" <=> bro.evt.uid \notin Known(sub)
  BY DEF StreamProtocol
<1>1. Busy
  BY KeysAssumption DEF Busy
<1>2. PICK evt \in Event, key \in Keys : evt = bro.evt /\ key = evt.uid[1] /\ evt.uid[2] = 1
  BY <1>1 DEF TypeOK, BrokerTypeOK, BroBusy, BroIdle, Busy, Lineage, InHand, Sound, Event, Uid
<1>3. Waiting(key, sub)
  BY <1>2 DEF Waiting
<1>4. evt.type = "Create" <=> ~Knows(sub, key)
  BY <1>2, <1>3 DEF Flow, Flows, FlowOf, Near
<1>5. \A item \in mirror[sub] : item.uid = evt.uid <=> item.uid[1] = key
  <2>1. \A item \in mirror[sub] : item.uid \in Uid /\ item.uid[2] = 1
    BY DEF TypeOK, BrokerTypeOK, Item, Lineage, Items
  <2>2. QED
    BY <1>2, <2>1 DEF Uid, Event
<1>6. QED
  BY <1>2, <1>4, <1>5 DEF Known, Knows

\* As long as no name is used again, the streams of the collector make sense:
\* while no message to it was lost, a client gets a Create for what it does
\* not know, and an Update or a Delete for what it does, whatever the order
\* of reconciles, subscriptions and departures.
THEOREM StreamsMakeSense ==
  ASSUME NoReuse
  PROVE  Spec => []StreamProtocol
<1> DEFINE Base == TypeOK /\ SubscriberLife /\ Lineage
<1>1. Spec => []Base
  BY LineageInvariant
<1>2. Init => Flow
  BY DEF Init, WatchInit, Flow, Healthy
<1>3. Base /\ Flow /\ [Next]_vars => Flow'
  BY FlowStep
<1>4. Base /\ Flow => StreamProtocol
  BY FlowProtocol
<1>5. QED
  BY <1>1, <1>2, <1>3, <1>4, PTL DEF Spec

(***************************************************************************)
(* The collector implements the feed it promises to its clients: the       *)
(* refinement of MetadataFeed.  Beyond the flow of the events it needs     *)
(* their versions: what a client, the broker, the queue and a worker have  *)
(* of a resource gets newer in this order, up to the object in the store.  *)
(***************************************************************************)

\* Nothing the clients know of key is newer than v.
AtClient(key, v) ==
  \A sub \in Subs : \A item \in mirror[sub] : item.uid[1] = key => item.data.ver <= v

\* Nor is the event in the hands of the broker ...
Sent(key, v) ==
  /\ AtClient(key, v)
  /\ Busy /\ bro.evt.uid[1] = key => bro.evt.data.ver <= v

\* ... nor those of the queue.
Upto(key, v) ==
  /\ Sent(key, v)
  /\ \A i \in DOMAIN queue : queue[i].uid[1] = key => queue[i].data.ver <= v

\* A store has the newest version.
Newest(key) ==
  Exists(key) =>
    /\ Upto(key, store[key].ver)
    /\ \A i \in DOMAIN work[Kind(key)].evts :
         LET evt == work[Kind(key)].evts[i] IN
         evt.uid[1] = key => evt.data.ver <= store[key].ver

\* A worker has a newer one than what it sent before.
Newer(kind) ==
  LET w == work[kind] IN
  /\ Reading(kind) => Upto(w.key, w.obj.ver)
  /\ \A i \in DOMAIN w.evts : w.evts[i].type # "Delete" =>
       /\ Upto(w.key, w.evts[i].data.ver)
       /\ \A j \in DOMAIN w.evts : w.evts[j].data.ver <= w.evts[i].data.ver

\* The queue is in order.
InOrder ==
  \A i \in DOMAIN queue : queue[i].type # "Delete" =>
    /\ Sent(queue[i].uid[1], queue[i].data.ver)
    /\ \A j \in DOMAIN queue :
         j < i /\ queue[j].uid[1] = queue[i].uid[1] => queue[j].data.ver <= queue[i].data.ver

\* What the broker sends is no older than what the clients know.
Fresh == Busy /\ bro.evt.type # "Delete" => AtClient(bro.evt.uid[1], bro.evt.data.ver)

\* Versions only go up on their way to the clients.
Versions ==
  /\ \A key \in Keys : Newest(key)
  /\ \A kind \in Kinds : Newer(kind)
  /\ InOrder
  /\ Fresh

-----------------------------------------------------------------------------
(***************************************************************************)
(* The versions.                                                           *)
(***************************************************************************)

\* A later version is a bound too.
LEMMA UptoLater ==
  ASSUME TypeOK, NEW key \in Keys, NEW v \in Nat, NEW v2 \in Nat, v <= v2, Upto(key, v)
  PROVE  Upto(key, v2)
<1>1. \A sub \in Subs : \A item \in mirror[sub] : item.data.ver \in Nat
  BY DEF TypeOK, BrokerTypeOK, Item, Data
<1>2. Busy => bro.evt.data.ver \in Nat
  BY DEF TypeOK, BrokerTypeOK, BroBusy, BroIdle, Busy, Event, Data
<1>3. \A i \in DOMAIN queue : queue[i].data.ver \in Nat
  <2>1. \A i \in DOMAIN queue : queue[i] \in Event
    BY DEF TypeOK, BlockingChannelTypeOK
  <2>2. QED
    BY <2>1 DEF Event, Data
<1>4. Sent(key, v2)
  BY <1>1, <1>2 DEF Upto, Sent, AtClient
<1>5. QED
  BY <1>3, <1>4 DEF Upto

\* Nothing is on its way about a name that was not used.
LEMMA UptoNew ==
  ASSUME TypeOK, Lineage, NEW key \in Keys, born[key] = 0, NEW v
  PROVE  /\ Upto(key, v)
         /\ \A i \in DOMAIN work[Kind(key)].evts : work[Kind(key)].evts[i].uid[1] # key
<1>1. AtClient(key, v)
  BY DEF AtClient, Lineage, Items, Fits
<1>2. Sent(key, v)
  BY <1>1 DEF Sent, Lineage, InHand, Sound
<1>3. Upto(key, v)
  BY <1>2 DEF Upto, Lineage, Queued, Sound
<1>4. \A i \in DOMAIN work[Kind(key)].evts : work[Kind(key)].evts[i].uid[1] # key
  BY KindType DEF Lineage, Batch, Sound
<1>5. QED
  BY <1>3, <1>4

\* Steps of the cluster, the dispatchers and the handlers.
LEMMA VersionsSame ==
  ASSUME NoReuse, TypeOK, Lineage, Versions, [Next]_vars,
         UNCHANGED <<work, queue, bro, mirror>>
  PROVE  Versions'
<1>1. /\ \A key \in Keys, v \in Nat : Upto(key, v)' <=> Upto(key, v)
      /\ \A key \in Keys, v \in Nat : Sent(key, v)' <=> Sent(key, v)
  BY DEF Upto, Sent, AtClient, Busy
<1>2. \A kind \in Kinds : Newer(kind)'
  BY DEF Versions, Newer, Reading, Upto, Sent, AtClient, Busy
<1>3. InOrder' /\ Fresh'
  BY DEF Versions, InOrder, Fresh, Sent, AtClient, Busy
<1>4. ASSUME NEW key \in Keys
      PROVE  Newest(key)'
  <2> SUFFICES ASSUME Exists(key)' PROVE Newest(key)'
    BY DEF Newest
  <2>1. /\ store \in [Keys -> Object \cup {None}] /\ store' \in [Keys -> Object \cup {None}]
    BY StepType DEF TypeOK, ClusterTypeOK
  <2>2. PICK v2 \in Nat : v2 = store'[key].ver
    BY <2>1 DEF Exists, Object
  <2>3. Ages(key)
    BY AgesStep DEF Lineage
  <2>4. ASSUME Exists(key), store[key].ver <= v2
        PROVE  Newest(key)'
    <3>1. PICK v \in Nat : v = store[key].ver
      BY <2>1, <2>4 DEF Exists, Object
    <3>2. /\ Upto(key, v)
          /\ \A i \in DOMAIN work[Kind(key)].evts :
               work[Kind(key)].evts[i].uid[1] = key => work[Kind(key)].evts[i].data.ver <= v
      BY <2>4, <3>1 DEF Versions, Newest
    <3>3. \A i \in DOMAIN work[Kind(key)].evts : work[Kind(key)].evts[i].data.ver \in Nat
      <4>1. PICK kind \in Kinds : kind = Kind(key)
        BY KindType
      <4>2. work[kind].evts \in Seq(Event)
        BY WorkPhases
      <4>3. \A i \in DOMAIN work[kind].evts : work[kind].evts[i] \in Event
        BY <4>2
      <4>4. QED
        BY <4>1, <4>3 DEF Event, Data
    <3>4. Upto(key, v2)
      BY <2>4, <3>1, <3>2, UptoLater
    <3>5. \A i \in DOMAIN work[Kind(key)].evts :
            work[Kind(key)].evts[i].uid[1] = key => work[Kind(key)].evts[i].data.ver <= v2
      BY <2>4, <3>1, <3>2, <3>3
    <3>6. QED
      BY <2>2, <3>4, <3>5 DEF Newest, Upto, Sent, AtClient, Busy
  <2>5. CASE ~Exists(key) /\ born[key] = 0
    <3>1. /\ Upto(key, v2)
          /\ \A i \in DOMAIN work[Kind(key)].evts : work[Kind(key)].evts[i].uid[1] # key
      BY <2>5, UptoNew
    <3>2. QED
      BY <2>2, <3>1 DEF Newest, Upto, Sent, AtClient, Busy
  <2>6. Exists(key) => store[key].ver \in Nat
    BY <2>1 DEF Exists, Object
  <2>7. QED
    BY <2>2, <2>3, <2>4, <2>5, <2>6 DEF Ages, Exists
<1>5. QED
  BY <1>2, <1>3, <1>4 DEF Versions

\* The events of a worker are about its key, and their versions are numbers.
LEMMA WorkEvents ==
  ASSUME TypeOK, Lineage, NEW kind \in Kinds
  PROVE  /\ work[kind].evts \in Seq(Event)
         /\ \A i \in DOMAIN work[kind].evts :
              /\ work[kind].evts[i] \in Event /\ work[kind].evts[i].data.ver \in Nat
              /\ work[kind].evts[i].uid[1] = work[kind].key /\ work[kind].key \in Keys
              /\ work[kind].pc = "push" /\ Kind(work[kind].key) = kind
<1>1. work[kind].evts \in Seq(Event)
  BY WorkPhases
<1>2. \A i \in DOMAIN work[kind].evts : work[kind].evts[i] \in Event
  BY <1>1
<1>3. \A i \in DOMAIN work[kind].evts : work[kind].evts[i].data.ver \in Nat
  BY <1>2 DEF Event, Data
<1>4. DOMAIN work[kind].evts # {} => work[kind].pc = "push"
  <2>1. work[kind].evts = <<>> => DOMAIN work[kind].evts = {}
    OBVIOUS
  <2>2. WorkIdle.evts = <<>>
    BY DEF WorkIdle
  <2>3. QED
    BY <2>1, <2>2, WorkPhases
<1>5. work[kind].pc = "push" => work[kind].key \in Keys
  BY WorkPhases
<1>6. QED
  BY <1>1, <1>2, <1>3, <1>4, <1>5 DEF Lineage, Batch

\* The versions of a worker that has just settled an entry.
LEMMA SettlesVersions ==
  ASSUME TypeOK, NEW kind \in Kinds, NEW key \in Keys, NEW data \in Data, NEW subs \in SUBSET Subs,
         Settles(kind, key, data, subs)
  PROVE  /\ work'[kind].pc \in {"idle", "push"}
         /\ \A i \in DOMAIN work'[kind].evts :
              LET evt == work'[kind].evts[i] IN
              /\ work'[kind].key = key /\ evt.uid[1] = key
              /\ evt.type # "Delete" => evt.data.ver = data.ver /\ subs # {}
              /\ evt.type = "Delete" => evt.data.ver = 0
<1>1. PICK updated \in BOOLEAN, w \in WorkPush \cup {WorkIdle} :
        /\ work'[kind] = w
        /\ w.evts = ToEvents(<<key, 1>>, data, updated, subs, Subscribers(key))
        /\ w.evts # <<>> <=> w.pc = "push"
        /\ w.pc = "push" => w.key = key
  BY DEF Settles, Moves
<1>2. PICK uid \in Uid, prev \in SUBSET Subs, evts \in {w.evts} :
        /\ uid = <<key, 1>> /\ prev = Subscribers(key)
        /\ evts = ToEvents(uid, data, updated, subs, prev)
  <2>1. Subscribers(key) \in SUBSET Subs
    BY DEF TypeOK, CollectorsTypeOK, Subscribers, Cached, CacheEntry
  <2>2. QED
    BY <1>1, <2>1 DEF Uid
<1>3. IsBatch(evts, uid, data, updated, subs, prev)
  BY <1>2, ToEventsBatch
<1>4. ASSUME NEW i \in DOMAIN evts
      PROVE  /\ evts[i].uid[1] = key
             /\ evts[i].type # "Delete" => evts[i].data.ver = data.ver /\ subs # {}
             /\ evts[i].type = "Delete" => evts[i].data.ver = 0
  <2>1. evts[i].uid[1] = key
    <3>1. evts[i].uid = uid
      BY <1>3 DEF IsBatch
    <3>2. uid[1] = key
      BY <1>2
    <3>3. QED
      BY <3>1, <3>2
  <2>2. evts[i].type # "Delete" => evts[i].data = data /\ subs # {}
    BY <1>3 DEF IsBatch, UpdatedFor
  <2>3. evts[i].type = "Delete" => evts[i].data = NoData
    BY <1>3 DEF IsBatch
  <2>4. QED
    BY <2>1, <2>2, <2>3 DEF NoData
<1>5. work'[kind].evts = evts /\ w.evts = evts
  BY <1>1, <1>2
<1>6. \A i \in DOMAIN evts : w.key = key
  <2>1. evts = <<>> => DOMAIN evts = {}
    OBVIOUS
  <2>2. QED
    BY <1>1, <1>5, <2>1
<1>7. w.pc \in {"idle", "push"}
  BY DEF WorkPush, WorkIdle
<1>8. QED
  BY <1>1, <1>4, <1>5, <1>6, <1>7

\* A reconcile that pushes nothing.
LEMMA VersionsWork ==
  ASSUME TypeOK, Versions, NEW kind \in Kinds,
         UNCHANGED <<store, queue, bro, mirror>>,
         \A k \in Kinds \ {kind} : work'[k] = work[k],
         Newer(kind)',
         \A i \in DOMAIN work'[kind].evts : \A key \in Keys :
           /\ Kind(key) = kind /\ Exists(key) /\ work'[kind].evts[i].uid[1] = key
           => work'[kind].evts[i].data.ver <= store[key].ver
  PROVE  Versions'
<1>1. InOrder' /\ Fresh'
  BY DEF Versions, InOrder, Fresh, Sent, AtClient, Busy
<1>2. ASSUME NEW k \in Kinds, k # kind
      PROVE  Newer(k)'
  <2>1. Newer(k) /\ work'[k] = work[k]
    BY <1>2 DEF Versions
  <2>2. QED
    BY <2>1 DEF Newer, Reading, Upto, Sent, AtClient, Busy
<1>3. ASSUME NEW key \in Keys
      PROVE  Newest(key)'
  <2>1. Newest(key)
    BY DEF Versions
  <2>2. CASE Kind(key) # kind
    <3>1. work'[Kind(key)] = work[Kind(key)]
      BY <2>2, KindType
    <3>2. QED
      BY <2>1, <3>1 DEF Newest, Exists, Upto, Sent, AtClient, Busy
  <2>3. CASE Kind(key) = kind
    BY <2>1, <2>3 DEF Newest, Exists, Upto, Sent, AtClient, Busy
  <2>4. QED
    BY <2>2, <2>3
<1>4. QED
  BY <1>1, <1>2, <1>3 DEF Versions

\* An event moves from the worker to the queue.
LEMMA VersionsPushes ==
  ASSUME TypeOK, Lineage, Versions, NEW kind \in Kinds, Pushes(kind),
         UNCHANGED <<store, bro, mirror>>
  PROVE  Versions'
<1> DEFINE w == work[kind]
<1>1. PICK es \in Seq(Event), tl \in Seq(Event), evt \in Event :
        /\ es = w.evts /\ tl = Tail(es) /\ evt = es[1] /\ evt = Head(es) /\ 1 \in DOMAIN es
        /\ \A i \in DOMAIN tl : \E j \in DOMAIN es : tl[i] = es[j]
  <2>1. PICK es \in Seq(Event) : es = w.evts /\ es # <<>>
    BY WorkPhases DEF Pushes
  <2>2. /\ Head(es) = es[1] /\ Head(es) \in Event /\ 1 \in DOMAIN es
        /\ Tail(es) \in Seq(Event)
        /\ \A i \in DOMAIN Tail(es) : i + 1 \in DOMAIN es /\ Tail(es)[i] = es[i + 1]
    BY <2>1, Tailed
  <2>3. \A i \in DOMAIN Tail(es) : \E j \in DOMAIN es : Tail(es)[i] = es[j]
    BY <2>2
  <2>4. QED
    BY <2>1, <2>2, <2>3
<1>2. PICK key \in Keys : /\ key = w.key /\ Kind(key) = kind
                          /\ \A i \in DOMAIN es : es[i].uid[1] = key /\ es[i].data.ver \in Nat
  BY <1>1, WorkEvents
<1>3. /\ queue' = Append(queue, evt) /\ work'[kind].evts = tl
      /\ \A k \in Kinds \ {kind} : work'[k] = work[k]
      /\ work'[kind].pc \in {"idle", "push"}
      /\ \A i \in DOMAIN tl : work'[kind].key = key
  <2>1. work'[kind] = IF tl = <<>> THEN WorkIdle
                      ELSE [WorkIdle EXCEPT !.pc = "push", !.key = key, !.refs = w.refs,
                                            !.evts = tl]
    BY <1>1, <1>2 DEF Pushes, Moves
  <2>2. work'[kind].evts = tl /\ work'[kind].pc \in {"idle", "push"}
    BY <2>1 DEF WorkIdle
  <2>3. tl # <<>> => work'[kind].key = key
    BY <2>1 DEF WorkIdle
  <2>4. tl = <<>> => DOMAIN tl = {}
    OBVIOUS
  <2>5. QED
    BY <1>1, <2>2, <2>3, <2>4 DEF Pushes, Moves
<1>4. PICK n \in Nat : /\ DOMAIN queue = 1..n /\ DOMAIN queue' = 1..(n + 1)
                       /\ \A i \in 1..n : queue'[i] = queue[i] /\ queue[i].data.ver \in Nat
                       /\ queue'[n + 1] = evt
  <2>1. PICK q \in Seq(Event) : q = queue
    BY DEF TypeOK, BlockingChannelTypeOK
  <2>2. PICK q2 : q2 = queue' /\ q2 = Append(q, evt)
    BY <1>3, <2>1
  <2>3. Len(q) \in Nat /\ DOMAIN q = 1..Len(q) /\ \A i \in DOMAIN q : q[i] \in Event
    BY <2>1
  <2>4. \A i \in DOMAIN q : q[i].data.ver \in Nat
    BY <2>3 DEF Event, Data
  <2>5. /\ q2 \in Seq(Event) /\ Len(q2) = Len(q) + 1 /\ q2[Len(q) + 1] = evt
        /\ \A i \in DOMAIN q : q2[i] = q[i]
    BY <2>2, Appended
  <2>6. DOMAIN q2 = 1..Len(q2)
    BY <2>5
  <2>7. QED
    BY <2>1, <2>2, <2>3, <2>4, <2>5, <2>6
<1>5. \A i \in 1..(n + 1) : i \in 1..n \/ i = n + 1
  OBVIOUS
<1>6. ASSUME NEW k \in Keys, NEW v \in Nat
      PROVE  /\ Sent(k, v)' <=> Sent(k, v)
             /\ Upto(k, v) /\ (k = key => evt.data.ver <= v) => Upto(k, v)'
  <2>1. Sent(k, v)' <=> Sent(k, v)
    BY DEF Sent, AtClient, Busy
  <2>2. evt.uid[1] = key
    BY <1>1, <1>2
  <2>3. QED
    BY <1>4, <1>5, <2>1, <2>2 DEF Upto
<1>7. Newer(kind) /\ evt.data.ver \in Nat /\ evt.uid[1] = key
  BY <1>1, <1>2 DEF Versions
<1>8. Newer(kind)'
  <2>1. ASSUME NEW i \in DOMAIN tl, tl[i].type # "Delete"
        PROVE  /\ Upto(key, tl[i].data.ver)'
               /\ \A j \in DOMAIN tl : tl[j].data.ver <= tl[i].data.ver
    <3>1. PICK ii \in DOMAIN es : tl[i] = es[ii]
      BY <1>1
    <3>2. PICK v \in Nat : v = es[ii].data.ver
      BY <1>2
    <3>3. Upto(key, v) /\ \A j \in DOMAIN es : es[j].data.ver <= v
      BY <1>1, <1>2, <1>7, <2>1, <3>1, <3>2 DEF Newer
    <3>4. Upto(key, v)'
      BY <1>1, <1>6, <3>3
    <3>5. \A j \in DOMAIN tl : tl[j].data.ver <= v
      BY <1>1, <3>3
    <3>6. v = tl[i].data.ver
      BY <3>1, <3>2
    <3>7. QED
      BY <3>4, <3>5, <3>6 DEF Upto, Sent, AtClient, Busy
  <2>2. QED
    BY <1>3, <2>1 DEF Newer, Reading, Upto, Sent, AtClient, Busy
<1>9. ASSUME NEW k \in Kinds, k # kind
      PROVE  Newer(k)'
  <2>1. Newer(k) /\ work'[k] = work[k]
    BY <1>3, <1>9 DEF Versions
  <2>2. Reading(k) \/ DOMAIN work[k].evts # {} =>
          work[k].key \in Keys /\ Kind(work[k].key) = k
    BY WorkEvents, WorkPhases DEF Lineage, Job
  <2>3. Reading(k) => work[k].obj.ver \in Nat
    BY WorkPhases DEF Object
  <2>4. \A i \in DOMAIN work[k].evts : work[k].evts[i].data.ver \in Nat
    BY WorkEvents
  <2>5. SUFFICES ASSUME Reading(k) \/ DOMAIN work[k].evts # {}
                 PROVE  Newer(k)'
    BY <2>1 DEF Newer, Reading
  <2>6. PICK kk \in Keys : kk = work[k].key /\ kk # key
    BY <1>2, <1>9, <2>2, <2>5
  <2>7. \A v \in Nat : Upto(kk, v) => Upto(kk, v)'
    BY <1>6, <2>6
  <2>8. Reading(k) => Upto(work[k].key, work[k].obj.ver)'
    <3>1. SUFFICES ASSUME Reading(k) PROVE Upto(work[k].key, work[k].obj.ver)'
      OBVIOUS
    <3>2. PICK v \in Nat : v = work[k].obj.ver
      BY <2>3, <3>1
    <3>3. Upto(kk, v)'
      BY <2>1, <2>6, <2>7, <3>1, <3>2 DEF Newer
    <3>4. kk = work'[k].key /\ v = work'[k].obj.ver
      BY <2>1, <2>6, <3>2
    <3>5. QED
      BY <3>3, <3>4 DEF Upto, Sent, AtClient, Busy
  <2>9. ASSUME NEW i \in DOMAIN work[k].evts, work[k].evts[i].type # "Delete"
        PROVE  Upto(work[k].key, work[k].evts[i].data.ver)'
    <3>1. PICK v \in Nat : v = work[k].evts[i].data.ver
      BY <2>4
    <3>2. Upto(kk, v)'
      BY <2>1, <2>6, <2>7, <2>9, <3>1 DEF Newer
    <3>3. kk = work'[k].key /\ v = work'[k].evts[i].data.ver
      BY <2>1, <2>6, <3>1
    <3>4. QED
      BY <3>2, <3>3 DEF Upto, Sent, AtClient, Busy
  <2>10. QED
    BY <2>1, <2>8, <2>9 DEF Newer, Reading
<1>10. ASSUME NEW k \in Keys
       PROVE  Newest(k)'
  <2> SUFFICES ASSUME Exists(k)' PROVE Newest(k)'
    BY DEF Newest
  <2>1. Exists(k) /\ store' = store /\ Newest(k)
    BY DEF Exists, Versions
  <2>2. PICK v \in Nat : v = store[k].ver
    BY <2>1 DEF Exists, TypeOK, ClusterTypeOK, Object
  <2>3. /\ Upto(k, v)
        /\ \A i \in DOMAIN work[Kind(k)].evts :
             work[Kind(k)].evts[i].uid[1] = k => work[Kind(k)].evts[i].data.ver <= v
    BY <2>1, <2>2 DEF Newest
  <2>4. k = key => evt.data.ver <= v
    BY <1>1, <1>2, <2>3
  <2>5. Upto(k, v)'
    BY <1>6, <2>3, <2>4
  <2>6. \A i \in DOMAIN work'[Kind(k)].evts :
          work'[Kind(k)].evts[i].uid[1] = k => work'[Kind(k)].evts[i].data.ver <= v
    <3>1. CASE Kind(k) # kind
      <4>1. work'[Kind(k)] = work[Kind(k)]
        BY <1>3, <3>1, KindType
      <4>2. QED
        BY <2>3, <4>1
    <3>2. CASE Kind(k) = kind
      <4>1. \A j \in DOMAIN es : es[j].uid[1] = k => es[j].data.ver <= v
        BY <1>1, <2>3, <3>2
      <4>2. \A i \in DOMAIN tl : tl[i].uid[1] = k => tl[i].data.ver <= v
        <5> SUFFICES ASSUME NEW i \in DOMAIN tl, tl[i].uid[1] = k PROVE tl[i].data.ver <= v
          OBVIOUS
        <5>1. PICK j \in DOMAIN es : tl[i] = es[j]
          BY <1>1
        <5>2. QED
          BY <4>1, <5>1
      <4>3. QED
        BY <1>3, <3>2, <4>2
    <3>3. QED
      BY <3>1, <3>2
  <2>7. QED
    BY <2>1, <2>2, <2>5, <2>6 DEF Newest, Upto, Sent, AtClient, Busy
<1>11. InOrder'
  <2> SUFFICES ASSUME NEW i \in 1..(n + 1), queue'[i].type # "Delete"
               PROVE  /\ Sent(queue[i].uid[1], queue[i].data.ver)'
                      /\ \A j \in 1..(n + 1) :
                           j < i /\ queue'[j].uid[1] = queue'[i].uid[1] =>
                             queue'[j].data.ver <= queue'[i].data.ver
    BY <1>4 DEF InOrder
  <2>1. CASE i \in 1..n
    <3>1. queue'[i] = queue[i] /\ \A j \in 1..(n + 1) : j < i => j \in 1..n /\ queue'[j] = queue[j]
      BY <1>4, <2>1
    <3>2. QED
      BY <1>4, <2>1, <3>1 DEF Versions, InOrder, Sent, AtClient, Busy
  <2>2. CASE i = n + 1
    <3>1. queue'[i] = evt /\ \A j \in 1..(n + 1) : j < i => j \in 1..n /\ queue'[j] = queue[j]
      BY <1>4, <2>2
    <3>2. PICK v \in Nat : v = evt.data.ver
      BY <1>7
    <3>3. Upto(key, v)
      BY <1>1, <1>2, <1>7, <3>1, <3>2 DEF Newer
    <3>4. \A j \in 1..n : queue[j].uid[1] = key => queue[j].data.ver <= v
      BY <1>4, <3>3 DEF Upto
    <3>5. Sent(key, v)
      BY <3>3 DEF Upto
    <3>6. queue'[i].uid[1] = key /\ queue'[i].data.ver = v
      BY <1>7, <3>1, <3>2
    <3>7. QED
      BY <3>1, <3>4, <3>5, <3>6 DEF Sent, AtClient, Busy
  <2>3. QED
    BY <1>5, <2>1, <2>2
<1>12. Fresh'
  BY DEF Versions, Fresh, AtClient, Busy
<1>13. QED
  <2>1. \A k \in Kinds : Newer(k)'
    BY <1>8, <1>9
  <2>2. QED
    BY <1>10, <1>11, <1>12, <2>1 DEF Versions

\* The steps of a worker.
LEMMA VersionsReconcile ==
  ASSUME TypeOK, SubscriberLife, Lineage, Versions, NEW kind \in Kinds, Reconcile(kind)
  PROVE  Versions'
<1> DEFINE w == work[kind]
<1>1. UNCHANGED <<store, bro, mirror>>
  BY DEF Reconcile, broVars, WorkerStep, Get, ReadPodSubscribers, RefreshPod, NamespaceMissing,
     Requeue, ReadFails, ListRelatedPods, CollectNode, PushEvent, clusterVars
<1>2. Reading(kind) => /\ w.key \in Keys /\ w.obj.ver \in Nat /\ w \in WorkRead /\ w.evts = <<>>
                       /\ Older(w.key, w.obj) /\ Upto(w.key, w.obj.ver)
  BY WorkPhases DEF Object, Lineage, Job, Versions, Newer
<1>3. ASSUME NEW record, Moves(kind, record), UNCHANGED queue, DOMAIN record.evts = {},
             record.pc = "idle"
      PROVE  Versions'
  <2>1. work'[kind] = record /\ \A k \in Kinds \ {kind} : work'[k] = work[k]
    BY <1>3 DEF Moves
  <2>2. Newer(kind)'
    BY <1>3, <2>1 DEF Newer, Reading
  <2>3. QED
    BY <1>1, <1>3, <2>1, <2>2, VersionsWork
<1>4. CASE (kind = "Pod" /\ DropsPod) \/ GivesUp(kind)
  <2>1. Moves(kind, WorkIdle) /\ UNCHANGED queue
    BY <1>4 DEF DropsPod, GivesUp
  <2>2. DOMAIN WorkIdle.evts = {} /\ WorkIdle.pc = "idle"
    BY DEF WorkIdle
  <2>3. QED
    BY <1>3, <2>1, <2>2
<1>5. ASSUME NEW key \in Keys, NEW v \in Nat, UNCHANGED queue, Upto(key, v),
             work'[kind].key = key, work'[kind].obj.ver = v, DOMAIN work'[kind].evts = {},
             \A k \in Kinds \ {kind} : work'[k] = work[k]
      PROVE  Versions'
  <2>1. Upto(key, v)'
    BY <1>1, <1>5 DEF Upto, Sent, AtClient, Busy
  <2>2. Newer(kind)'
    BY <1>5, <2>1 DEF Newer, Upto, Sent, AtClient, Busy
  <2>3. QED
    BY <1>1, <1>5, <2>2, VersionsWork
<1>6. ASSUME NEW key \in Keys, Begins(kind, key)
      PROVE  Versions'
  <2>1. Exists(key) /\ UNCHANGED queue
    BY <1>6 DEF Begins
  <2>2. PICK v \in Nat : v = store[key].ver /\ Upto(key, v)
    BY <2>1 DEF TypeOK, ClusterTypeOK, Object, Exists, Versions, Newest
  <2>3. /\ work'[kind].key = key /\ work'[kind].obj = store[key] /\ DOMAIN work'[kind].evts = {}
        /\ \A k \in Kinds \ {kind} : work'[k] = work[k]
    BY <1>6 DEF Begins, Moves, WorkIdle
  <2>4. work'[kind].obj.ver = v
    BY <2>2, <2>3
  <2>5. QED
    BY <1>5, <2>1, <2>2, <2>3, <2>4
<1>7. ASSUME NEW subs \in SUBSET Subs, Continues(kind, subs)
      PROVE  Versions'
  <2>1. Reading(kind) /\ UNCHANGED queue
    BY <1>7 DEF Continues
  <2>2. PICK key \in Keys, v \in Nat : key = w.key /\ v = w.obj.ver /\ Upto(key, v)
    BY <1>2, <2>1
  <2>3. /\ work'[kind].key = w.key /\ work'[kind].obj = w.obj /\ work'[kind].evts = <<>>
        /\ \A k \in Kinds \ {kind} : work'[k] = work[k]
    BY <1>2, <1>7, <2>1 DEF Continues, Moves, WorkRead
  <2>4. work'[kind].key = key /\ work'[kind].obj.ver = v /\ DOMAIN work'[kind].evts = {}
    BY <2>2, <2>3
  <2>5. QED
    BY <1>5, <2>1, <2>2, <2>3, <2>4
<1>8. ASSUME NEW key \in Keys, NEW data \in Data, NEW subs \in SUBSET Subs,
             Settles(kind, key, data, subs),
             subs # {} => /\ Upto(key, data.ver)
                          /\ Exists(key) => data.ver <= store[key].ver
      PROVE  Versions'
  <2>1. /\ work'[kind].pc \in {"idle", "push"}
        /\ \A i \in DOMAIN work'[kind].evts :
              LET evt == work'[kind].evts[i] IN
              /\ work'[kind].key = key /\ evt.uid[1] = key
              /\ evt.type # "Delete" => evt.data.ver = data.ver /\ subs # {}
              /\ evt.type = "Delete" => evt.data.ver = 0
    BY <1>8, SettlesVersions
  <2>2. UNCHANGED queue /\ \A k \in Kinds \ {kind} : work'[k] = work[k]
    BY <1>8 DEF Settles, Moves
  <2>3. PICK v \in Nat : v = data.ver
    BY DEF Data
  <2>4. subs # {} => Upto(key, v)'
    BY <1>1, <1>8, <2>2, <2>3 DEF Upto, Sent, AtClient, Busy
  <2>5. ASSUME NEW i \in DOMAIN work'[kind].evts, work'[kind].evts[i].type # "Delete"
        PROVE  /\ Upto(work[kind].key, work[kind].evts[i].data.ver)'
               /\ \A j \in DOMAIN work'[kind].evts :
                    work'[kind].evts[j].data.ver <= work'[kind].evts[i].data.ver
    <3>1. work'[kind].key = key /\ work'[kind].evts[i].data.ver = v /\ Upto(key, v)'
      BY <2>1, <2>3, <2>4, <2>5
    <3>2. Upto(work[kind].key, work[kind].evts[i].data.ver)'
      BY <3>1 DEF Upto, Sent, AtClient, Busy
    <3>3. \A j \in DOMAIN work'[kind].evts : work'[kind].evts[j].data.ver \in {0, v}
      BY <2>1, <2>3
    <3>4. QED
      BY <3>1, <3>2, <3>3
  <2>6. Newer(kind)'
    BY <2>1, <2>5 DEF Newer, Reading
  <2>7. ASSUME NEW i \in DOMAIN work'[kind].evts, NEW k \in Keys, Exists(k),
               work'[kind].evts[i].uid[1] = k
        PROVE  work'[kind].evts[i].data.ver <= store[k].ver
    <3>1. k = key /\ store[k].ver \in Nat
      BY <2>1, <2>7 DEF TypeOK, ClusterTypeOK, Object, Exists
    <3>2. CASE work'[kind].evts[i].type # "Delete"
      BY <1>8, <2>1, <2>7, <3>1, <3>2
    <3>3. CASE work'[kind].evts[i].type = "Delete"
      BY <2>1, <3>1, <3>3
    <3>4. QED
      BY <3>2, <3>3
  <2>8. QED
    BY <1>1, <2>2, <2>6, <2>7, VersionsWork
<1>9. CASE \E key \in Keys : Settles(kind, key, NoData, {})
  <2>1. NoData \in Data
    BY DEF NoData, Data
  <2>2. QED
    BY <1>8, <1>9, <2>1
<1>10. ASSUME NEW data \in Data, NEW subs \in SUBSET Subs, Reading(kind), data.ver = w.obj.ver,
              Settles(kind, w.key, data, subs)
       PROVE  Versions'
  <2>1. PICK key \in Keys : key = w.key /\ Upto(key, data.ver) /\ Older(key, w.obj)
    BY <1>2, <1>10
  <2>2. Exists(key) => data.ver <= store[key].ver
    BY <1>10, <2>1 DEF Older
  <2>3. QED
    BY <1>8, <1>10, <2>1, <2>2
<1>11. CASE Pushes(kind)
  BY <1>1, <1>11, VersionsPushes
<1>12. QED
  BY <1>4, <1>6, <1>7, <1>9, <1>10, <1>11, ReconcileCases

\* The steps of the broker.
LEMMA VersionsBroker ==
  ASSUME TypeOK, Lineage, Versions, BrokerStep
  PROVE  Versions'
<1>1. UNCHANGED <<store, work>>
  BY DEF BrokerStep
<1>2. /\ Busy => bro.evt \in Event /\ bro.evt.uid[1] \in Keys /\ bro.evt.data.ver \in Nat
      /\ queue \in Seq(Event) /\ mirror \in [Subs -> SUBSET Item]
  BY DEF TypeOK, BrokerTypeOK, BroBusy, BroIdle, Busy, Event, Data, Uid, BlockingChannelTypeOK
<1>3. ASSUME \A key \in Keys, v \in Nat : Upto(key, v) => Upto(key, v)'
      PROVE  (\A key \in Keys : Newest(key)') /\ (\A kind \in Kinds : Newer(kind)')
  <2>1. ASSUME NEW key \in Keys
        PROVE  Newest(key)'
    <3>1. SUFFICES ASSUME Exists(key) PROVE Newest(key)'
      BY <1>1 DEF Newest, Exists
    <3>2. PICK v \in Nat : v = store[key].ver
      BY <3>1 DEF TypeOK, ClusterTypeOK, Object, Exists
    <3>3. Newest(key) /\ Upto(key, v)'
      BY <1>3, <3>1, <3>2 DEF Versions, Newest
    <3>4. QED
      BY <1>1, <3>1, <3>2, <3>3 DEF Newest, Upto, Sent, AtClient, Busy
  <2>2. ASSUME NEW kind \in Kinds
        PROVE  Newer(kind)'
    <3>1. Newer(kind) /\ work'[kind] = work[kind]
      BY <1>1 DEF Versions
    <3>2. ASSUME Reading(kind)
          PROVE  Upto(work[kind].key, work[kind].obj.ver)'
      <4>1. PICK key \in Keys, v \in Nat : key = work[kind].key /\ v = work[kind].obj.ver
        BY <3>2, WorkPhases DEF Object
      <4>2. Upto(key, v)'
        BY <1>3, <3>1, <3>2, <4>1 DEF Newer
      <4>3. QED
        BY <3>1, <4>1, <4>2 DEF Upto, Sent, AtClient, Busy
    <3>3. ASSUME NEW i \in DOMAIN work[kind].evts, work[kind].evts[i].type # "Delete"
          PROVE  Upto(work[kind].key, work[kind].evts[i].data.ver)'
      <4>1. PICK key \in Keys, v \in Nat : key = work[kind].key /\ v = work[kind].evts[i].data.ver
        BY WorkEvents
      <4>2. Upto(key, v)'
        BY <1>3, <3>1, <3>3, <4>1 DEF Newer
      <4>3. QED
        BY <3>1, <4>1, <4>2 DEF Upto, Sent, AtClient, Busy
    <3>4. QED
      BY <3>1, <3>2, <3>3 DEF Newer, Reading
  <2>3. QED
    BY <2>1, <2>2
<1>4. CASE Takes
  <2>1. PICK q \in Seq(Event) : q = queue /\ q # <<>>
    BY <1>2, <1>4 DEF Takes
  <2>2. PICK q2, evt : q2 = Tail(q) /\ evt = q[1] /\ evt = Head(q) /\ 1 \in DOMAIN q
    BY <2>1, Tailed
  <2>3. \A i \in DOMAIN q2 : i \in Nat /\ i > 0 /\ i + 1 \in DOMAIN q /\ q2[i] = q[i + 1]
    BY <2>1, <2>2, Tailed
  <2>4. \A i \in DOMAIN q : q[i].uid[1] \in Keys /\ q[i].data.ver \in Nat
    <3>1. \A i \in DOMAIN q : q[i] \in Event
      BY <2>1
    <3>2. QED
      BY <3>1 DEF Event, Data, Uid
  <2>5. queue' = q2 /\ mirror' = mirror /\ (Busy' => bro'.evt = evt)
    BY <1>4, <2>1, <2>2 DEF Takes
  <2>6. ASSUME NEW key \in Keys, NEW v \in Nat
        PROVE  /\ AtClient(key, v)' <=> AtClient(key, v)
               /\ AtClient(key, v) /\ (evt.uid[1] = key => evt.data.ver <= v) => Sent(key, v)'
    <3>1. AtClient(key, v)' <=> AtClient(key, v)
      BY <2>5 DEF AtClient
    <3>2. QED
      BY <2>5, <3>1 DEF Sent
  <2>7. ASSUME NEW key \in Keys, NEW v \in Nat, Upto(key, v)
        PROVE  Upto(key, v)'
    <3>1. \A i \in DOMAIN q : q[i].uid[1] = key => q[i].data.ver <= v
      BY <2>1, <2>7 DEF Upto
    <3>2. Sent(key, v)'
      BY <2>2, <2>6, <2>7, <3>1 DEF Upto, Sent
    <3>3. \A i \in DOMAIN q2 : q2[i].uid[1] = key => q2[i].data.ver <= v
      BY <2>3, <3>1
    <3>4. QED
      BY <2>5, <3>2, <3>3 DEF Upto
  <2>8. ASSUME NEW i \in DOMAIN q, q[i].type # "Delete"
        PROVE  /\ AtClient(q[i].uid[1], q[i].data.ver)
               /\ \A j \in DOMAIN q : j < i /\ q[j].uid[1] = q[i].uid[1] =>
                    q[j].data.ver <= q[i].data.ver
    BY <2>1, <2>8 DEF Versions, InOrder, Sent
  <2>9. ASSUME NEW i \in DOMAIN q2, q2[i].type # "Delete"
        PROVE  /\ Sent(q2[i].uid[1], q2[i].data.ver)'
               /\ \A j \in DOMAIN q2 : j < i /\ q2[j].uid[1] = q2[i].uid[1] =>
                    q2[j].data.ver <= q2[i].data.ver
    <3>1. PICK ii \in DOMAIN q : ii = i + 1 /\ q2[i] = q[ii] /\ 1 < ii /\ i \in Nat
      BY <2>3
    <3>2. PICK key \in Keys, v \in Nat : key = q[ii].uid[1] /\ v = q[ii].data.ver
      BY <2>4
    <3>3. AtClient(key, v) /\ \A j \in DOMAIN q : j < ii /\ q[j].uid[1] = key => q[j].data.ver <= v
      BY <2>8, <2>9, <3>1, <3>2
    <3>4. Sent(key, v)'
      BY <2>2, <2>6, <3>1, <3>3
    <3>5. key = q2[i].uid[1] /\ v = q2[i].data.ver
      BY <3>1, <3>2
    <3>6. ASSUME NEW j \in DOMAIN q2, j < i, q2[j].uid[1] = key
          PROVE  q2[j].data.ver <= v
      <4>1. j + 1 \in DOMAIN q /\ j + 1 < ii /\ q2[j] = q[j + 1]
        BY <2>3, <3>1, <3>6
      <4>2. QED
        BY <3>3, <3>6, <4>1
    <3>7. QED
      BY <3>4, <3>5, <3>6 DEF Sent, AtClient, Busy
  <2>10. InOrder'
    BY <2>5, <2>9 DEF InOrder, Sent, AtClient, Busy
  <2>11. Fresh'
    <3>1. SUFFICES ASSUME Busy', evt.type # "Delete"
                   PROVE  AtClient(evt.uid[1], evt.data.ver)
      BY <2>5 DEF Fresh, AtClient
    <3>2. QED
      BY <2>2, <2>8, <3>1
  <2>12. QED
    BY <1>3, <2>7, <2>10, <2>11 DEF Versions
<1>5. ASSUME UNCHANGED queue, Busy, Busy' => bro'.evt = bro.evt,
             \A sub \in Subs : \A item \in mirror'[sub] :
               \/ item \in mirror[sub]
               \/ item.uid = bro.evt.uid /\ item.data = bro.evt.data
      PROVE  Versions'
  <2>1. PICK evt \in Event : /\ evt = bro.evt
                             /\ evt.uid[1] \in Keys /\ evt.data.ver \in Nat
    BY <1>2, <1>5
  <2>2. ASSUME NEW key \in Keys, NEW v \in Nat, AtClient(key, v),
               evt.uid[1] = key => evt.data.ver <= v
        PROVE  Sent(key, v)'
    BY <1>5, <2>1, <2>2 DEF Sent, AtClient
  <2>3. ASSUME NEW key \in Keys, NEW v \in Nat, Sent(key, v)
        PROVE  Sent(key, v)'
    BY <1>5, <2>1, <2>2, <2>3 DEF Sent
  <2>4. \A key \in Keys, v \in Nat : Upto(key, v) => Upto(key, v)'
    BY <1>5, <2>3 DEF Upto
  <2>5. InOrder'
    <3> SUFFICES ASSUME NEW i \in DOMAIN queue, queue[i].type # "Delete"
                 PROVE  Sent(queue[i].uid[1], queue[i].data.ver)'
      BY <1>5 DEF Versions, InOrder, Sent, AtClient, Busy
    <3>1. queue[i] \in Event
      BY <1>2
    <3>2. PICK key \in Keys, v \in Nat : key = queue[i].uid[1] /\ v = queue[i].data.ver
      BY <3>1 DEF Event, Data, Uid
    <3>3. Sent(key, v)'
      BY <2>3, <3>2 DEF Versions, InOrder
    <3>4. QED
      BY <1>5, <3>2, <3>3 DEF Sent, AtClient, Busy
  <2>6. Fresh'
    <3>1. SUFFICES ASSUME Busy', bro'.evt.type # "Delete" PROVE Fresh'
      BY DEF Fresh
    <3>2. bro'.evt = evt
      BY <1>5, <2>1, <3>1
    <3>3. PICK key \in Keys, v \in Nat : key = evt.uid[1] /\ v = evt.data.ver
      BY <2>1
    <3>4. AtClient(key, v)
      BY <1>5, <2>1, <3>1, <3>2, <3>3 DEF Versions, Fresh
    <3>5. Sent(key, v)'
      BY <2>2, <3>3, <3>4
    <3>6. QED
      BY <3>2, <3>3, <3>5 DEF Fresh, Sent, AtClient
  <2>7. QED
    BY <1>3, <2>4, <2>5, <2>6 DEF Versions
<1>6. ASSUME NEW sub \in Subs, LooksUp(sub)
      PROVE  Versions'
  BY <1>5, <1>6 DEF LooksUp, Busy
<1>7. ASSUME NEW sub \in Subs, Served(sub)
      PROVE  Busy /\ UNCHANGED queue /\ (Busy' => bro'.evt = bro.evt)
  BY <1>7, KeysAssumption DEF Served, Busy
<1>8. ASSUME NEW sub \in Subs, Misses(sub)
      PROVE  Versions'
  BY <1>5, <1>7, <1>8 DEF Misses
<1>9. ASSUME NEW sub \in Subs, Sends(sub)
      PROVE  Versions'
  <2>1. Busy /\ UNCHANGED queue /\ (Busy' => bro'.evt = bro.evt)
    BY <1>7, <1>9 DEF Sends
  <2>2. PICK evt \in Event, items \in SUBSET Item, new \in {mirror'[sub]} :
          evt = bro.evt /\ items = mirror[sub] /\ new = mirror'[sub] /\ new = Apply(items, evt)
    BY <1>2, <1>9, <2>1 DEF Sends
  <2>3. \A item \in new : item \in items \/ (item.uid = evt.uid /\ item.data = evt.data)
    BY <2>2, Applied
  <2>4. \A s \in Subs \ {sub} : mirror'[s] = mirror[s]
    BY <1>2, <1>9 DEF Sends
  <2>5. \A s \in Subs : \A item \in mirror'[s] :
          item \in mirror[s] \/ (item.uid = bro.evt.uid /\ item.data = bro.evt.data)
    BY <2>2, <2>3, <2>4
  <2>6. QED
    BY <1>5, <2>1, <2>5
<1>10. QED
  BY <1>4, <1>6, <1>8, <1>9, BrokerCases

\* Nothing is on its way at the start.
LEMMA VersionsInit == Init => Versions
<1> SUFFICES ASSUME Init PROVE Versions
  OBVIOUS
<1>1. /\ \A sub \in Subs : mirror[sub] = {}
      /\ bro = BroIdle /\ DOMAIN queue = {}
      /\ \A kind \in Kinds : work[kind] = WorkIdle
  BY DEF Init, BrokerInit, BlockingChannelInit, CollectorsInit
<1>2. ~Busy /\ DOMAIN WorkIdle.evts = {} /\ WorkIdle.pc = "idle"
  BY <1>1 DEF Busy, BroIdle, WorkIdle
<1>3. \A key \in Keys : \A v : Upto(key, v)
  BY <1>1, <1>2 DEF Upto, Sent, AtClient
<1>4. \A key \in Keys : Newest(key)
  BY <1>1, <1>2, <1>3, KindType DEF Newest
<1>5. \A kind \in Kinds : Newer(kind)
  BY <1>1, <1>2 DEF Newer, Reading
<1>6. InOrder /\ Fresh
  BY <1>1, <1>2 DEF InOrder, Fresh
<1>7. QED
  BY <1>4, <1>5, <1>6 DEF Versions

\* No step breaks the order of the versions.
LEMMA VersionsStep ==
  ASSUME NoReuse, TypeOK, SubscriberLife, Lineage, Versions, [Next]_vars
  PROVE  Versions'
<1>1. CASE BrokerStep
  BY <1>1, VersionsBroker
<1>2. CASE \E kind \in Kinds : Reconcile(kind)
  BY <1>2, VersionsReconcile
<1>3. CASE UNCHANGED <<work, queue, bro, mirror>>
  BY <1>3, VersionsSame
<1>4. QED
  BY <1>1, <1>2, <1>3 DEF Next, ClusterStep, SliceChanges, DispatchSlices, DeliverTrigger,
     Dispatch, StartWatch, EndStream, LeaveWatch, Notify, vars, broVars

-----------------------------------------------------------------------------
(***************************************************************************)
(* The refinement: what the clients see of a step.                         *)
(***************************************************************************)

\* The state of the feed, as Metacollector maps it.
Sending == IF bro.con = None THEN None
           ELSE [sub |-> bro.con, type |-> bro.evt.type,
                 item |-> [uid |-> bro.evt.uid, data |-> bro.evt.data]]

Lost == {sub \in Subs : watch[sub].phase # "new" /\ ~Healthy(sub)}

\* What a step leaves alone.
LEMMA FeedUntouched ==
  /\ UNCHANGED bro => Sending' = Sending
  /\ UNCHANGED watchVars => Lost' = Lost
<1>1. UNCHANGED bro => Sending' = Sending
  BY DEF Sending
<1>2. UNCHANGED watchVars => Lost' = Lost
  BY DEF Lost, Healthy, watchVars
<1>3. QED
  BY <1>1, <1>2

\* The cluster changes as the feed allows.
LEMMA WorldStep ==
  ASSUME NoReuse, TypeOK, Lineage, [Next]_vars
  PROVE  \A key \in Keys : Feed!Later(store[key], store'[key])
<1> SUFFICES ASSUME NEW key \in Keys, Exists(key), Exists(key)'
             PROVE  Feed!Later(store[key], store'[key])
  BY DEF Feed!Later, Exists
<1>1. Ages(key)
  BY AgesStep DEF Lineage
<1>2. store[key].ver \in Nat
  BY DEF TypeOK, ClusterTypeOK, Object, Exists
<1>3. QED
  BY <1>1, <1>2 DEF Ages, Feed!Later

\* A handler that starts, works or leaves.
LEMMA HandlerStep ==
  ASSUME TypeOK, SubscriberLife, Lineage, NEW sub \in Subs,
         StartWatch(sub) \/ EndStream(sub) \/ LeaveWatch(sub) \/ \E kind \in Kinds : Notify(sub, kind)
  PROVE  Lost' = Lost \/ Lost' = Lost \cup {sub}
<1>1. watch \in [Subs -> WatchState]
  BY DEF TypeOK, WatchTypeOK
<1>2. CASE StartWatch(sub)
  <2>1. sub \notin ended \cup closed
    BY <1>2 DEF Lineage, Unused, StartWatch, Watch
  <2>2. QED
    BY <1>1, <1>2, <2>1 DEF StartWatch, Watch, Lost, Healthy
<1>3. CASE EndStream(sub)
  BY <1>3 DEF EndStream, StreamEnds, Lost, Healthy
<1>4. CASE LeaveWatch(sub)
  <2>1. Leave(sub) /\ UNCHANGED <<ended, closed>>
    BY <1>4 DEF LeaveWatch, LeaveOnStreamEnd, LeaveOnError
  <2>2. QED
    BY <1>1, <2>1 DEF Leave, Lost, Healthy
<1>5. CASE \E kind \in Kinds : Notify(sub, kind)
  <2>1. \A s \in Subs : watch'[s].phase = watch[s].phase
    BY <1>1, <1>5 DEF Notify, NotifyCollector, WatchState
  <2>2. UNCHANGED <<conns, ended, closed>>
    BY <1>5 DEF Notify, NotifyCollector
  <2>3. QED
    BY <2>1, <2>2 DEF Lost, Healthy
<1>6. QED
  BY <1>2, <1>3, <1>4, <1>5

\* A client gets a message: one that makes sense, if no message was lost.
LEMMA SendStep ==
  ASSUME TypeOK, Lineage, Flow, Versions, NEW sub \in Subs, Sends(sub), UNCHANGED store
  PROVE  Feed!FeedNext
<1>1. Busy /\ sub # None /\ mirror \in [Subs -> SUBSET Item]
  BY KeysAssumption DEF Sends, Served, Busy, TypeOK, BrokerTypeOK
<1>2. PICK evt \in Event, items \in SUBSET Item, new \in {mirror'[sub]} :
        evt = bro.evt /\ items = mirror[sub] /\ new = mirror'[sub] /\ new = Apply(items, evt)
  BY <1>1 DEF Sends, TypeOK, BrokerTypeOK, BroBusy, BroIdle, Busy
<1>3. PICK item : item = [uid |-> evt.uid, data |-> evt.data]
  OBVIOUS
<1>4. item \in Item /\ item.uid = evt.uid /\ item.data = evt.data
  BY <1>3 DEF Item, Event
<1>5. /\ Sending # None /\ Sending.sub = sub /\ Sending.type = evt.type /\ Sending.item = item
      /\ Sending' = None
  <2>1. bro.con = sub /\ bro'.con = None
    BY DEF Sends, Served
  <2>2. Sending = [sub |-> sub, type |-> evt.type, item |-> item]
    BY <1>1, <1>2, <1>3, <2>1 DEF Sending
  <2>3. [sub |-> sub, type |-> evt.type, item |-> item] # None
    <3>1. [sub |-> sub, type |-> evt.type, item |-> item]
            \in [sub : Subs, type : EventType, item : Item]
      BY <1>4 DEF Event
    <3>2. QED
      BY <3>1, NoneAssumption
  <2>4. QED
    BY <2>1, <2>2, <2>3 DEF Sending
<1>6. Lost' = Lost
  BY DEF Sends, Served, Lost, Healthy
<1>7. mirror' = [mirror EXCEPT ![sub] = new]
  BY <1>2 DEF Sends
<1>8. Feed!Receives(sub, new)
  BY <1>5, <1>6, <1>7 DEF Feed!Receives, Sending, Lost
<1>9. Sound(evt) /\ Fits(evt.uid[1], sub) /\ evt.uid[1] \in Keys
  BY <1>1, <1>2 DEF Lineage, InHand, Sound, Sends, Served, Event, Uid
<1>10. CASE ~Healthy(sub)
  <2>1. sub \in Lost
    BY <1>9, <1>10 DEF Lost, Fits
  <2>2. Feed!Unreliable(sub)
    BY <1>2, <1>8, <2>1 DEF Feed!Unreliable, Lost
  <2>3. QED
    BY <2>2 DEF Feed!FeedNext
<1>11. CASE Healthy(sub)
  <2>1. evt.type = "Create" <=> \A old \in items : old.uid # evt.uid
    <3>1. StreamProtocol
      BY FlowProtocol
    <3>2. QED
      BY <1>2, <1>11, <3>1 DEF StreamProtocol, Known, Sends, Served
  <2>2. \A old, other \in items : old.uid = other.uid => old = other
    BY <1>2 DEF Lineage, Items
  <2>3. evt.type # "Delete" => Feed!Deserved(sub, item)
    <3>1. PICK key \in Keys : key = evt.uid[1] /\ Fits(key, sub)
      BY <1>9
    <3>2. Exists(key) => evt.data.ver <= store[key].ver
      BY <1>1, <1>2, <3>1 DEF Versions, Newest, Upto, Sent
    <3>3. QED
      BY <1>4, <3>1, <3>2 DEF Feed!Deserved, Feed!Kind, Kind, Fits, Exists
  <2>4. evt.type # "Delete" => \A old \in items : old.uid = evt.uid => old.data.ver <= evt.data.ver
    BY <1>1, <1>2 DEF Versions, Fresh, AtClient
  <2>5. CASE evt.type = "Create"
    <3>1. new = items \cup {item}
      BY <1>2, <1>3, <2>1, <2>5 DEF Apply
    <3>2. Feed!Announce(sub, item)
      BY <1>2, <1>4, <1>5, <1>8, <2>1, <2>3, <2>5, <3>1 DEF Feed!Announce, Sending
    <3>3. QED
      BY <1>5, <3>2 DEF Feed!FeedNext, Feed!Deliver, Sending
  <2>6. CASE evt.type # "Create"
    <3>1. PICK old \in items : old.uid = evt.uid
      BY <2>1, <2>6
    <3>2. {i \in items : i.uid # evt.uid} = items \ {old}
      BY <2>2, <3>1
    <3>3. CASE evt.type = "Update"
      <4>1. new = (items \ {old}) \cup {item}
        BY <1>2, <1>3, <3>2, <3>3 DEF Apply
      <4>2. Feed!Revise(sub, old, item)
        BY <1>2, <1>4, <1>5, <1>8, <2>3, <2>4, <3>1, <3>3, <4>1 DEF Feed!Revise, Sending
      <4>3. QED
        BY <1>2, <1>5, <4>2 DEF Feed!FeedNext, Feed!Deliver, Sending
    <3>4. CASE evt.type = "Delete"
      <4>1. new = items \ {old}
        BY <1>2, <3>2, <3>4 DEF Apply
      <4>2. Feed!Retract(sub, old)
        BY <1>2, <1>4, <1>5, <1>8, <3>1, <3>4, <4>1 DEF Feed!Retract, Sending
      <4>3. QED
        BY <1>2, <1>5, <4>2 DEF Feed!FeedNext, Feed!Deliver, Sending
    <3>5. QED
      BY <2>6, <3>3, <3>4 DEF Event, EventType
  <2>7. QED
    BY <2>5, <2>6
<1>12. QED
  BY <1>10, <1>11

\* A message is lost, and its connection closed.
LEMMA MissStep ==
  ASSUME TypeOK, Lineage, NEW sub \in Subs, Misses(sub), UNCHANGED store
  PROVE  Feed!FeedNext
<1>1. Busy /\ sub # None /\ bro.con = sub /\ bro'.con = None
  BY KeysAssumption DEF Misses, Served, Busy
<1>2. PICK evt \in Event : evt = bro.evt
  BY <1>1 DEF TypeOK, BrokerTypeOK, BroBusy, BroIdle, Busy
<1>3. Sending # None /\ Sending.sub = sub /\ Sending' = None
  <2>1. PICK item \in Item : item = [uid |-> evt.uid, data |-> evt.data]
    BY DEF Item, Event
  <2>2. Sending = [sub |-> sub, type |-> evt.type, item |-> item]
    BY <1>1, <1>2, <2>1 DEF Sending
  <2>3. [sub |-> sub, type |-> evt.type, item |-> item]
          \in [sub : Subs, type : EventType, item : Item]
    BY DEF Event
  <2>4. QED
    BY <1>1, <2>2, <2>3, NoneAssumption DEF Sending
<1>4. watch[sub].phase # "new"
  BY <1>1 DEF Lineage, InHand, Sound, Fits
<1>5. Lost' = Lost \cup {sub}
  BY <1>4 DEF Misses, Served, Lost, Healthy
<1>6. Feed!Loses(sub)
  BY <1>3, <1>5 DEF Feed!Loses, Misses, Sending, Lost
<1>7. QED
  BY <1>6 DEF Feed!FeedNext

\* Every step of the collector is one of the feed, or none.
LEMMA FeedStep ==
  ASSUME NoReuse, TypeOK, SubscriberLife, Lineage, Flow, Versions, [Next]_vars
  PROVE  [Feed!FeedNext]_Feed!feedVars
<1>1. CASE ClusterStep
  <2>1. UNCHANGED <<mirror, bro, watchVars>>
    BY <1>1 DEF ClusterStep, broVars
  <2>2. Feed!WorldChanges
    <3>1. \A key \in Keys : Feed!Later(store[key], store'[key])
      BY WorldStep
    <3>2. mirror' = mirror /\ Sending' = Sending /\ Lost' = Lost
      BY <2>1, FeedUntouched
    <3>3. QED
      BY <3>1, <3>2 DEF Feed!WorldChanges, Feed!Keys, Keys, Sending, Lost
  <2>3. QED
    BY <2>2 DEF Feed!FeedNext
<1>2. ASSUME UNCHANGED <<store, mirror, bro, watchVars>>
      PROVE  UNCHANGED Feed!feedVars
  BY <1>2, FeedUntouched DEF Feed!feedVars, Sending, Lost
<1>3. CASE \/ SliceChanges \/ DispatchSlices
           \/ \E key \in Keys : DeliverTrigger(key)
           \/ \E kind \in Kinds : Dispatch(kind) \/ Reconcile(kind)
           \/ UNCHANGED vars
  <2>1. UNCHANGED <<mirror, bro, watchVars>>
    BY <1>3 DEF SliceChanges, DispatchSlices, DeliverTrigger, Dispatch, Reconcile, vars, broVars
  <2>2. UNCHANGED store
    <3>1. ASSUME NEW kind \in Kinds, Reconcile(kind)
          PROVE  UNCHANGED store
      BY <3>1 DEF Reconcile, WorkerStep, Get, ReadPodSubscribers, RefreshPod, NamespaceMissing,
         Requeue, ReadFails, ListRelatedPods, CollectNode, PushEvent, clusterVars
    <3>2. ASSUME NEW kind \in Kinds, Dispatch(kind)
          PROVE  UNCHANGED store
      BY <3>2 DEF Dispatch, DispatcherStep, UpdateRegistry, ListPods, ListPodsFails, DispatchPod,
         DispatchPodFails, clusterVars
    <3>3. CASE SliceChanges \/ DispatchSlices
      BY <3>3 DEF SliceChanges, ChangeSlice, DispatchSlices, SliceStep, ReconcileSlice,
         TriggerPod, TriggerService, clusterVars
    <3>4. QED
      BY <1>3, <3>1, <3>2, <3>3 DEF DeliverTrigger, vars, clusterVars
  <2>3. QED
    BY <1>2, <2>1, <2>2
<1>4. ASSUME NEW sub \in Subs,
             StartWatch(sub) \/ EndStream(sub) \/ LeaveWatch(sub)
               \/ \E kind \in Kinds : Notify(sub, kind)
      PROVE  [Feed!FeedNext]_Feed!feedVars
  <2>1. UNCHANGED <<store, mirror, bro>>
    BY <1>4 DEF StartWatch, EndStream, LeaveWatch, Notify, clusterVars, broVars
  <2>2. CASE Lost' = Lost
    BY <2>1, <2>2, FeedUntouched DEF Feed!feedVars, Sending, Lost
  <2>3. CASE Lost' = Lost \cup {sub}
    <3>1. Feed!Loses(sub)
      BY <2>1, <2>3, FeedUntouched DEF Feed!Loses, Sending, Lost
    <3>2. QED
      BY <3>1 DEF Feed!FeedNext
  <2>4. QED
    BY <1>4, <2>2, <2>3, HandlerStep
<1>5. CASE BrokerStep
  <2>1. UNCHANGED store
    BY <1>5 DEF BrokerStep
  <2>2. CASE Takes
    <3>1. bro.con = None /\ bro'.con = None /\ UNCHANGED <<mirror, watchVars>>
      BY <2>2 DEF Takes, Busy
    <3>2. Sending' = Sending
      BY <3>1 DEF Sending
    <3>3. QED
      BY <2>1, <3>1, <3>2, FeedUntouched DEF Feed!feedVars, Sending, Lost
  <2>3. ASSUME NEW sub \in Subs, LooksUp(sub)
        PROVE  Feed!FeedNext
    <3>1. bro.con = None /\ bro'.con \in {sub, None} /\ UNCHANGED <<mirror, watchVars>>
      BY <2>3 DEF LooksUp
    <3>2. Sending = None /\ (Sending' # None => Sending'.sub = sub)
      BY <3>1 DEF Sending
    <3>3. Feed!Choose(sub)
      BY <2>1, <3>1, <3>2, FeedUntouched DEF Feed!Choose, Sending, Lost
    <3>4. QED
      BY <3>3 DEF Feed!FeedNext
  <2>4. QED
    BY <1>5, <2>1, <2>2, <2>3, SendStep, MissStep, BrokerCases
<1>6. QED
  BY <1>1, <1>3, <1>4, <1>5, <1>2 DEF Next

\* The feed starts empty.
LEMMA FeedStart == Init => Feed!FeedInit
<1> SUFFICES ASSUME Init PROVE Feed!FeedInit
  OBVIOUS
<1>1. store \in [Keys -> Object \cup {None}] /\ mirror = [s \in Subs |-> {}]
  BY InitType DEF TypeOK, ClusterTypeOK, Init, BrokerInit
<1>2. Sending = None
  BY DEF Sending, Init, BrokerInit, BroIdle
<1>3. Lost = {}
  BY DEF Lost, Init, WatchInit
<1>4. QED
  BY <1>1, <1>2, <1>3 DEF Feed!FeedInit, Feed!Keys, Keys, Feed!Object, Object, Sending, Lost

\* The collector implements the feed, for any number of nodes, resources,
\* clients and versions, as long as no name is used again: until a message
\* to it is lost, a client gets Creates of resources it selected and does
\* not know, Updates of those it knows to versions that never go back, and
\* Deletes of what it knows; nothing it gets is newer than the object.
THEOREM CollectorImplementsFeed ==
  ASSUME NoReuse
  PROVE  Spec => ImplementsFeed
<1> DEFINE Inv == TypeOK /\ SubscriberLife /\ Lineage /\ Flow /\ Versions
<1>1. Init => Inv
  <2>1. Init => Flow
    BY DEF Init, WatchInit, Flow, Healthy
  <2>2. QED
    BY <2>1, InitType, LifeInit, LineageInit, VersionsInit
<1>2. Inv /\ [Next]_vars => Inv'
  BY StepType, LifeStep, LineageStep, FlowStep, VersionsStep
<1>3. Inv /\ [Next]_vars => [Feed!FeedNext]_Feed!feedVars
  BY FeedStep
<1>4. Spec => Feed!FeedInit /\ [][Feed!FeedNext]_Feed!feedVars
  BY <1>1, <1>2, <1>3, FeedStart, PTL DEF Spec
<1>5. QED
  BY <1>4 DEF ImplementsFeed, Feed!FeedSpec
=============================================================================
