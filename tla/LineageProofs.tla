---------------------------- MODULE LineageProofs ----------------------------
(***************************************************************************)
(* Where the events come from: what the objects the workers hold, the      *)
(* entries of the caches, the events on their way and the resources the    *)
(* clients know have to do with the stores, the registries and the Watch   *)
(* calls, as long as no name is used again.  The other proofs about the    *)
(* streams rest on it.                                                     *)
(***************************************************************************)
EXTENDS MetacollectorProofs

\* No object is created under the name of a deleted one: the cache keeps the
\* UID of the first one, and the streams make no sense then (run reuse_stream).
NoReuse == \A key \in Keys : MaxInc[key] <= 1

\* The worker of the kind holds an object and looks for its subscribers.
Reading(kind) == work[kind].pc \in {"subs", "refs", "list", "nodes"}

\* The broker has an event in hand.
Busy == bro.todo # {} \/ bro.con # None

-----------------------------------------------------------------------------
(***************************************************************************)
(* The invariant, in parts.                                                *)
(***************************************************************************)

\* Every object is the first one of its name.
Births ==
  \A key \in Keys :
    /\ born[key] \in {0, 1}
    /\ Exists(key) => store[key].inc = 1 /\ born[key] = 1

\* What stays true of a subscriber that an event about key was meant for.
Fits(key, sub) ==
  /\ born[key] = 1
  /\ watch[sub].phase # "new"
  /\ Kind(key) \in KindsOf[sub]
  /\ key \in Pods /\ Exists(key) => store[key].node = NodeOf[sub]

\* The collector of key has registered sub, and keeps it until sub leaves.
Registered(key, sub) ==
  sub \in registry[Kind(key)][NodeOf[sub]] \/ watch[sub].phase = "left"

\* obj is the object of key, as it was some time ago.
Older(key, obj) ==
  /\ obj.inc = 1 /\ born[key] = 1
  /\ Exists(key) => /\ obj.ver <= store[key].ver
                    /\ obj.node # None => store[key].node = obj.node

\* The subscribers of a cache entry are or were registered.
Entry(key) ==
  Cached(key) => /\ cache[key].uid = <<key, 1>>
                 /\ \A sub \in cache[key].subs : Fits(key, sub) /\ Registered(key, sub)

\* A pod stays on its node: the subscribers of its entry, and the ones just
\* read, are those of the node of the object that the worker holds.
Job(kind) ==
  LET w == work[kind] IN
  Reading(kind) =>
    /\ Kind(w.key) = kind
    /\ Older(w.key, w.obj)
    /\ \A sub \in w.subs : Fits(w.key, sub) /\ Registered(w.key, sub)
    /\ kind = "Pod" =>
         /\ \A sub \in w.subs : w.obj.node = NodeOf[sub]
         /\ Cached(w.key) => \A sub \in cache[w.key].subs : w.obj.node = NodeOf[sub]

\* An event is about the first object of its name and was meant for its
\* subscribers.
Sound(evt) ==
  /\ evt.uid[2] = 1 /\ born[evt.uid[1]] = 1
  /\ \A sub \in evt.subs : Fits(evt.uid[1], sub)

\* The events of one reconcile are about one name, and no subscriber gets two
\* of them.
Batch(kind) ==
  LET w == work[kind] IN
  /\ w.pc = "push" => Kind(w.key) = kind
  /\ \A i \in DOMAIN w.evts : Sound(w.evts[i]) /\ w.evts[i].uid[1] = w.key
  /\ \A i, j \in DOMAIN w.evts : i # j => w.evts[i].subs \cap w.evts[j].subs = {}

Queued == \A i \in DOMAIN queue : Sound(queue[i])

\* A subscriber whose connection is held is not looked up again.
InHand ==
  Busy => /\ Sound(bro.evt)
          /\ bro.todo \subseteq bro.evt.subs
          /\ bro.con # None => bro.con \in bro.evt.subs \ bro.todo

\* A client keeps one version of each resource.
Items(sub) ==
  \A item \in mirror[sub] :
    /\ item.uid[2] = 1 /\ Fits(item.uid[1], sub)
    /\ \A other \in mirror[sub] : other.uid = item.uid => other = item

\* A stream ends after it began.
Unused(sub) == watch[sub].phase = "new" => sub \notin ended \cup closed

Lineage ==
  /\ Births
  /\ \A key \in Keys : Entry(key)
  /\ \A kind \in Kinds : Job(kind) /\ Batch(kind)
  /\ Queued
  /\ InHand
  /\ \A sub \in Subs : Items(sub) /\ Unused(sub)

-----------------------------------------------------------------------------
(***************************************************************************)
(* Sequences, and what ToEvents returns.                                   *)
(***************************************************************************)

\* Appending an element.
LEMMA Appended ==
  ASSUME NEW S, NEW s \in Seq(S), NEW e \in S, NEW t, t = Append(s, e)
  PROVE  /\ t \in Seq(S)
         /\ Len(t) = Len(s) + 1
         /\ DOMAIN t = DOMAIN s \cup {Len(s) + 1}
         /\ t[Len(s) + 1] = e
         /\ \A i \in DOMAIN s : i \in 1..Len(s) /\ t[i] = s[i]
OBVIOUS

\* Taking the first element away.
LEMMA Tailed ==
  ASSUME NEW S, NEW s \in Seq(S), s # <<>>
  PROVE  /\ Head(s) = s[1] /\ Head(s) \in S /\ 1 \in DOMAIN s
         /\ Tail(s) \in Seq(S) /\ Len(Tail(s)) = Len(s) - 1
         /\ \A i \in DOMAIN Tail(s) :
              i \in Nat /\ i > 0 /\ i + 1 \in DOMAIN s /\ Tail(s)[i] = s[i + 1]
         /\ \A i \in DOMAIN s : i \in Nat /\ (i = 1 \/ i - 1 \in DOMAIN Tail(s))
OBVIOUS

\* The events of a batch: one of each type at most, in the order Create,
\* Update, Delete, each one for the subscribers of its type.
IsBatch(evts, uid, data, updated, subs, prev) ==
  /\ evts \in Seq(Event)
  /\ \A i \in DOMAIN evts :
       /\ evts[i].uid = uid /\ evts[i].subs # {}
       /\ \/ /\ evts[i].type = "Create" /\ evts[i].data = data
             /\ evts[i].subs = subs \ prev
          \/ /\ evts[i].type = "Update" /\ evts[i].data = data
             /\ evts[i].subs = UpdatedFor(subs, prev, updated)
          \/ /\ evts[i].type = "Delete" /\ evts[i].data = NoData
             /\ evts[i].subs = prev \ subs
  /\ \A i, j \in DOMAIN evts : i # j => evts[i].type # evts[j].type
  /\ \A i, j \in DOMAIN evts : i < j => evts[i].type # "Delete"
  /\ \A sub \in subs \ prev :
       \E i \in DOMAIN evts : evts[i].type = "Create" /\ sub \in evts[i].subs
  /\ \A sub \in prev \ subs :
       \E i \in DOMAIN evts : evts[i].type = "Delete" /\ sub \in evts[i].subs
  /\ \A sub \in UpdatedFor(subs, prev, updated) :
       \E i \in DOMAIN evts : evts[i].type = "Update" /\ sub \in evts[i].subs

\* ToEvents returns such a batch (ToEvents and GenerateSubscribers).
LEMMA ToEventsBatch ==
  ASSUME NEW uid \in Uid, NEW data \in Data, NEW updated \in BOOLEAN,
         NEW subs \in SUBSET Subs, NEW prev \in SUBSET Subs,
         NEW evts, evts = ToEvents(uid, data, updated, subs, prev)
  PROVE  IsBatch(evts, uid, data, updated, subs, prev)
<1> DEFINE cs == subs \ prev
           us == UpdatedFor(subs, prev, updated)
           ds == prev \ subs
           c == [type |-> "Create", uid |-> uid, data |-> data, subs |-> cs]
           u == [type |-> "Update", uid |-> uid, data |-> data, subs |-> us]
           d == [type |-> "Delete", uid |-> uid, data |-> NoData, subs |-> ds]
           x == EventFor("Create", uid, data, cs)
           y == EventFor("Update", uid, data, us)
           z == EventFor("Delete", uid, NoData, ds)
<1>1. c \in Event /\ u \in Event /\ d \in Event
  BY DEF Event, EventType, UpdatedFor, NoData, Data
<1>2. /\ x = IF cs = {} THEN <<>> ELSE <<c>>
      /\ y = IF us = {} THEN <<>> ELSE <<u>>
      /\ z = IF ds = {} THEN <<>> ELSE <<d>>
  BY DEF EventFor
<1>3. evts = (x \o y) \o z
  BY DEF ToEvents, CreatedFor, DeletedFor
<1>4. \A q \in Seq(Event), e \in Event :
        q \o <<>> = q /\ q \o <<e>> = Append(q, e) /\ Append(q, e) \in Seq(Event)
  OBVIOUS
<1>5. /\ c.uid = uid /\ c.type = "Create" /\ c.data = data /\ c.subs = cs
      /\ u.uid = uid /\ u.type = "Update" /\ u.data = data /\ u.subs = us
      /\ d.uid = uid /\ d.type = "Delete" /\ d.data = NoData /\ d.subs = ds
  OBVIOUS
<1> HIDE DEF c, u, d, x, y, z, cs, us, ds
<1>6. x \in Seq(Event)
  <2>1. <<>> \in Seq(Event) /\ <<c>> \in Seq(Event)
    BY <1>1
  <2>2. QED
    BY <1>2, <2>1
<1>7. PICK xy \in Seq(Event) : xy = x \o y /\ xy = IF us = {} THEN x ELSE Append(x, u)
  BY <1>1, <1>2, <1>4, <1>6
<1>8. evts = IF ds = {} THEN xy ELSE Append(xy, d)
  BY <1>1, <1>2, <1>3, <1>4, <1>7
<1>9. /\ \A i \in DOMAIN x : i = 1 /\ x[i] = c /\ cs # {}
      /\ cs # {} => 1 \in DOMAIN x
  <2>1. DOMAIN <<>> = {} /\ DOMAIN <<c>> = {1} /\ <<c>>[1] = c
    OBVIOUS
  <2>2. QED
    BY <1>2, <2>1
<1>10. /\ \A i \in DOMAIN xy : i \in Nat /\ xy[i] \in {c, u} /\ xy[i].subs # {}
       /\ \A i, j \in DOMAIN xy : i # j => xy[i].type # xy[j].type
       /\ cs # {} => \E i \in DOMAIN xy : xy[i] = c
       /\ us # {} => \E i \in DOMAIN xy : xy[i] = u
  <2>1. CASE us = {}
    BY <1>5, <1>7, <1>9, <2>1
  <2>2. CASE us # {}
    <3>1. /\ DOMAIN xy = DOMAIN x \cup {Len(x) + 1}
          /\ xy[Len(x) + 1] = u
          /\ \A i \in DOMAIN x : i \in 1..Len(x) /\ xy[i] = x[i]
      BY <1>1, <1>6, <1>7, <2>2, Appended
    <3>2. Len(x) \in Nat
      BY <1>6
    <3>3. QED
      BY <1>5, <1>9, <2>2, <3>1, <3>2
  <2>3. QED
    BY <2>1, <2>2
<1>11. /\ evts \in Seq(Event)
       /\ \A i \in DOMAIN evts : evts[i] \in {c, u, d} /\ evts[i].subs # {}
       /\ \A i, j \in DOMAIN evts : i # j => evts[i].type # evts[j].type
       /\ \A i, j \in DOMAIN evts : i < j => evts[i].type # "Delete"
       /\ cs # {} => \E i \in DOMAIN evts : evts[i] = c
       /\ us # {} => \E i \in DOMAIN evts : evts[i] = u
       /\ ds # {} => \E i \in DOMAIN evts : evts[i] = d
  <2>1. CASE ds = {}
    BY <1>5, <1>7, <1>8, <1>10, <2>1
  <2>2. CASE ds # {}
    <3>1. /\ evts \in Seq(Event)
          /\ DOMAIN evts = DOMAIN xy \cup {Len(xy) + 1}
          /\ evts[Len(xy) + 1] = d
          /\ \A i \in DOMAIN xy : i \in 1..Len(xy) /\ evts[i] = xy[i]
      BY <1>1, <1>7, <1>8, <2>2, Appended
    <3>2. Len(xy) \in Nat
      BY <1>7
    <3>3. QED
      BY <1>5, <1>10, <2>2, <3>1, <3>2
  <2>3. QED
    BY <2>1, <2>2
<1>12. QED
  <2>1. \A i \in DOMAIN evts : evts[i].uid = uid
    BY <1>5, <1>11
  <2>2. QED
    BY <1>5, <1>11, <2>1 DEF cs, us, ds, IsBatch

-----------------------------------------------------------------------------
(***************************************************************************)
(* The steps of a worker, by what they do to caches, events and queue.     *)
(***************************************************************************)

Subscribers(key) == IF Cached(key) THEN cache[key].subs ELSE {}

\* Only the worker of kind moves, to the record w.
Moves(kind, w) ==
  /\ work'[kind] = w
  /\ \A k \in Kinds \ {kind} : work'[k] = work[k]

\* The worker takes key, whose object exists.
Begins(kind, key) ==
  /\ work[kind] = WorkIdle /\ Kind(key) = kind /\ Exists(key)
  /\ Moves(kind, [WorkIdle EXCEPT !.pc = IF kind = "Pod" THEN "subs" ELSE "list",
                                  !.key = key, !.obj = store[key]])
  /\ UNCHANGED <<cache, queue>>

\* The subscribers found so far, and ones of the registry.
Found(kind, subs) ==
  \A sub \in subs :
    \/ sub \in work[kind].subs
    \/ /\ sub \in registry[kind][NodeOf[sub]]
       /\ kind = "Pod" => work[kind].obj.node = NodeOf[sub]

Continues(kind, subs) ==
  /\ Reading(kind) /\ Found(kind, subs)
  /\ \E pc \in {"refs", "nodes"}, todo \in SUBSET (Pods \X Nodes) :
       Moves(kind, [work[kind] EXCEPT !.pc = pc, !.todo = todo, !.subs = subs])
  /\ UNCHANGED <<cache, queue>>

\* The entry saves the data; they are the old ones if it is not updated.
Saves(key, data, updated) ==
  Cached(key)' => /\ cache'[key].hash = <<<<key, 1>>, data>>
                  /\ Cached(key) /\ ~updated => cache[key].hash = cache'[key].hash

\* The entry of key gets the subscribers subs, with the events that follow.
Settles(kind, key, data, subs) ==
  /\ Kind(key) = kind
  /\ work[kind].evts = <<>>
  /\ \A k \in Keys \ {key} : cache'[k] = cache[k]
  /\ Subscribers(key)' = subs
  /\ Cached(key)' => cache'[key].uid = <<key, 1>>
  /\ \E updated \in BOOLEAN, w \in WorkPush \cup {WorkIdle} :
       /\ Moves(kind, w)
       /\ w.evts = ToEvents(<<key, 1>>, data, updated, subs, Subscribers(key))
       /\ w.evts # <<>> <=> w.pc = "push"
       /\ w.pc = "push" => w.key = key
       /\ Saves(key, data, updated)
  /\ UNCHANGED queue

\* The entry of a pod without subscribers is dropped.
DropsPod ==
  LET w == work["Pod"] IN
  /\ w.pc = "subs"
  /\ w.obj.node # None => registry["Pod"][w.obj.node] = {}
  /\ cache' = [cache EXCEPT ![w.key] = None]
  /\ Moves("Pod", WorkIdle)
  /\ UNCHANGED queue

GivesUp(kind) ==
  /\ Reading(kind)
  /\ Moves(kind, WorkIdle)
  /\ UNCHANGED <<cache, queue>>

Pushes(kind) ==
  LET w == work[kind] IN
  /\ w.pc = "push"
  /\ queue' = Append(queue, Head(w.evts))
  /\ Moves(kind, IF Tail(w.evts) = <<>> THEN WorkIdle
                 ELSE [WorkIdle EXCEPT !.pc = "push", !.key = w.key, !.refs = w.refs,
                                       !.evts = Tail(w.evts)])
  /\ UNCHANGED cache

\* What a worker holds in each phase of a reconcile.
LEMMA WorkPhases ==
  ASSUME TypeOK, NEW kind \in Kinds
  PROVE  LET w == work[kind] IN
         /\ w.pc = "idle" => w = WorkIdle
         /\ w.pc \in {"subs", "refs"} => w.key \in Pods
         /\ w.pc \in {"list", "nodes"} => w.key \in Owners
         /\ Reading(kind) => /\ w \in WorkRead /\ w.key \in Keys /\ w.obj \in Object
                             /\ w.subs \in SUBSET Subs /\ w.evts = <<>>
                             /\ w.todo \in SUBSET (Pods \X Nodes)
         /\ w.pc = "push" => /\ w \in WorkPush /\ w.key \in Keys
                             /\ w.evts \in Seq(Event) /\ w.evts # <<>>
         /\ Reading(kind) \/ w.pc = "push" \/ w = WorkIdle
         /\ w.evts \in Seq(Event)
<1>1. work[kind] \in WorkType
  BY DEF TypeOK, CollectorsTypeOK
<1>2. <<>> \in Seq(Event)
  OBVIOUS
<1>3. CASE work[kind] \in WorkRead
  BY <1>2, <1>3 DEF WorkRead, Reading, Keys
<1>4. CASE work[kind] \in WorkPush
  BY <1>4 DEF WorkPush, Reading
<1>5. CASE work[kind] = WorkIdle
  BY <1>2, <1>5 DEF WorkIdle, Reading
<1>6. QED
  BY <1>1, <1>3, <1>4, <1>5 DEF WorkType

\* The loop over the events, seen from outside.
LEMMA EventLoopMoves ==
  ASSUME TypeOK, NEW kind \in Kinds, NEW key \in Keys, NEW refs \in SUBSET Owners,
         NEW evts \in Seq(Event), EventLoop(kind, key, refs, evts)
  PROVE  \E w \in WorkPush \cup {WorkIdle} :
           /\ Moves(kind, w)
           /\ w.evts = evts
           /\ w.evts # <<>> <=> w.pc = "push"
           /\ w.pc = "push" => w.key = key
<1> DEFINE w == IF evts = <<>> THEN WorkIdle
                ELSE [WorkIdle EXCEPT !.pc = "push", !.key = key, !.refs = refs, !.evts = evts]
<1>1. w \in WorkPush \cup {WorkIdle}
  BY DEF WorkIdle, WorkPush
<1>2. /\ w.evts = evts
      /\ w.evts # <<>> <=> w.pc = "push"
      /\ w.pc = "push" => w.key = key
  BY DEF WorkIdle
<1>3. Moves(kind, w)
  BY DEF TypeOK, CollectorsTypeOK, EventLoop, Moves
<1>4. QED
  BY <1>1, <1>2, <1>3

\* Refresh settles the entry of key for the subscribers it is given.
LEMMA RefreshSettles ==
  ASSUME TypeOK, NEW kind \in Kinds, NEW key \in Keys, Entry(key), Kind(key) = kind,
         work[kind].evts = <<>>, NEW data \in Data, NEW subs \in SUBSET Subs,
         Refresh(kind, key, <<key, 1>>, data, subs), UNCHANGED queue
  PROVE  Settles(kind, key, data, subs)
<1> DEFINE uid == <<key, 1>>
           updated == Cached(key) /\ cache[key].hash # <<uid, data>>
           evts == ToEvents(uid, data, updated, subs, Subscribers(key))
           new == [hash |-> <<uid, data>>, uid |-> IF Cached(key) THEN cache[key].uid ELSE uid,
                   refs |-> data.refs, subs |-> subs]
<1>1. uid \in Uid /\ data.refs \in SUBSET Owners /\ updated \in BOOLEAN
  BY DEF Uid, Data
<1>2. cache[key] \in CacheEntry \/ ~Cached(key)
  BY DEF TypeOK, CollectorsTypeOK, Cached
<1>3. Subscribers(key) \in SUBSET Subs
  BY <1>2 DEF Subscribers, CacheEntry
<1>4. evts \in Seq(Event)
  BY <1>1, <1>3, ToEventsType
<1>5. EventLoop(kind, key, data.refs, evts) /\ cache' = [cache EXCEPT ![key] = new]
  BY DEF Refresh, Subscribers
<1>6. new \in CacheEntry /\ new # None
  BY <1>1, <1>2, NoneAssumption DEF CacheEntry, Hash
<1>7. /\ cache'[key] = new
      /\ \A k \in Keys \ {key} : cache'[k] = cache[k]
  BY <1>5 DEF TypeOK, CollectorsTypeOK
<1>8. /\ Subscribers(key)' = subs
      /\ Cached(key)' => cache'[key].uid = <<key, 1>>
  <2>1. new.subs = subs /\ new.uid = <<key, 1>>
    BY DEF Entry
  <2>2. QED
    BY <1>6, <1>7, <2>1 DEF Subscribers, Cached
<1>9. \E w \in WorkPush \cup {WorkIdle} :
           /\ Moves(kind, w)
           /\ w.evts = evts
           /\ w.evts # <<>> <=> w.pc = "push"
           /\ w.pc = "push" => w.key = key
  <2> HIDE DEF evts
  <2> QED
    BY <1>1, <1>4, <1>5, EventLoopMoves
<1>10. Saves(key, data, updated)
  <2>1. new.hash = <<uid, data>>
    OBVIOUS
  <2>2. QED
    BY <1>7, <2>1 DEF Saves
<1>11. QED
  BY <1>1, <1>7, <1>8, <1>9, <1>10 DEF Settles

\* Forget settles the entry of key for nobody.
LEMMA ForgetSettles ==
  ASSUME TypeOK, NEW kind \in Kinds, NEW key \in Keys, Entry(key), Kind(key) = kind,
         work[kind].evts = <<>>, Forget(kind, key), UNCHANGED queue
  PROVE  Settles(kind, key, NoData, {}) /\ ~Cached(key)'
<1> DEFINE evts == ToEvents(<<key, 1>>, NoData, FALSE, {}, Subscribers(key))
<1>1. <<key, 1>> \in Uid /\ NoData \in Data
  BY DEF Uid, NoData, Data
<1>2. cache[key] \in CacheEntry \/ ~Cached(key)
  BY DEF TypeOK, CollectorsTypeOK, Cached
<1>3. Subscribers(key) \in SUBSET Subs
  BY <1>2 DEF Subscribers, CacheEntry
<1>4. evts \in Seq(Event)
  BY <1>1, <1>3, ToEventsType
<1>5. ~Cached(key)' /\ \A k \in Keys \ {key} : cache'[k] = cache[k]
  BY DEF Forget, Cached, TypeOK, CollectorsTypeOK
<1>6. \E w \in WorkPush \cup {WorkIdle} :
           /\ Moves(kind, w)
           /\ w.evts = evts
           /\ w.evts # <<>> <=> w.pc = "push"
           /\ w.pc = "push" => w.key = key
  <2>1. CASE Cached(key)
    <3>1. cache[key].refs \in SUBSET Owners
      BY <1>2, <2>1 DEF CacheEntry
    <3>2. EventLoop(kind, key, cache[key].refs, evts)
      BY <2>1 DEF Forget, Subscribers, Entry
    <3>3. QED
      <4> HIDE DEF evts
      <4> QED
        BY <1>4, <3>1, <3>2, EventLoopMoves
  <2>2. CASE ~Cached(key)
    <3>1. Moves(kind, WorkIdle)
      BY <2>2 DEF Forget, Moves, TypeOK, CollectorsTypeOK
    <3>2. evts = <<>>
      <4>1. Subscribers(key) = {}
        BY <2>2 DEF Subscribers
      <4>2. /\ CreatedFor({}, {}) = {} /\ UpdatedFor({}, {}, FALSE) = {}
            /\ DeletedFor({}, {}) = {}
        BY DEF CreatedFor, UpdatedFor, DeletedFor
      <4>3. evts = (<<>> \o <<>>) \o <<>>
        BY <4>1, <4>2 DEF ToEvents, EventFor
      <4>4. <<>> \in Seq(Event) /\ \A q \in Seq(Event) : q \o <<>> = q
        OBVIOUS
      <4>5. QED
        BY <4>3, <4>4
    <3>3. WorkIdle.evts = <<>> /\ WorkIdle.pc = "idle"
      BY DEF WorkIdle
    <3>4. QED
      <4> HIDE DEF evts
      <4> QED
        BY <3>1, <3>2, <3>3
  <2>3. QED
    BY <2>1, <2>2
<1>7. Saves(key, NoData, FALSE)
  BY <1>5 DEF Saves
<1>8. QED
  BY <1>5, <1>6, <1>7 DEF Settles, Subscribers

\* The cases of a reconcile.
LEMMA ReconcileCases ==
  ASSUME TypeOK, SubscriberLife, Lineage, NEW kind \in Kinds, Reconcile(kind)
  PROVE  \/ \E key \in Keys : Begins(kind, key)
         \/ \E key \in Keys : Settles(kind, key, NoData, {}) /\ ~Cached(key)'
         \/ \E data \in Data, subs \in SUBSET Subs :
              /\ Reading(kind) /\ data.ver = work[kind].obj.ver /\ Found(kind, subs)
              /\ Settles(kind, work[kind].key, data, subs)
         \/ \E subs \in SUBSET Subs : Continues(kind, subs)
         \/ kind = "Pod" /\ DropsPod
         \/ GivesUp(kind)
         \/ Pushes(kind)
<1> DEFINE w == work[kind]
           Goal == \/ \E key \in Keys : Begins(kind, key)
                   \/ \E key \in Keys : Settles(kind, key, NoData, {}) /\ ~Cached(key)'
                   \/ \E data \in Data, subs \in SUBSET Subs :
                        /\ Reading(kind) /\ data.ver = work[kind].obj.ver /\ Found(kind, subs)
                        /\ Settles(kind, work[kind].key, data, subs)
                   \/ \E subs \in SUBSET Subs : Continues(kind, subs)
                   \/ kind = "Pod" /\ DropsPod
                   \/ GivesUp(kind)
                   \/ Pushes(kind)
<1>1. /\ work \in [Kinds -> WorkType] /\ cache \in [Keys -> CacheEntry \cup {None}]
      /\ registry \in [Kinds -> [Nodes -> SUBSET Subs]]
  BY DEF TypeOK, CollectorsTypeOK, DispatcherTypeOK
<1>2. /\ \A key \in Keys : Entry(key)
      /\ Reading(kind) => Kind(w.key) = kind /\ w.obj.inc = 1
  BY DEF Lineage, Job, Older
<1>3. ASSUME NEW record, work' = [work EXCEPT ![kind] = record]
      PROVE  Moves(kind, record)
  BY <1>1, <1>3 DEF Moves
<1>4. \A node \in Nodes \cup {None} :
        /\ SubscribersPerNode(kind, node) \in SUBSET Subs
        /\ \A sub \in SubscribersPerNode(kind, node) :
             node = NodeOf[sub] /\ sub \in registry[kind][NodeOf[sub]]
  <2> SUFFICES ASSUME NEW node \in Nodes \cup {None}
               PROVE  /\ SubscribersPerNode(kind, node) \in SUBSET Subs
                      /\ \A sub \in SubscribersPerNode(kind, node) :
                           node = NodeOf[sub] /\ sub \in registry[kind][NodeOf[sub]]
    OBVIOUS
  <2>1. CASE node = None
    BY <2>1 DEF SubscribersPerNode
  <2>2. CASE node # None
    <3>1. node \in Nodes /\ SubscribersPerNode(kind, node) = registry[kind][node]
      BY <2>2 DEF SubscribersPerNode
    <3>2. registry[kind][node] \in SUBSET Subs
      BY <1>1, <3>1
    <3>3. \A sub \in Subs : sub \in registry[kind][node] => node = NodeOf[sub]
      BY <3>1 DEF SubscriberLife, Life
    <3>4. QED
      BY <3>1, <3>2, <3>3
  <2>3. QED
    BY <2>1, <2>2
<1>5. ASSUME NEW key \in Keys, Get(kind, key)
      PROVE  Goal
  <2>1. w = WorkIdle /\ WorkIdle.evts = <<>>
    BY <1>5, WorkPhases DEF Get, WorkIdle
  <2>2. CASE Exists(key)
    BY <1>3, <1>5, <2>1, <2>2 DEF Get, Begins
  <2>3. CASE ~Exists(key)
    BY <1>2, <1>5, <2>1, <2>3, ForgetSettles DEF Get
  <2>4. QED
    BY <2>2, <2>3
<1>6. CASE kind = "Pod" /\ ReadPodSubscribers
  <2> DEFINE subs == SubscribersPerNode("Pod", w.obj.node)
  <2>1. w.pc = "subs" /\ Reading(kind) /\ w.obj \in Object /\ w \in WorkRead
    BY <1>6, WorkPhases DEF ReadPodSubscribers, Reading
  <2>2. w.obj.node \in Nodes \cup {None}
    BY <2>1 DEF Object
  <2>3. CASE subs = {}
    <3>1. w.obj.node # None => registry["Pod"][w.obj.node] = {}
      BY <2>3 DEF SubscribersPerNode
    <3>2. QED
      BY <1>3, <1>6, <2>1, <2>3, <3>1 DEF ReadPodSubscribers, DropsPod
  <2>4. CASE subs # {}
    <3>1. Found(kind, subs) /\ subs \in SUBSET Subs
      BY <1>4, <1>6, <2>2 DEF Found
    <3>2. [w EXCEPT !.pc = "refs", !.subs = subs]
            = [w EXCEPT !.pc = "refs", !.todo = w.todo, !.subs = subs]
      BY <2>1 DEF WorkRead
    <3>3. work' = [work EXCEPT ![kind] = [w EXCEPT !.pc = "refs", !.subs = subs]]
      BY <1>1, <1>6, <2>4 DEF ReadPodSubscribers
    <3>4. Moves(kind, [w EXCEPT !.pc = "refs", !.todo = w.todo, !.subs = subs])
      BY <1>3, <3>2, <3>3
    <3>5. w.todo \in SUBSET (Pods \X Nodes)
      BY <2>1, WorkPhases
    <3>6. Continues(kind, subs)
      BY <1>6, <2>1, <2>4, <3>1, <3>4, <3>5 DEF Continues, ReadPodSubscribers
    <3>7. QED
      BY <3>1, <3>6
  <2>5. QED
    BY <2>3, <2>4
<1>7. CASE kind = "Pod" /\ RefreshPod
  <2> DEFINE data == [ver |-> w.obj.ver, refs |-> PodRefs(w.key)]
  <2>1. w.pc = "refs" /\ Reading(kind) /\ Refresh(kind, w.key, <<w.key, w.obj.inc>>, data, w.subs)
    BY <1>7 DEF RefreshPod, Reading
  <2>2. /\ w.key \in Pods /\ w.key \in Keys /\ w.obj \in Object /\ w.subs \in SUBSET Subs
        /\ w.evts = <<>>
    BY <2>1, WorkPhases
  <2>3. data \in Data /\ data.ver = w.obj.ver
    BY <2>2, RelationsAssumption DEF Data, Object, PodRefs
  <2>4. Refresh(kind, w.key, <<w.key, 1>>, data, w.subs) /\ Kind(w.key) = kind
    BY <1>2, <2>1
  <2>5. UNCHANGED queue
    BY <1>7 DEF RefreshPod
  <2>6. Settles(kind, w.key, data, w.subs)
    <3> HIDE DEF data, w
    <3> QED
      BY <1>2, <2>2, <2>3, <2>4, <2>5, RefreshSettles DEF w
  <2>7. Found(kind, w.subs)
    BY DEF Found
  <2>8. QED
    BY <2>1, <2>2, <2>3, <2>6, <2>7
<1>8. ASSUME Reading(kind), Requeue(kind)
      PROVE  GivesUp(kind)
  BY <1>3, <1>8 DEF Requeue, GivesUp
<1>9. CASE (kind = "Pod" /\ NamespaceMissing) \/ ReadFails(kind)
  BY <1>8, <1>9 DEF NamespaceMissing, ReadFails, Reading
<1>10. ASSUME NEW todo \in SUBSET (Pods \X Nodes), NEW subs \in SUBSET Subs, Found(kind, subs),
              w.pc \in {"list", "nodes"}, Visit(kind, todo, subs), UNCHANGED queue
       PROVE  Goal
  <2>1. Reading(kind)
    BY <1>10 DEF Reading
  <2>2. w.key \in Keys /\ w.obj \in Object /\ w.evts = <<>> /\ Kind(w.key) = kind
    BY <1>2, <2>1, WorkPhases
  <2>3. CASE todo # {}
    <3>1. Moves(kind, [w EXCEPT !.pc = "nodes", !.todo = todo, !.subs = subs])
      BY <1>3, <1>10, <2>3 DEF Visit
    <3>2. Continues(kind, subs)
      BY <1>10, <2>1, <2>3, <3>1 DEF Continues, Visit
    <3>3. QED
      BY <3>2
  <2>4. CASE todo = {} /\ subs = {}
    <3>1. Forget(kind, w.key)
      BY <1>10, <2>4 DEF Visit
    <3>2. QED
      BY <1>2, <1>10, <2>2, <3>1, ForgetSettles
  <2>5. CASE todo = {} /\ subs # {}
    <3> DEFINE data == [ver |-> w.obj.ver, refs |-> {}]
    <3>1. Refresh(kind, w.key, <<w.key, 1>>, data, subs)
      BY <1>2, <1>10, <2>1, <2>5 DEF Visit
    <3>2. data \in Data /\ data.ver = w.obj.ver
      BY <2>2 DEF Data, Object
    <3>3. Settles(kind, w.key, data, subs)
      <4> HIDE DEF data, w
      <4> QED
        BY <1>2, <1>10, <2>2, <3>1, <3>2, RefreshSettles DEF w
    <3>4. QED
      BY <1>10, <2>1, <3>2, <3>3
  <2>6. QED
    BY <2>3, <2>4, <2>5
<1>11. CASE ListRelatedPods(kind)
  <2>1. w.pc = "list" /\ w.key \in Owners
    BY <1>11, WorkPhases DEF ListRelatedPods
  <2>2. PlacedPods(w.key) \in SUBSET (Pods \X Nodes)
    <3>1. \A p \in Pods : Exists(p) /\ store[p].node # None => store[p].node \in Nodes
      BY DEF TypeOK, Exists, ClusterTypeOK, Object, Keys
    <3>2. QED
      BY <2>1, <3>1, RelationsAssumption DEF PlacedPods
  <2>3. Found(kind, {})
    BY DEF Found
  <2>4. QED
    BY <1>10, <1>11, <2>1, <2>2, <2>3 DEF ListRelatedPods
<1>12. ASSUME NEW placed \in Pods \X Nodes, CollectNode(kind, placed)
       PROVE  Goal
  <2> DEFINE subs == w.subs \cup SubscribersPerNode(kind, placed[2])
  <2>1. w.pc = "nodes" /\ w.todo \ {placed} \in SUBSET (Pods \X Nodes) /\ w.subs \in SUBSET Subs
        /\ kind # "Pod"
    <3>1. w.pc = "nodes" /\ w.key \in Owners /\ Reading(kind)
      BY <1>12, WorkPhases DEF CollectNode, Reading
    <3>2. Kind(w.key) # "Pod"
      BY <3>1, KindType, KeysAssumption DEF Keys
    <3>3. QED
      BY <1>2, <3>1, <3>2, WorkPhases
  <2>2. placed[2] \in Nodes
    OBVIOUS
  <2>3. subs \in SUBSET Subs /\ Found(kind, subs)
    BY <1>4, <2>1, <2>2 DEF Found
  <2>4. Visit(kind, w.todo \ {placed}, subs) /\ UNCHANGED queue
    BY <1>12 DEF CollectNode
  <2>5. QED
    BY <1>10, <2>1, <2>3, <2>4
<1>13. CASE PushEvent(kind)
  BY <1>3, <1>13 DEF PushEvent, EventLoop, Push, Pushes
<1>14. QED
  BY <1>5, <1>6, <1>7, <1>9, <1>11, <1>12, <1>13 DEF Reconcile, WorkerStep

-----------------------------------------------------------------------------
(***************************************************************************)
(* What no step undoes.                                                    *)
(***************************************************************************)

\* An object appears once, only gets newer and keeps its node.
Ages(key) ==
  \/ store'[key] = store[key] /\ born'[key] = born[key]
  \/ /\ ~Exists(key) /\ born[key] = 0
     /\ born'[key] = 1 /\ store'[key].inc = 1
  \/ /\ Exists(key) /\ born'[key] = born[key]
     /\ Exists(key)' => /\ store'[key].inc = store[key].inc
                        /\ store'[key].ver >= store[key].ver
                        /\ store[key].node # None => store'[key].node = store[key].node

\* Every step leaves a name alone or ages its object.
LEMMA AgesStep ==
  ASSUME NoReuse, TypeOK, Births, [Next]_vars, NEW key \in Keys
  PROVE  Ages(key)
<1>1. /\ store \in [Keys -> Object \cup {None}] /\ born \in [Keys -> Nat]
  BY DEF TypeOK, ClusterTypeOK
<1>2. CASE ClusterStep
  <2>1. ASSUME NEW k \in Keys, NEW node \in Nodes \cup {None}, CreateObject(k, node)
        PROVE  Ages(key)
    <3>1. /\ store' = [store EXCEPT ![k] = NewObject(born[k] + 1, node)]
          /\ born' = [born EXCEPT ![k] = born[k] + 1]
          /\ ~Exists(k) /\ born[k] < MaxInc[k]
      BY <2>1 DEF CreateObject, Observe
    <3>2. born[k] = 0
      <4>1. MaxInc[k] \in Nat /\ MaxInc[k] <= 1 /\ born[k] \in {0, 1}
        BY ClusterAssumption DEF NoReuse, Births
      <4>2. QED
        BY <3>1, <4>1
    <3>3. key = k => store'[key] = NewObject(1, node) /\ born'[key] = 1
      BY <1>1, <3>1, <3>2
    <3>4. NewObject(1, node).inc = 1
      BY DEF NewObject
    <3>5. key # k => store'[key] = store[key] /\ born'[key] = born[key]
      BY <1>1, <3>1
    <3>6. QED
      BY <3>1, <3>2, <3>3, <3>4, <3>5 DEF Ages
  <2>2. ASSUME NEW k \in Keys, NEW obj, Exists(k), born' = born,
               store' = [store EXCEPT ![k] = obj],
               obj # None => /\ obj.inc = store[k].inc
                             /\ obj.ver >= store[k].ver
                             /\ store[k].node # None => obj.node = store[k].node
        PROVE  Ages(key)
    BY <1>1, <2>2 DEF Ages, Exists
  <2>3. ASSUME NEW k \in Keys, Exists(k)
        PROVE  store[k] \in Object /\ store[k].ver \in Nat
    BY <1>1, <2>3 DEF Exists, Object
  <2>4. ASSUME NEW pod \in Pods, NEW node \in Nodes, SchedulePod(pod, node)
        PROVE  Ages(key)
    <3> DEFINE obj == [store[pod] EXCEPT !.node = node]
    <3>1. /\ store' = [store EXCEPT ![pod] = obj]
          /\ Exists(pod) /\ store[pod].node = None /\ born' = born /\ pod \in Keys
      BY <2>4 DEF SchedulePod, Observe, Keys
    <3>2. obj.inc = store[pod].inc /\ obj.ver >= store[pod].ver
      BY <2>3, <3>1 DEF Object
    <3>3. QED
      BY <2>2, <3>1, <3>2
  <2>5. ASSUME NEW k \in Keys, UpdateObject(k)
        PROVE  Ages(key)
    <3> DEFINE obj == [store[k] EXCEPT !.ver = @ + 1]
    <3>1. store' = [store EXCEPT ![k] = obj] /\ Exists(k) /\ born' = born
      BY <2>5 DEF UpdateObject, Observe
    <3>2. /\ obj.inc = store[k].inc /\ obj.ver >= store[k].ver
          /\ obj.node = store[k].node
      BY <2>3, <3>1 DEF Object
    <3>3. QED
      BY <2>2, <3>1, <3>2
  <2>6. ASSUME NEW k \in Keys, DeleteObject(k)
        PROVE  Ages(key)
    <3>1. store' = [store EXCEPT ![k] = None] /\ Exists(k) /\ born' = born
      BY <2>6 DEF DeleteObject, Observe
    <3>2. QED
      BY <2>2, <3>1
  <2>7. QED
    BY <1>2, <2>1, <2>4, <2>5, <2>6 DEF ClusterStep, ClusterNext
<1>3. CASE UNCHANGED <<store, born>>
  BY <1>3 DEF Ages
<1>4. ASSUME NEW kind \in Kinds, Reconcile(kind)
      PROVE  UNCHANGED <<store, born>>
  BY <1>4 DEF Reconcile, WorkerStep, Get, ReadPodSubscribers, RefreshPod, NamespaceMissing,
     Requeue, ReadFails, ListRelatedPods, CollectNode, PushEvent, clusterVars
<1>5. ASSUME NEW kind \in Kinds, Dispatch(kind)
      PROVE  UNCHANGED <<store, born>>
  BY <1>5 DEF Dispatch, DispatcherStep, UpdateRegistry, ListPods, ListPodsFails, DispatchPod,
     DispatchPodFails, clusterVars
<1>6. CASE SliceChanges \/ DispatchSlices
  <2>1. UNCHANGED <<store, born>>
    BY <1>6 DEF SliceChanges, ChangeSlice, DispatchSlices, SliceStep, ReconcileSlice, TriggerPod,
       TriggerService, clusterVars
  <2>2. QED
    BY <1>3, <2>1
<1>7. CASE UNCHANGED vars
  BY <1>3, <1>7 DEF vars, clusterVars
<1>8. QED
  BY <1>2, <1>3, <1>4, <1>5, <1>6, <1>7 DEF Next, DeliverTrigger, StartWatch, EndStream,
     LeaveWatch, Notify, BrokerStep, clusterVars

\* A Watch call starts once and leaves once.
LEMMA PhaseStep ==
  ASSUME TypeOK, [Next]_vars, NEW sub \in Subs
  PROVE  /\ watch[sub].phase # "new" => watch'[sub].phase # "new"
         /\ watch[sub].phase = "left" => watch'[sub].phase = "left"
<1>1. watch \in [Subs -> WatchState]
  BY DEF TypeOK, WatchTypeOK
<1>2. CASE UNCHANGED watch
  BY <1>2
<1>3. ASSUME NEW s \in Subs, StartWatch(s) \/ EndStream(s) \/ LeaveWatch(s)
      PROVE  /\ watch[sub].phase # "new" => watch'[sub].phase # "new"
             /\ watch[sub].phase = "left" => watch'[sub].phase = "left"
  BY <1>1, <1>3 DEF StartWatch, Watch, EndStream, StreamEnds, LeaveWatch, LeaveOnStreamEnd,
     LeaveOnError, Leave, Serving
<1>4. ASSUME NEW s \in Subs, NEW kind \in Kinds, Notify(s, kind)
      PROVE  watch'[sub].phase = watch[sub].phase
  BY <1>1, <1>4 DEF Notify, NotifyCollector, WatchState
<1>5. CASE BrokerStep
  BY <1>2, <1>5 DEF BrokerStep, PopEvent, LoadConnection, Send, SendFails, watchVars
<1>6. CASE UNCHANGED vars
  BY <1>2, <1>6 DEF vars, watchVars
<1>7. QED
  BY <1>2, <1>3, <1>4, <1>5, <1>6 DEF Next, ClusterStep, SliceChanges, DispatchSlices,
     DeliverTrigger, Dispatch, Reconcile, watchVars

\* A subscriber is removed from a registry only after it left.
LEMMA RegisteredStep ==
  ASSUME TypeOK, SubscriberLife, [Next]_vars, NEW key \in Keys, NEW sub \in Subs,
         Registered(key, sub)
  PROVE  Registered(key, sub)'
<1> DEFINE k == Kind(key)
           n == NodeOf[sub]
<1>1. k \in Kinds /\ n \in Nodes /\ registry \in [Kinds -> [Nodes -> SUBSET Subs]]
  BY KindType, SubscribersAssumption DEF TypeOK, DispatcherTypeOK
<1>2. CASE watch[sub].phase = "left"
  BY <1>2, PhaseStep DEF Registered
<1>3. CASE UNCHANGED registry /\ watch[sub].phase # "left"
  BY <1>3 DEF Registered
<1>4. ASSUME NEW kind \in Kinds, Dispatch(kind), watch[sub].phase # "left"
      PROVE  Registered(key, sub)'
  <2>1. CASE UpdateRegistry(kind)
    <3> DEFINE d == disp[kind]
    <3>1. d.sub \in Subs /\ d.join \in BOOLEAN /\ NodeOf[d.sub] \in Nodes
      BY <2>1, SubscribersAssumption
         DEF UpdateRegistry, TypeOK, DispatcherTypeOK, DispBusy, DispIdle
    <3>2. d.sub = sub => d.join
      <4>1. Life(kind, sub)
        BY DEF SubscriberLife
      <4>2. QED
        BY <1>4, <2>1, <3>1, <4>1 DEF UpdateRegistry, Life, Holds
    <3>3. sub \in registry[k][n]
      BY <1>4 DEF Registered
    <3>4. sub \in registry'[k][n]
      <4>1. CASE k # kind
        BY <1>1, <2>1, <3>3, <4>1 DEF UpdateRegistry
      <4>2. CASE k = kind
        <5>1. /\ registry'[k][NodeOf[d.sub]] =
                   IF d.join THEN registry[k][NodeOf[d.sub]] \cup {d.sub}
                   ELSE registry[k][NodeOf[d.sub]] \ {d.sub}
              /\ \A m \in Nodes \ {NodeOf[d.sub]} : registry'[k][m] = registry[k][m]
          BY <1>1, <2>1, <3>1, <4>2 DEF UpdateRegistry
        <5>2. QED
          BY <1>1, <3>2, <3>3, <5>1
      <4>3. QED
        BY <4>1, <4>2
    <3>5. QED
      BY <3>4 DEF Registered
  <2>2. CASE ~UpdateRegistry(kind)
    BY <1>3, <1>4, <2>2 DEF Dispatch, DispatcherStep, ListPods, ListPodsFails, DispatchPod,
       DispatchPodFails
  <2>3. QED
    BY <2>1, <2>2
<1>5. ASSUME NEW kind \in Kinds, Reconcile(kind)
      PROVE  UNCHANGED registry
  BY <1>5 DEF Reconcile, WorkerStep, Get, ReadPodSubscribers, RefreshPod, NamespaceMissing,
     Requeue, ReadFails, ListRelatedPods, CollectNode, PushEvent
<1>6. CASE UNCHANGED vars
  BY <1>2, <1>3, <1>6 DEF vars, dispVars
<1>7. QED
  BY <1>2, <1>3, <1>4, <1>5, <1>6 DEF Next, ClusterStep, SliceChanges, DispatchSlices,
     DeliverTrigger, StartWatch, EndStream, LeaveWatch, Notify, Receive, BrokerStep, dispVars

\* What an event or a worker knows stays true.
LEMMA Kept ==
  ASSUME NoReuse, TypeOK, SubscriberLife, Births, [Next]_vars
  PROVE  /\ Births'
         /\ \A key \in Keys, sub \in Subs : Fits(key, sub) => Fits(key, sub)'
         /\ \A key \in Keys, sub \in Subs : Registered(key, sub) => Registered(key, sub)'
         /\ \A key \in Keys, obj \in Object : Older(key, obj) => Older(key, obj)'
         /\ \A evt \in Event : Sound(evt) => Sound(evt)'
<1>1. \A key \in Keys : Ages(key)
  BY AgesStep
<1>2. /\ store \in [Keys -> Object \cup {None}] /\ store' \in [Keys -> Object \cup {None}]
  BY StepType DEF TypeOK, ClusterTypeOK
<1>3. ASSUME NEW key \in Keys
      PROVE  /\ born'[key] \in {0, 1}
             /\ Exists(key)' => store'[key].inc = 1 /\ born'[key] = 1
             /\ born[key] = 1 => born'[key] = 1
             /\ born[key] = 1 /\ Exists(key)' =>
                  /\ Exists(key)
                  /\ store'[key].ver >= store[key].ver
                  /\ store[key].node # None => store'[key].node = store[key].node
  <2>1. born[key] \in {0, 1} /\ (Exists(key) => store[key].inc = 1 /\ born[key] = 1)
    BY DEF Births
  <2>2. store[key] # None => store[key].ver \in Nat
    BY <1>2 DEF Object
  <2>3. CASE store'[key] = store[key] /\ born'[key] = born[key]
    BY <2>1, <2>2, <2>3 DEF Exists
  <2>4. CASE ~Exists(key) /\ born[key] = 0 /\ born'[key] = 1 /\ store'[key].inc = 1
    BY <2>4
  <2>5. CASE /\ Exists(key) /\ born'[key] = born[key]
             /\ Exists(key)' => /\ store'[key].inc = store[key].inc
                                /\ store'[key].ver >= store[key].ver
                                /\ store[key].node # None => store'[key].node = store[key].node
    BY <2>1, <2>5
  <2>6. QED
    BY <1>1, <2>3, <2>4, <2>5 DEF Ages
<1>4. Births'
  BY <1>3 DEF Births
<1>5. ASSUME NEW key \in Keys, NEW sub \in Subs, Fits(key, sub)
      PROVE  Fits(key, sub)'
  <2>1. NodeOf[sub] # None
    BY SubscribersAssumption, KeysAssumption
  <2>2. QED
    BY <1>3, <1>5, <2>1, PhaseStep DEF Fits
<1>6. ASSUME NEW key \in Keys, NEW obj \in Object, Older(key, obj)
      PROVE  Older(key, obj)'
  <2>1. obj.ver \in Nat /\ (Exists(key) => store[key].ver \in Nat)
        /\ (Exists(key)' => store'[key].ver \in Nat)
    BY <1>2 DEF Object, Exists
  <2>2. QED
    BY <1>3, <1>6, <2>1 DEF Older
<1>7. ASSUME NEW evt \in Event, Sound(evt)
      PROVE  Sound(evt)'
  <2>1. evt.uid[1] \in Keys /\ evt.subs \in SUBSET Subs
    BY DEF Event, Uid
  <2>2. QED
    BY <1>3, <1>5, <1>7, <2>1 DEF Sound
<1>8. QED
  BY <1>4, <1>5, <1>6, <1>7, RegisteredStep

\* Nothing is known of the clients and their resources at the start.
LEMMA LineageInit == Init => Lineage
<1> SUFFICES ASSUME Init PROVE Lineage
  OBVIOUS
<1>1. Births
  BY DEF Init, ClusterInit, Births, Exists, NewObject
<1>2. \A key \in Keys : Entry(key)
  BY DEF Init, CollectorsInit, Entry, Cached
<1>3. \A kind \in Kinds : Job(kind) /\ Batch(kind)
  <2>1. \A kind \in Kinds : work[kind] = WorkIdle
    BY DEF Init, CollectorsInit
  <2>2. WorkIdle.pc = "idle" /\ DOMAIN WorkIdle.evts = {}
    BY DEF WorkIdle
  <2>3. QED
    BY <2>1, <2>2 DEF Job, Batch, Reading
<1>4. Queued
  <2>1. DOMAIN queue = {}
    BY DEF Init, BlockingChannelInit
  <2>2. QED
    BY <2>1 DEF Queued
<1>5. InHand
  BY DEF Init, BrokerInit, InHand, Busy, BroIdle
<1>6. \A sub \in Subs : Items(sub) /\ Unused(sub)
  BY DEF Init, BrokerInit, WatchInit, Items, Unused
<1>7. QED
  BY <1>1, <1>2, <1>3, <1>4, <1>5, <1>6 DEF Lineage

\* What a step does not touch keeps its lineage.
LEMMA Untouched ==
  ASSUME NoReuse, TypeOK, SubscriberLife, Lineage, [Next]_vars
  PROVE  /\ \A key \in Keys : cache'[key] = cache[key] => Entry(key)'
         /\ \A k \in Kinds :
              /\ work'[k] = work[k]
              /\ Reading(k) /\ k = "Pod" => cache'[work[k].key] = cache[work[k].key]
              => Job(k)'
         /\ \A k \in Kinds : work'[k] = work[k] => Batch(k)'
         /\ queue' = queue => Queued'
         /\ bro' = bro => InHand'
         /\ \A sub \in Subs : mirror'[sub] = mirror[sub] => Items(sub)'
<1>1. /\ \A key \in Keys, sub \in Subs : Fits(key, sub) => Fits(key, sub)'
      /\ \A key \in Keys, sub \in Subs : Registered(key, sub) => Registered(key, sub)'
      /\ \A key \in Keys, obj \in Object : Older(key, obj) => Older(key, obj)'
      /\ \A evt \in Event : Sound(evt) => Sound(evt)'
  BY Kept DEF Lineage
<1>2. ASSUME NEW key \in Keys, cache'[key] = cache[key]
      PROVE  Entry(key)'
  <2>1. Entry(key) /\ (Cached(key) => cache[key].subs \in SUBSET Subs)
    BY DEF Lineage, TypeOK, CollectorsTypeOK, Cached, CacheEntry
  <2>2. QED
    BY <1>1, <1>2, <2>1 DEF Entry, Cached
<1>3. ASSUME NEW k \in Kinds, work'[k] = work[k],
             Reading(k) /\ k = "Pod" => cache'[work[k].key] = cache[work[k].key]
      PROVE  Job(k)'
  <2>1. SUFFICES ASSUME Reading(k) PROVE Job(k)'
    BY <1>3 DEF Job, Reading
  <2>2. /\ Job(k) /\ work[k].key \in Keys /\ work[k].obj \in Object
        /\ work[k].subs \in SUBSET Subs
    BY <2>1, WorkPhases DEF Lineage
  <2>3. /\ Kind(work[k].key) = k
        /\ Older(work[k].key, work[k].obj)
        /\ \A sub \in work[k].subs : Fits(work[k].key, sub) /\ Registered(work[k].key, sub)
        /\ k = "Pod" =>
             /\ \A sub \in work[k].subs : work[k].obj.node = NodeOf[sub]
             /\ Cached(work[k].key) =>
                  \A sub \in cache[work[k].key].subs : work[k].obj.node = NodeOf[sub]
    BY <2>1, <2>2 DEF Job
  <2>4. PICK kk \in Keys, oo \in Object, ss \in SUBSET Subs :
          kk = work[k].key /\ oo = work[k].obj /\ ss = work[k].subs
    BY <2>2
  <2>5. /\ Older(kk, oo)'
        /\ \A sub \in ss : Fits(kk, sub)' /\ Registered(kk, sub)'
    BY <1>1, <2>3, <2>4
  <2>6. kk = work'[k].key /\ oo = work'[k].obj /\ ss = work'[k].subs
    BY <1>3, <2>4
  <2>7. Cached(kk)' /\ k = "Pod" => \A sub \in cache'[kk].subs : oo.node = NodeOf[sub]
    BY <1>3, <2>1, <2>3, <2>4 DEF Cached
  <2>8. QED
    BY <1>3, <2>3, <2>4, <2>5, <2>6, <2>7 DEF Job, Older, Fits, Registered, Cached, Exists
<1>4. ASSUME NEW k \in Kinds, work'[k] = work[k]
      PROVE  Batch(k)'
  <2>1. Batch(k) /\ work[k].evts \in Seq(Event)
    BY WorkPhases DEF Lineage
  <2>2. \A i \in DOMAIN work[k].evts : work[k].evts[i] \in Event
    BY <2>1
  <2>3. \A i \in DOMAIN work[k].evts : Sound(work[k].evts[i])'
    BY <1>1, <1>4, <2>1, <2>2 DEF Batch, Sound, Fits, Exists
  <2>4. QED
    BY <1>4, <2>1, <2>3 DEF Batch
<1>5. ASSUME queue' = queue
      PROVE  Queued'
  <2>1. \A i \in DOMAIN queue : queue[i] \in Event
    BY DEF TypeOK, BlockingChannelTypeOK
  <2>2. QED
    BY <1>1, <1>5, <2>1 DEF Lineage, Queued, Sound, Fits, Exists
<1>6. ASSUME bro' = bro
      PROVE  InHand'
  <2>1. Busy => bro.evt \in Event
    BY DEF TypeOK, BrokerTypeOK, Busy, BroBusy, BroIdle
  <2>2. QED
    BY <1>1, <1>6, <2>1 DEF Lineage, InHand, Busy, Sound, Fits, Exists
<1>7. ASSUME NEW sub \in Subs, mirror'[sub] = mirror[sub]
      PROVE  Items(sub)'
  <2>1. \A item \in mirror[sub] : item.uid[1] \in Keys
    BY DEF TypeOK, BrokerTypeOK, Item, Uid
  <2>2. QED
    BY <1>1, <1>7, <2>1 DEF Lineage, Items, Fits, Exists
<1>8. QED
  BY <1>2, <1>3, <1>4, <1>5, <1>6, <1>7

\* The subscribers a worker found are the right ones.
LEMMA FoundFits ==
  ASSUME TypeOK, SubscriberLife, Lineage, NEW kind \in Kinds, Reading(kind),
         NEW subs \in SUBSET Subs, Found(kind, subs), NEW sub \in subs
  PROVE  /\ Fits(work[kind].key, sub) /\ Registered(work[kind].key, sub)
         /\ kind = "Pod" => work[kind].obj.node = NodeOf[sub]
<1> DEFINE w == work[kind]
<1>1. Job(kind) /\ w.key \in Keys /\ sub \in Subs
  BY WorkPhases DEF Lineage
<1>2. CASE sub \in w.subs
  BY <1>1, <1>2 DEF Job
<1>3. CASE /\ sub \in registry[kind][NodeOf[sub]]
           /\ kind = "Pod" => w.obj.node = NodeOf[sub]
  <2>1. Life(kind, sub) /\ NodeOf[sub] \in Nodes /\ NodeOf[sub] # None
    BY <1>1, SubscribersAssumption, KeysAssumption DEF SubscriberLife
  <2>2. kind \in KindsOf[sub] /\ watch[sub].phase # "new"
    BY <1>3, <2>1 DEF Life, Told
  <2>3. Kind(w.key) = kind /\ Older(w.key, w.obj)
    BY <1>1 DEF Job
  <2>4. w.key \in Pods <=> kind = "Pod"
    BY <1>1, <2>3, KindType
  <2>5. Fits(w.key, sub)
    BY <1>3, <2>1, <2>2, <2>3, <2>4 DEF Fits, Older
  <2>6. QED
    BY <1>3, <2>3, <2>5 DEF Registered
<1>4. QED
  BY <1>2, <1>3 DEF Found

\* A settled entry and its events have the right subscribers.
LEMMA SettlesLineage ==
  ASSUME NoReuse, TypeOK, SubscriberLife, Lineage, [Next]_vars,
         NEW kind \in Kinds, NEW key \in Keys, NEW data \in Data, NEW subs \in SUBSET Subs,
         Settles(kind, key, data, subs),
         \A sub \in subs : Fits(key, sub) /\ Registered(key, sub)
  PROVE  Entry(key)' /\ Job(kind)' /\ Batch(kind)'
<1>1. /\ \A k \in Keys, sub \in Subs : Fits(k, sub) => Fits(k, sub)'
      /\ \A k \in Keys, sub \in Subs : Registered(k, sub) => Registered(k, sub)'
  BY Kept DEF Lineage
<1>2. Subscribers(key) \in SUBSET Subs /\ \A sub \in Subscribers(key) : Fits(key, sub)
  BY DEF Subscribers, Lineage, Entry, Cached, TypeOK, CollectorsTypeOK, CacheEntry
<1>3. Entry(key)'
  <2>1. Cached(key)' => cache'[key].uid = <<key, 1>> /\ cache'[key].subs = subs
    BY DEF Settles, Subscribers
  <2>2. QED
    BY <1>1, <2>1 DEF Entry
<1>4. PICK updated \in BOOLEAN, w \in WorkPush \cup {WorkIdle} :
        /\ Moves(kind, w)
        /\ w.evts = ToEvents(<<key, 1>>, data, updated, subs, Subscribers(key))
        /\ w.evts # <<>> <=> w.pc = "push"
        /\ w.pc = "push" => w.key = key
  BY DEF Settles
<1>5. work'[kind] = w /\ w.pc \in {"idle", "push"}
  BY <1>4 DEF Moves, WorkPush, WorkIdle
<1>6. Job(kind)'
  BY <1>5 DEF Job, Reading
<1>7. PICK evts : evts = ToEvents(<<key, 1>>, data, updated, subs, Subscribers(key))
  OBVIOUS
<1>8. /\ \A i \in DOMAIN evts :
           /\ evts[i].uid = <<key, 1>> /\ evts[i].subs # {}
           /\ \/ evts[i].type = "Create" /\ evts[i].subs = subs \ Subscribers(key)
              \/ /\ evts[i].type = "Update"
                 /\ evts[i].subs = UpdatedFor(subs, Subscribers(key), updated)
              \/ evts[i].type = "Delete" /\ evts[i].subs = Subscribers(key) \ subs
      /\ \A i, j \in DOMAIN evts : i # j => evts[i].type # evts[j].type
  <2>1. PICK uid \in Uid, prev \in SUBSET Subs : uid = <<key, 1>> /\ prev = Subscribers(key)
    BY <1>2 DEF Uid
  <2>2. evts = ToEvents(uid, data, updated, subs, prev)
    BY <1>7, <2>1
  <2>3. IsBatch(evts, uid, data, updated, subs, prev)
    BY <2>2, ToEventsBatch
  <2>4. QED
    BY <2>1, <2>3 DEF IsBatch
<1>9. UpdatedFor(subs, Subscribers(key), updated) \subseteq subs \cap Subscribers(key)
  BY DEF UpdatedFor
<1>10. ASSUME NEW i \in DOMAIN evts
       PROVE  Sound(evts[i])' /\ evts[i].uid[1] = key
  <2>1. evts[i].subs \subseteq subs \cup Subscribers(key)
    BY <1>8, <1>9
  <2>2. \A sub \in evts[i].subs : Fits(key, sub)'
    BY <1>1, <1>2, <2>1
  <2>3. evts[i].uid[1] = key /\ evts[i].uid[2] = 1 /\ evts[i].subs # {}
    BY <1>8
  <2>4. born'[key] = 1
    BY <2>2, <2>3 DEF Fits
  <2>5. PICK evt : evt = evts[i]
    OBVIOUS
  <2>6. Sound(evt)'
    BY <2>2, <2>3, <2>4, <2>5 DEF Sound
  <2>7. QED
    BY <2>3, <2>5, <2>6 DEF Sound, Fits, Exists
<1>11. \A i, j \in DOMAIN evts : i # j => evts[i].subs \cap evts[j].subs = {}
  <2> SUFFICES ASSUME NEW i \in DOMAIN evts, NEW j \in DOMAIN evts, i # j
               PROVE  evts[i].subs \cap evts[j].subs = {}
    OBVIOUS
  <2>1. evts[i].type # evts[j].type
    BY <1>8
  <2>2. QED
    BY <1>8, <1>9, <2>1
<1>12. w.pc = "push" => Kind(w.key) = kind
  BY <1>4 DEF Settles
<1>13. \A i \in DOMAIN evts : w.key = key
  BY <1>4, <1>7
<1>14. work'[kind].evts = evts /\ work'[kind].key = w.key /\ work'[kind].pc = w.pc
  BY <1>4, <1>5, <1>7
<1>15. Batch(kind)'
  BY <1>10, <1>11, <1>12, <1>13, <1>14 DEF Batch, Sound, Fits, Exists
<1>16. QED
  BY <1>3, <1>6, <1>15

\* A worker keeps the lineage of its objects, entries and events.
LEMMA LineageReconcile ==
  ASSUME NoReuse, TypeOK, SubscriberLife, Lineage, [Next]_vars,
         NEW kind \in Kinds, Reconcile(kind)
  PROVE  /\ \A key \in Keys : Entry(key)'
         /\ \A k \in Kinds : Job(k)' /\ Batch(k)'
         /\ Queued'
<1> DEFINE w == work[kind]
           Goal == /\ \A key \in Keys : Entry(key)'
                   /\ \A k \in Kinds : Job(k)' /\ Batch(k)'
                   /\ Queued'
<1>1. /\ \A key \in Keys, sub \in Subs : Fits(key, sub) => Fits(key, sub)'
      /\ \A key \in Keys, sub \in Subs : Registered(key, sub) => Registered(key, sub)'
      /\ \A key \in Keys, obj \in Object : Older(key, obj) => Older(key, obj)'
      /\ \A evt \in Event : Sound(evt) => Sound(evt)'
  BY Kept DEF Lineage
<1>2. /\ Births
      /\ \A key \in Keys : Entry(key) /\ (Cached(key) => cache[key].subs \in SUBSET Subs)
      /\ \A k \in Kinds : Job(k) /\ Batch(k)
  BY DEF Lineage, TypeOK, CollectorsTypeOK, Cached, CacheEntry
<1>3. ASSUME NEW record, Moves(kind, record), UNCHANGED cache, UNCHANGED queue,
             Job(kind)', Batch(kind)'
      PROVE  Goal
  BY <1>3, Untouched DEF Moves
<1>4. ASSUME NEW key \in Keys, Kind(key) = kind, NEW record, Moves(kind, record),
             \A k \in Keys \ {key} : cache'[k] = cache[k], UNCHANGED queue,
             Entry(key)', Job(kind)', Batch(kind)'
      PROVE  Goal
  <2>1. \A k \in Keys : Entry(k)'
    BY <1>4, Untouched
  <2>2. ASSUME NEW k \in Kinds \ {kind}
        PROVE  Job(k)' /\ Batch(k)'
    <3>1. work'[k] = work[k]
      BY <1>4 DEF Moves
    <3>2. Reading(k) => work[k].key \in Keys /\ Kind(work[k].key) = k
      BY <1>2, WorkPhases DEF Job
    <3>3. Reading(k) => cache'[work[k].key] = cache[work[k].key]
      BY <1>4, <3>2
    <3>4. QED
      BY <3>1, <3>3, Untouched
  <2>3. QED
    BY <1>4, <2>1, <2>2, Untouched
<1>5. ASSUME work'[kind] = WorkIdle
      PROVE  Job(kind)' /\ Batch(kind)'
  <2>1. WorkIdle.pc = "idle" /\ DOMAIN WorkIdle.evts = {}
    BY DEF WorkIdle
  <2>2. QED
    BY <1>5, <2>1 DEF Job, Batch, Reading
<1>6. ASSUME NEW key \in Keys, Begins(kind, key)
      PROVE  Goal
  <2>1. PICK record : /\ Moves(kind, record)
                      /\ record = [WorkIdle EXCEPT !.pc = IF kind = "Pod" THEN "subs" ELSE "list",
                                                   !.key = key, !.obj = store[key]]
    BY <1>6 DEF Begins
  <2>2. /\ record.key = key /\ record.obj = store[key] /\ record.subs = {}
        /\ DOMAIN record.evts = {} /\ record.pc \in {"subs", "list"}
    BY <2>1 DEF WorkIdle
  <2>3. Kind(key) = kind /\ Exists(key) /\ UNCHANGED <<cache, queue>>
    BY <1>6 DEF Begins
  <2>4. store[key] \in Object
    BY <2>3 DEF Exists, TypeOK, ClusterTypeOK
  <2>5. Older(key, store[key])
    BY <1>2, <2>3, <2>4 DEF Older, Births, Object
  <2>6. PICK obj \in Object : obj = store[key] /\ Older(key, obj)'
    BY <1>1, <2>4, <2>5
  <2>7. kind = "Pod" /\ Cached(key)' => \A sub \in cache'[key].subs : obj.node = NodeOf[sub]
    BY <1>2, <2>3, <2>6, KindType DEF Entry, Fits, Cached
  <2>8. work'[kind].key = key /\ work'[kind].obj = obj /\ work'[kind].subs = {}
        /\ DOMAIN work'[kind].evts = {} /\ work'[kind].pc \in {"subs", "list"}
    BY <2>1, <2>2, <2>6 DEF Moves
  <2>9. Job(kind)' /\ Batch(kind)'
    BY <2>3, <2>6, <2>7, <2>8 DEF Job, Batch, Older, Exists, Cached
  <2>10. QED
    BY <1>3, <2>1, <2>3, <2>9
<1>7. ASSUME NEW key \in Keys, NEW data \in Data, NEW subs \in SUBSET Subs,
             Settles(kind, key, data, subs),
             \A sub \in subs : Fits(key, sub) /\ Registered(key, sub)
      PROVE  Goal
  <2>1. Entry(key)' /\ Job(kind)' /\ Batch(kind)'
    BY <1>7, SettlesLineage
  <2>2. QED
    BY <1>4, <1>7, <2>1 DEF Settles
<1>8. ASSUME NEW subs \in SUBSET Subs, Continues(kind, subs)
      PROVE  Goal
  <2>1. /\ Reading(kind) /\ w \in WorkRead /\ w.key \in Keys /\ w.obj \in Object
        /\ w.evts = <<>> /\ UNCHANGED <<cache, queue>>
    BY <1>8, WorkPhases DEF Continues
  <2>2. PICK pc \in {"refs", "nodes"}, todo \in SUBSET (Pods \X Nodes) :
          Moves(kind, [w EXCEPT !.pc = pc, !.todo = todo, !.subs = subs])
    BY <1>8 DEF Continues
  <2>3. /\ work'[kind].key = w.key /\ work'[kind].obj = w.obj /\ work'[kind].subs = subs
        /\ work'[kind].evts = <<>> /\ work'[kind].pc = pc
    BY <2>1, <2>2 DEF Moves, WorkRead
  <2>4. \A sub \in subs : /\ Fits(w.key, sub) /\ Registered(w.key, sub)
                          /\ kind = "Pod" => w.obj.node = NodeOf[sub]
    BY <1>8, <2>1, FoundFits DEF Continues
  <2>5. PICK kk \in Keys, oo \in Object : kk = w.key /\ oo = w.obj
    BY <2>1
  <2>6. Older(kk, oo)' /\ \A sub \in subs : Fits(kk, sub)' /\ Registered(kk, sub)'
    BY <1>1, <1>2, <2>1, <2>4, <2>5 DEF Job
  <2>7. Job(kind)'
    BY <1>2, <2>1, <2>3, <2>4, <2>5, <2>6 DEF Job, Older, Fits, Registered, Exists, Cached
  <2>8. Batch(kind)'
    <3>1. DOMAIN work'[kind].evts = {} /\ work'[kind].pc # "push"
      BY <2>2, <2>3
    <3>2. QED
      BY <3>1 DEF Batch
  <2>9. QED
    BY <1>3, <2>1, <2>2, <2>7, <2>8
<1>9. CASE kind = "Pod" /\ DropsPod
  <2>1. /\ w.key \in Keys /\ Kind(w.key) = kind /\ Moves(kind, WorkIdle) /\ UNCHANGED queue
        /\ cache' = [cache EXCEPT ![w.key] = None]
    BY <1>2, <1>9, WorkPhases DEF DropsPod, Reading, Job
  <2>2. \A k \in Keys \ {w.key} : cache'[k] = cache[k]
    BY <2>1 DEF TypeOK, CollectorsTypeOK
  <2>3. Job(kind)' /\ Batch(kind)'
    BY <1>5, <2>1 DEF Moves
  <2>4. PICK key \in Keys : key = w.key
    BY <2>1
  <2>5. Entry(key)'
    BY <2>1, <2>4 DEF Entry, Cached, TypeOK, CollectorsTypeOK
  <2>6. QED
    BY <1>4, <2>1, <2>2, <2>3, <2>4, <2>5
<1>10. CASE GivesUp(kind)
  BY <1>3, <1>5, <1>10 DEF GivesUp, Moves
<1>11. CASE Pushes(kind)
  <2> DEFINE evts == w.evts
             record == IF Tail(evts) = <<>> THEN WorkIdle
                       ELSE [WorkIdle EXCEPT !.pc = "push", !.key = w.key, !.refs = w.refs,
                                             !.evts = Tail(evts)]
  <2>1. w.pc = "push" /\ w.key \in Keys /\ evts \in Seq(Event) /\ evts # <<>> /\ Batch(kind)
    BY <1>2, <1>11, WorkPhases DEF Pushes
  <2>2. queue' = Append(queue, Head(evts)) /\ Moves(kind, record) /\ UNCHANGED cache
    BY <1>11 DEF Pushes
  <2>3. PICK es \in Seq(Event) : es = evts
    BY <2>1
  <2>4. /\ Head(es) = es[1] /\ Head(es) \in Event /\ 1 \in DOMAIN es
        /\ Tail(es) \in Seq(Event)
        /\ \A i \in DOMAIN Tail(es) :
             i \in Nat /\ i > 0 /\ i + 1 \in DOMAIN es /\ Tail(es)[i] = es[i + 1]
    BY <2>1, <2>3, Tailed
  <2>5. /\ record.evts = Tail(es)
        /\ Tail(es) # <<>> => record.key = w.key
        /\ record.pc = "push" => record.key = w.key
        /\ record.pc \in {"idle", "push"}
    BY <2>3 DEF WorkIdle
  <2>6. \A i \in DOMAIN es : /\ Sound(es[i]) /\ es[i].uid[1] = w.key /\ es[i] \in Event
    BY <2>1, <2>3 DEF Batch
  <2>7. \A i \in DOMAIN es : Sound(es[i])'
    BY <1>1, <2>6
  <2>8. Queued'
    <3>1. queue \in Seq(Event) /\ \A i \in DOMAIN queue : queue[i] \in Event /\ Sound(queue[i])
      BY DEF TypeOK, BlockingChannelTypeOK, Lineage, Queued
    <3>2. /\ DOMAIN queue' = DOMAIN queue \cup {Len(queue) + 1}
          /\ queue'[Len(queue) + 1] = es[1]
          /\ \A i \in DOMAIN queue : queue'[i] = queue[i]
      BY <2>2, <2>3, <2>4, <3>1, Appended
    <3>3. \A i \in DOMAIN queue : Sound(queue[i])'
      <4>1. PICK q \in Seq(Event) : q = queue
        BY <3>1
      <4>2. \A i \in DOMAIN q : Sound(q[i])'
        BY <1>1, <3>1, <4>1
      <4>3. \A i \in DOMAIN q : queue'[i] = q[i]
        BY <3>2, <4>1
      <4>4. QED
        BY <3>2, <4>1, <4>2, <4>3 DEF Sound, Fits, Exists
    <3>4. QED
      BY <2>4, <2>7, <3>2, <3>3 DEF Queued, Sound, Fits, Exists
  <2>9. Job(kind)' /\ Batch(kind)'
    <3>1. /\ work'[kind].evts = Tail(es)
          /\ Tail(es) # <<>> => work'[kind].key = w.key
          /\ work'[kind].pc = "push" => work'[kind].key = w.key
          /\ work'[kind].pc \in {"idle", "push"}
      BY <2>2, <2>5 DEF Moves
    <3>2. Job(kind)'
      BY <3>1 DEF Job, Reading
    <3>3. \A i \in DOMAIN Tail(es) : Sound(Tail(es)[i])' /\ Tail(es)[i].uid[1] = w.key
      BY <2>4, <2>6, <2>7
    <3>4. \A i, j \in DOMAIN Tail(es) : i # j => Tail(es)[i].subs \cap Tail(es)[j].subs = {}
      <4>1. \A i, j \in DOMAIN es : i # j => es[i].subs \cap es[j].subs = {}
        BY <2>1, <2>3 DEF Batch
      <4>2. QED
        BY <2>4, <4>1
    <3>5. Kind(w.key) = kind
      BY <2>1 DEF Batch
    <3>6. \A i \in DOMAIN Tail(es) : work'[kind].key = w.key
      <4>1. DOMAIN Tail(es) # {} => Tail(es) # <<>>
        OBVIOUS
      <4>2. QED
        BY <3>1, <4>1
    <3>7. PICK tl, key : tl = Tail(es) /\ key = w.key
      OBVIOUS
    <3>8. \A i \in DOMAIN tl : Sound(tl[i])' /\ tl[i].uid[1] = key
      BY <3>3, <3>7
    <3>9. QED
      BY <3>1, <3>2, <3>4, <3>5, <3>6, <3>7, <3>8 DEF Batch, Sound, Fits, Exists
  <2>10. QED
    BY <2>2, <2>8, <2>9, Untouched DEF Moves
<1>12. NoData \in Data /\ (Reading(kind) => w.key \in Keys)
  BY WorkPhases DEF NoData, Data
<1>13. ASSUME NEW data \in Data, NEW subs \in SUBSET Subs, Reading(kind), Found(kind, subs),
              Settles(kind, w.key, data, subs)
       PROVE  Goal
  BY <1>7, <1>12, <1>13, FoundFits
<1>14. QED
  BY <1>6, <1>7, <1>8, <1>9, <1>10, <1>11, <1>12, <1>13, ReconcileCases

-----------------------------------------------------------------------------
(***************************************************************************)
(* The steps of the broker.                                                *)
(***************************************************************************)

\* What the broker holds.
LEMMA Held ==
  ASSUME NEW evt, NEW todo, NEW con, NEW b, b = Holding(evt, todo, con)
  PROVE  /\ b.todo = todo /\ b.con = con
         /\ todo # {} \/ con # None => b.evt = evt
BY DEF Holding, BroIdle

\* The broker takes the first event of the queue.
Takes ==
  /\ ~Busy /\ queue # <<>>
  /\ queue' = Tail(queue)
  /\ bro'.todo = Head(queue).subs /\ bro'.con = None
  /\ Busy' => bro'.evt = Head(queue)
  /\ UNCHANGED <<mirror, watchVars>>

\* It looks a subscriber up.
LooksUp(sub) ==
  /\ bro.con = None /\ sub \in bro.todo
  /\ bro'.todo = bro.todo \ {sub}
  /\ bro'.con \in {sub, None} /\ (sub \in conns => bro'.con = sub)
  /\ Busy' => bro'.evt = bro.evt
  /\ UNCHANGED <<mirror, queue, watchVars>>

\* It is done with a subscriber, who got the event or missed it.
Served(sub) ==
  /\ bro.con = sub
  /\ bro'.todo = bro.todo /\ bro'.con = None
  /\ Busy' => bro'.evt = bro.evt
  /\ UNCHANGED <<queue, watch, conns, ended>>

Sends(sub) ==
  /\ Served(sub)
  /\ mirror' = [mirror EXCEPT ![sub] = Apply(@, bro.evt)]
  /\ UNCHANGED <<errors, closed>>

Misses(sub) ==
  /\ Served(sub)
  /\ closed' = closed \cup {sub}
  /\ UNCHANGED mirror

\* The cases of a step of the broker.
LEMMA BrokerCases ==
  ASSUME TypeOK, BrokerStep
  PROVE  \/ Takes
         \/ \E sub \in Subs : LooksUp(sub) \/ Sends(sub) \/ Misses(sub)
<1>1. ASSUME NEW evt, NEW todo, NEW con, bro' = Holding(evt, todo, con)
      PROVE  /\ bro'.todo = todo /\ bro'.con = con
             /\ Busy' => bro'.evt = evt
  <2>1. PICK b : b = bro'
    OBVIOUS
  <2>2. /\ b.todo = todo /\ b.con = con
        /\ todo # {} \/ con # None => b.evt = evt
    BY <1>1, <2>1, Held
  <2>3. QED
    BY <2>1, <2>2 DEF Busy
<1>2. CASE PopEvent
  <2>1. ~Busy
    BY <1>2 DEF PopEvent, Busy, BroIdle
  <2>2. PICK evt, todo : evt = Head(queue) /\ todo = Head(queue).subs
    OBVIOUS
  <2>3. bro' = Holding(evt, todo, None)
    BY <1>2, <2>2 DEF PopEvent
  <2>4. QED
    BY <1>1, <1>2, <2>1, <2>2, <2>3 DEF PopEvent, Pop, Takes
<1>3. ASSUME NEW sub \in Subs, LoadConnection(sub)
      PROVE  LooksUp(sub)
  <2>1. PICK evt, todo, con : /\ evt = bro.evt /\ todo = bro.todo \ {sub}
                              /\ con = IF sub \in conns THEN sub ELSE None
    OBVIOUS
  <2>2. bro' = Holding(evt, todo, con)
    BY <1>3, <2>1 DEF LoadConnection
  <2>3. QED
    BY <1>1, <1>3, <2>1, <2>2 DEF LoadConnection, LooksUp
<1>4. ASSUME NEW sub \in Subs, bro.con = sub, bro' = Holding(bro.evt, bro.todo, None),
             UNCHANGED <<queue, watch, conns, ended>>
      PROVE  Served(sub)
  <2>1. PICK evt, todo : evt = bro.evt /\ todo = bro.todo
    OBVIOUS
  <2>2. bro' = Holding(evt, todo, None)
    BY <1>4, <2>1
  <2>3. QED
    BY <1>1, <1>4, <2>1, <2>2 DEF Served
<1>5. ASSUME NEW sub \in Subs, Send(sub)
      PROVE  Sends(sub)
  BY <1>4, <1>5 DEF Send, Sends, watchVars
<1>6. ASSUME NEW sub \in Subs, SendFails(sub)
      PROVE  Misses(sub)
  <2>1. closed' = closed \cup {sub}
    BY <1>6 DEF SendFails, Close, SendsError, SendError
  <2>2. QED
    BY <1>4, <1>6, <2>1 DEF SendFails, Misses
<1>7. QED
  BY <1>2, <1>3, <1>5, <1>6 DEF BrokerStep

\* A message changes what a client knows of one resource.
LEMMA Applied ==
  ASSUME NEW items \in SUBSET Item, NEW evt \in Event, NEW new, new = Apply(items, evt)
  PROVE  /\ \A item \in new : \/ item \in items /\ item.uid # evt.uid
                              \/ /\ evt.type # "Delete"
                                 /\ item = [uid |-> evt.uid, data |-> evt.data]
                                 /\ item.uid = evt.uid /\ item.data = evt.data
         /\ \A item \in items : item.uid # evt.uid => item \in new
         /\ (\E item \in new : item.uid = evt.uid) <=> evt.type # "Delete"
<1> DEFINE it == [uid |-> evt.uid, data |-> evt.data]
<1>1. it.uid = evt.uid /\ it.data = evt.data
  OBVIOUS
<1> HIDE DEF it
<1>2. new = IF evt.type = "Delete" THEN {i \in items : i.uid # evt.uid}
            ELSE {i \in items : i.uid # evt.uid} \cup {it}
  BY DEF Apply, it
<1>3. QED
  BY <1>1, <1>2 DEF it

\* The broker keeps the lineage of the events and of the clients' resources.
LEMMA LineageBroker ==
  ASSUME NoReuse, TypeOK, SubscriberLife, Lineage, [Next]_vars, BrokerStep
  PROVE  /\ Queued' /\ InHand'
         /\ \A sub \in Subs : Items(sub)' /\ Unused(sub)'
<1>1. /\ \A key \in Keys, sub \in Subs : Fits(key, sub) => Fits(key, sub)'
      /\ \A evt \in Event : Sound(evt) => Sound(evt)'
  BY Kept DEF Lineage
<1>2. /\ \A sub \in Subs : Unused(sub)
      /\ InHand
      /\ Queued
      /\ queue \in Seq(Event)
      /\ Busy => bro.evt \in Event /\ bro.evt.subs \in SUBSET Subs
  BY DEF Lineage, TypeOK, BlockingChannelTypeOK, BrokerTypeOK, BroBusy, BroIdle, Busy, Event
<1>3. CASE Takes
  <2>1. PICK q \in Seq(Event) : q = queue /\ q # <<>>
    BY <1>2, <1>3 DEF Takes
  <2>2. PICK evt \in Event : evt = Head(q) /\ evt = q[1] /\ 1 \in DOMAIN q
    BY <2>1, Tailed
  <2>3. \A i \in DOMAIN q : Sound(q[i])'
    <3>1. \A i \in DOMAIN q : q[i] \in Event /\ Sound(q[i])
      BY <1>2, <2>1 DEF Queued
    <3>2. QED
      BY <1>1, <3>1
  <2>4. Queued'
    <3>1. PICK t : t = Tail(q)
      OBVIOUS
    <3>2. \A i \in DOMAIN t : Sound(t[i])'
      BY <2>1, <2>3, <3>1, Tailed
    <3>3. queue' = t
      BY <1>3, <2>1, <3>1 DEF Takes
    <3>4. QED
      BY <3>2, <3>3 DEF Queued, Sound, Fits, Exists
  <2>5. InHand'
    <3>1. Sound(evt)'
      BY <2>2, <2>3
    <3>2. bro'.todo = evt.subs /\ bro'.con = None /\ (Busy' => bro'.evt = evt)
      BY <1>3, <2>1, <2>2 DEF Takes
    <3>3. QED
      BY <3>1, <3>2 DEF InHand, Sound, Fits, Exists
  <2>6. \A sub \in Subs : Items(sub)' /\ Unused(sub)'
    BY <1>2, <1>3, Untouched DEF Takes, watchVars, Unused
  <2>7. QED
    BY <2>4, <2>5, <2>6
<1>4. ASSUME Busy, Busy' => bro'.evt = bro.evt, bro'.todo \subseteq bro.todo,
             bro'.con # None => bro'.con \in bro.todo \ bro'.todo
      PROVE  InHand'
  <2>1. PICK evt \in Event : evt = bro.evt /\ Sound(evt)
    BY <1>2, <1>4 DEF InHand
  <2>2. Sound(evt)'
    BY <1>1, <2>1
  <2>3. bro.todo \subseteq evt.subs
    BY <1>2, <1>4, <2>1 DEF InHand
  <2>4. QED
    BY <1>4, <2>1, <2>2, <2>3 DEF InHand, Sound, Fits, Exists
<1>5. ASSUME NEW sub \in Subs, LooksUp(sub)
      PROVE  Queued' /\ InHand' /\ \A s \in Subs : Items(s)' /\ Unused(s)'
  <2>1. InHand'
    BY <1>4, <1>5 DEF LooksUp, Busy
  <2>2. QED
    BY <1>2, <1>5, <2>1, Untouched DEF LooksUp, watchVars, Unused
<1>6. ASSUME NEW sub \in Subs, Served(sub)
      PROVE  /\ Queued' /\ InHand' /\ sub # None /\ Busy
             /\ bro.evt \in Event /\ Sound(bro.evt) /\ Fits(bro.evt.uid[1], sub)
             /\ watch[sub].phase # "new"
  <2>1. sub # None /\ Busy
    BY <1>6, KeysAssumption DEF Served, Busy
  <2>2. InHand'
    BY <1>4, <1>6, <2>1 DEF Served
  <2>3. bro.evt \in Event /\ Sound(bro.evt) /\ Fits(bro.evt.uid[1], sub)
    BY <1>2, <1>6, <2>1 DEF InHand, Sound, Served
  <2>4. QED
    BY <1>6, <2>1, <2>2, <2>3, Untouched DEF Served, Fits
<1>7. ASSUME NEW sub \in Subs, Misses(sub)
      PROVE  Queued' /\ InHand' /\ \A s \in Subs : Items(s)' /\ Unused(s)'
  <2>1. Served(sub)
    BY <1>7 DEF Misses
  <2>2. QED
    BY <1>2, <1>6, <1>7, <2>1, Untouched DEF Misses, Served, Unused
<1>8. ASSUME NEW sub \in Subs, Sends(sub)
      PROVE  Queued' /\ InHand' /\ \A s \in Subs : Items(s)' /\ Unused(s)'
  <2>1. Served(sub) /\ UNCHANGED <<watch, ended, closed>>
    BY <1>8 DEF Sends, Served
  <2>2. \A s \in Subs : Unused(s)'
    BY <1>2, <2>1 DEF Unused
  <2>3. mirror \in [Subs -> SUBSET Item]
    BY DEF TypeOK, BrokerTypeOK
  <2>4. \A s \in Subs \ {sub} : Items(s)'
    BY <1>8, <2>3, Untouched DEF Sends
  <2>5. PICK evt \in Event, items \in SUBSET Item, new \in {mirror'[sub]} :
          evt = bro.evt /\ items = mirror[sub] /\ new = mirror'[sub] /\ new = Apply(items, evt)
    BY <1>6, <1>8, <2>1, <2>3 DEF Sends
  <2>6. Fits(evt.uid[1], sub)' /\ evt.uid[2] = 1
    BY <1>1, <1>6, <2>1, <2>5 DEF Sound, Event, Uid
  <2>7. \A item \in items : /\ item.uid[2] = 1 /\ Fits(item.uid[1], sub)'
                            /\ \A other \in items : other.uid = item.uid => other = item
    <3>1. \A item \in items : item.uid[1] \in Keys
      BY DEF Item, Uid
    <3>2. QED
      BY <1>1, <2>5, <3>1 DEF Lineage, Items
  <2>8. \A item \in new : /\ item.uid[2] = 1 /\ Fits(item.uid[1], sub)'
                          /\ \A other \in new : other.uid = item.uid => other = item
    <3>1. \A item \in new : \/ item \in items /\ item.uid # evt.uid
                            \/ /\ item = [uid |-> evt.uid, data |-> evt.data]
                               /\ item.uid = evt.uid
      BY <2>5, Applied
    <3>2. PICK it : it = [uid |-> evt.uid, data |-> evt.data]
      OBVIOUS
    <3>3. \A item \in new : \/ item \in items /\ item.uid # evt.uid
                            \/ item = it /\ item.uid = evt.uid
      BY <3>1, <3>2
    <3>4. ASSUME NEW item \in new
          PROVE  item.uid[2] = 1 /\ Fits(item.uid[1], sub)'
      BY <2>6, <2>7, <3>3 DEF Fits, Exists
    <3>5. QED
      BY <2>7, <3>3, <3>4
  <2>9. Items(sub)'
    BY <2>5, <2>8 DEF Items, Fits, Exists
  <2>10. QED
    BY <1>6, <2>1, <2>2, <2>4, <2>9
<1>9. QED
  BY <1>3, <1>5, <1>7, <1>8, BrokerCases

\* No step breaks the lineage.
LEMMA LineageStep ==
  ASSUME NoReuse, TypeOK, SubscriberLife, Lineage, [Next]_vars
  PROVE  Lineage'
<1>1. Births'
  BY Kept DEF Lineage
<1>2. \A sub \in Subs : Unused(sub)
  BY DEF Lineage
<1>3. ASSUME NEW kind \in Kinds, Reconcile(kind)
      PROVE  Lineage'
  <2>1. UNCHANGED <<bro, mirror, watch, ended, closed>>
    BY <1>3 DEF Reconcile, broVars, watchVars
  <2>2. InHand' /\ \A sub \in Subs : Items(sub)' /\ Unused(sub)'
    BY <1>2, <2>1, Untouched DEF Unused
  <2>3. QED
    BY <1>1, <1>3, <2>2, LineageReconcile DEF Lineage
<1>4. ASSUME UNCHANGED <<cache, work>>
      PROVE  (\A key \in Keys : Entry(key)') /\ (\A k \in Kinds : Job(k)' /\ Batch(k)')
  BY <1>4, Untouched
<1>5. CASE BrokerStep
  <2>1. UNCHANGED <<cache, work>>
    BY <1>5 DEF BrokerStep
  <2>2. QED
    BY <1>1, <1>4, <1>5, <2>1, LineageBroker DEF Lineage
<1>6. ASSUME UNCHANGED <<cache, work, queue, bro, mirror>>, \A sub \in Subs : Unused(sub)'
      PROVE  Lineage'
  BY <1>1, <1>4, <1>6, Untouched DEF Lineage
<1>7. CASE UNCHANGED vars
  BY <1>2, <1>6, <1>7 DEF vars, watchVars, broVars, Unused
<1>8. CASE \/ ClusterStep \/ SliceChanges \/ DispatchSlices
           \/ \E key \in Keys : DeliverTrigger(key)
           \/ \E kind \in Kinds : Dispatch(kind)
  <2>1. UNCHANGED <<cache, work, queue, watchVars, broVars>>
    BY <1>8 DEF ClusterStep, SliceChanges, DispatchSlices, DeliverTrigger, Dispatch
  <2>2. QED
    BY <1>2, <1>6, <2>1 DEF watchVars, broVars, Unused
<1>9. ASSUME NEW s \in Subs,
             StartWatch(s) \/ EndStream(s) \/ LeaveWatch(s) \/ \E kind \in Kinds : Notify(s, kind)
      PROVE  Lineage'
  <2>1. UNCHANGED <<cache, work, queue, bro, mirror>> /\ UNCHANGED closed
    BY <1>9 DEF StartWatch, Watch, EndStream, StreamEnds, LeaveWatch, LeaveOnStreamEnd,
       LeaveOnError, Notify, NotifyCollector, broVars
  <2>2. ended' = ended \/ (ended' = ended \cup {s} /\ watch[s].phase # "new")
    BY <1>9 DEF StartWatch, Watch, EndStream, StreamEnds, LeaveWatch, LeaveOnStreamEnd,
       LeaveOnError, Notify, NotifyCollector
  <2>3. \A sub \in Subs : Unused(sub)'
    BY <1>2, <2>1, <2>2, PhaseStep DEF Unused
  <2>4. QED
    BY <1>6, <2>1, <2>3
<1>10. QED
  BY <1>3, <1>5, <1>7, <1>8, <1>9 DEF Next

\* The invariant of the streams.
LEMMA LineageInvariant ==
  ASSUME NoReuse
  PROVE  Spec => [](TypeOK /\ SubscriberLife /\ Lineage)
<1> DEFINE Inv == TypeOK /\ SubscriberLife /\ Lineage
<1>1. Init => Inv
  BY InitType, LifeInit, LineageInit
<1>2. Inv /\ [Next]_vars => Inv'
  BY StepType, LifeStep, LineageStep
<1>3. QED
  BY <1>1, <1>2, PTL DEF Spec

-----------------------------------------------------------------------------
(***************************************************************************)
(* An entry that is dropped is deleted for those who had it.               *)
(***************************************************************************)

\* A step that drops an entry leaves a Delete for each of its subscribers.
LEMMA DroppedStep ==
  ASSUME NoReuse, TypeOK, SubscriberLife, Lineage, Next, NEW key \in Keys,
         Cached(key), cache'[key] = None,
         NEW sub \in cache[key].subs, sub \in registry[Kind(key)][NodeOf[sub]]
  PROVE  \E i \in DOMAIN work'[Kind(key)].evts :
           LET evt == work'[Kind(key)].evts[i] IN
           evt.type = "Delete" /\ evt.uid = cache[key].uid /\ sub \in evt.subs
<1> DEFINE Goal == \E i \in DOMAIN work'[Kind(key)].evts :
                     LET evt == work'[Kind(key)].evts[i] IN
                     evt.type = "Delete" /\ evt.uid = cache[key].uid /\ sub \in evt.subs
<1>1. /\ cache[key] \in CacheEntry /\ sub \in Subs /\ cache[key].uid = <<key, 1>>
      /\ cache' # cache /\ ~Cached(key)'
  BY DEF TypeOK, CollectorsTypeOK, Cached, CacheEntry, Lineage, Entry
<1>2. PICK kind \in Kinds : Reconcile(kind)
  BY <1>1 DEF Next, ClusterStep, SliceChanges, DispatchSlices, DeliverTrigger, Dispatch,
     StartWatch, EndStream, LeaveWatch, Notify, BrokerStep
<1>3. ASSUME NEW k \in Keys, NEW data \in Data, NEW subs \in SUBSET Subs,
             Settles(kind, k, data, subs)
      PROVE  Goal
  <2>1. k = key
    BY <1>1, <1>3 DEF Settles, Cached
  <2>2. subs = {} /\ Kind(key) = kind
    BY <1>1, <1>3, <2>1 DEF Settles, Subscribers
  <2>3. PICK updated \in BOOLEAN, w \in WorkPush \cup {WorkIdle} :
          /\ work'[kind] = w
          /\ w.evts = ToEvents(<<key, 1>>, data, updated, subs, Subscribers(key))
    BY <1>3, <2>1 DEF Settles, Moves
  <2>4. PICK uid \in Uid, prev \in SUBSET Subs, evts \in {w.evts} :
          /\ uid = <<key, 1>> /\ prev = cache[key].subs
          /\ evts = ToEvents(uid, data, updated, subs, prev)
    BY <1>1, <2>3 DEF Uid, CacheEntry, Subscribers
  <2>5. IsBatch(evts, uid, data, updated, subs, prev)
    BY <2>4, ToEventsBatch
  <2>6. PICK i \in DOMAIN evts : evts[i].type = "Delete" /\ sub \in evts[i].subs /\ evts[i].uid = uid
    <3>1. sub \in prev \ subs
      BY <2>2, <2>4
    <3>2. QED
      BY <2>5, <3>1 DEF IsBatch
  <2>7. work'[kind].evts = evts
    BY <2>3, <2>4 DEF Subscribers
  <2>8. QED
    BY <1>1, <2>2, <2>4, <2>6, <2>7
<1>4. CASE kind = "Pod" /\ DropsPod
  <2> DEFINE w == work["Pod"]
  <2>1. /\ Job(kind) /\ Reading(kind) /\ w.key \in Keys
        /\ w.obj.node # None => registry["Pod"][w.obj.node] = {}
    BY <1>4, WorkPhases DEF Lineage, DropsPod, Reading
  <2>2. cache' = [cache EXCEPT ![w.key] = None]
    BY <1>4 DEF DropsPod
  <2>3. w.key = key
    BY <1>1, <2>1, <2>2 DEF TypeOK, CollectorsTypeOK, Cached
  <2>4. w.obj.node = NodeOf[sub] /\ Kind(key) = "Pod"
    BY <1>4, <2>1, <2>3 DEF Job
  <2>5. NodeOf[sub] # None
    BY <1>1, SubscribersAssumption, KeysAssumption
  <2>6. QED
    BY <2>1, <2>4, <2>5
<1>5. NoData \in Data
  BY DEF NoData, Data
<1>6. Reading(kind) => work[kind].key \in Keys
  BY <1>2, WorkPhases
<1>7. /\ \A k \in Keys : ~Begins(kind, k)
      /\ \A subs \in SUBSET Subs : ~Continues(kind, subs)
      /\ ~GivesUp(kind) /\ ~Pushes(kind)
  BY <1>1 DEF Begins, Continues, GivesUp, Pushes
<1>8. \/ \E k \in Keys, data \in Data, subs \in SUBSET Subs : Settles(kind, k, data, subs)
      \/ kind = "Pod" /\ DropsPod
  BY <1>2, <1>5, <1>6, <1>7, ReconcileCases
<1>9. QED
  BY <1>3, <1>4, <1>8

\* As long as no name is used again, a collector drops the cache entry of a
\* resource only if every subscriber of the entry that is still registered is
\* about to get a Delete for it: the pod collector, which drops an entry
\* without an event, does so only when nobody is left to hear of it.
THEOREM DropsAreAnnounced ==
  ASSUME NoReuse
  PROVE  Spec => DroppedIsDeleted
<1> DEFINE Inv == TypeOK /\ SubscriberLife /\ Lineage
           Dropped == \A key \in Keys :
                        Cached(key) /\ cache'[key] = None =>
                          \A sub \in cache[key].subs :
                            sub \in registry[Kind(key)][NodeOf[sub]] =>
                              \E i \in DOMAIN work'[Kind(key)].evts :
                                LET evt == work'[Kind(key)].evts[i] IN
                                evt.type = "Delete" /\ evt.uid = cache[key].uid /\ sub \in evt.subs
<1>1. Inv /\ [Next]_vars => [Dropped]_vars
  <2> SUFFICES ASSUME Inv, Next PROVE Dropped
    OBVIOUS
  <2> QED
    BY DroppedStep
<1>2. Spec => []Inv
  BY LineageInvariant
<1>3. Spec => [][Dropped]_vars
  BY <1>1, <1>2, PTL DEF Spec
<1>4. QED
  BY <1>3 DEF DroppedIsDeleted
=============================================================================
