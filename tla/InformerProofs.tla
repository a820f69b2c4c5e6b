---------------------------- MODULE InformerProofs ----------------------------
(***************************************************************************)
(* The safety of the watch streams, for every idle timeout, every interval *)
(* of bookmarks shorter than it and every number of writes and stalls.     *)
(***************************************************************************)
EXTENDS Informer, TLAPS

-----------------------------------------------------------------------------
(***************************************************************************)
(* A body that the timer closes has been marked before.                    *)
(***************************************************************************)
Marked ==
  /\ fired \in {"no", "store", "close"}
  /\ fired = "close" => timedOut
  /\ rc = "closed" /\ watcher = "running" => timedOut

\* The marks survive every step of the body and of the timer.
LEMMA MarkedStep == Marked /\ [Next]_vars => Marked'
<1> SUFFICES ASSUME Marked, [Next]_vars PROVE Marked'
  OBVIOUS
<1>1. CASE UNCHANGED bodyVars
  BY <1>1 DEF Marked, bodyVars
<1>2. CASE Tick
  BY <1>2 DEF Marked, Tick
<1>3. CASE ListAndWatch
  BY <1>3 DEF Marked, ListAndWatch, NewBody
<1>4. CASE ReadEvent
  BY <1>4 DEF Marked, ReadEvent, ReadReturns
<1>5. CASE DeliverEvent
  BY <1>5 DEF Marked, DeliverEvent, Reset
<1>6. CASE FailRead
  BY <1>6 DEF Marked, FailRead, ReadFails
<1>7. CASE TimerStep
  BY <1>7 DEF Marked, TimerStep, TimerFires, StoreThenClose
<1>8. CASE StopWatch
  BY <1>8 DEF Marked, StopWatch, Close
<1>9. CASE EndResponse
  BY <1>9 DEF Marked, EndResponse, ServerEnds
<1>10. CASE (\E f \in Fields(type) : Write(f)) \/ Bookmark \/ Stall \/ Recover \/ ResyncCheck \/ Reconcile
  BY <1>1, <1>10 DEF Write, Bookmark, Stall, Recover, ResyncCheck, Reconcile
<1> QED
  BY <1>1, <1>2, <1>3, <1>4, <1>5, <1>6, <1>7, <1>8, <1>9, <1>10 DEF Next, vars

\* A read that fails because the timer closed the body reports the timeout,
\* whatever the timeout is and however the timer, the reader and the
\* reflector are interleaved (idleTimeoutBody).
THEOREM TimerReports == Spec => TimeoutReported
<1>1. Init => Marked
  BY DEF Init, BodyInit, Marked
<1>2. Marked /\ [Next]_vars
        => [reader = "reading" /\ reader' = "failed" /\ rc = "closed" /\ watcher = "running"
              => err' = "idle"]_bodyVars
  <2> SUFFICES ASSUME Marked, [Next]_vars,
                      reader = "reading", reader' = "failed", rc = "closed", watcher = "running"
               PROVE  err' = "idle"
    OBVIOUS
  <2>1. FailRead
    BY DEF Next, vars, bodyVars, Write, Bookmark, EndResponse, ServerEnds, Stall, Recover, Tick,
       ListAndWatch, NewBody, ReadEvent, ReadReturns, DeliverEvent, Reset, TimerStep, TimerFires,
       StoreThenClose, StopWatch, Close, ResyncCheck, Reconcile
  <2> QED
    BY <2>1 DEF FailRead, ReadFails, Marked
<1> QED
  BY <1>1, <1>2, MarkedStep, PTL DEF Spec, TimeoutReported

-----------------------------------------------------------------------------
(***************************************************************************)
(* Types.                                                                  *)
(***************************************************************************)
\* A transformed object is an object, without the fields that are dropped.
LEMMA TransformType ==
  ASSUME NEW obj \in Object
  PROVE  /\ Transform(type, obj) \in Object
         /\ \A f \in Fields(type) : f \in Dropped(type) => Transform(type, obj)[f] = 0
  BY InformerAssumption DEF Transform, Object

\* What a step of the body does to the variables of the body alone.
LEMMA BodyStep ==
  ASSUME BodyTypeOK,
         NewBody \/ ServerEnds \/ ReadReturns \/ Reset \/ ReadFails \/ TimerFires
           \/ StoreThenClose \/ Close \/ UNCHANGED bodyVars
  PROVE  BodyTypeOK'
<1>1. Armed \in [armed : BOOLEAN, idle : 0..Timeout] /\ Off \in [armed : BOOLEAN, idle : 0..Timeout]
  BY TimeoutAssumption DEF Armed, Off
<1>2. CASE NewBody \/ ServerEnds \/ ReadReturns \/ Reset \/ ReadFails
  BY <1>1, <1>2 DEF BodyTypeOK, NewBody, ServerEnds, ReadReturns, Reset, ReadFails
<1>3. CASE TimerFires \/ StoreThenClose \/ Close \/ UNCHANGED bodyVars
  BY <1>1, <1>3 DEF BodyTypeOK, TimerFires, StoreThenClose, Close, bodyVars
<1> QED
  BY <1>2, <1>3

\* The informer stores an object.
LEMMA StoreType ==
  ASSUME NEW obj \in Object, dirty \in BOOLEAN, syncing \in BOOLEAN, StoreObject(obj)
  PROVE  store' \in Object /\ dirty' \in BOOLEAN
  BY TransformType DEF StoreObject

\* The server sends an event or a bookmark.
LEMMA SendType ==
  ASSUME NEW S, NEW e \in S, wire \in Seq(S), quiet \in 0..Interval, SendOn(<<e>>)
  PROVE  wire' \in Seq(S) /\ quiet' \in 0..Interval
<1>1. <<e>> \in Seq(S) /\ wire \o <<e>> \in Seq(S)
  OBVIOUS
<1> QED
  BY <1>1, InformerAssumption DEF SendOn

\* Every step keeps the types.
LEMMA TypeStep == TypeOK /\ [Next]_vars => TypeOK'
<1> SUFFICES ASSUME TypeOK, [Next]_vars PROVE TypeOK'
  OBVIOUS
<1> USE InformerAssumption
<1>1. CASE UNCHANGED vars
  BY <1>1, BodyStep DEF TypeOK, Object, vars, streamVars, cacheVars
<1>2. ASSUME NEW f \in Fields(type), Write(f) PROVE TypeOK'
  <2>1. BodyTypeOK'
    BY <1>2, BodyStep DEF TypeOK, Write
  <2>2. api["resourceVersion"] \in 0..MaxRV
    BY DEF TypeOK, Object, Fields, MetaFields
  <2>3. api' \in Object
    <3> DEFINE rv == api["resourceVersion"] + 1
    <3>1. rv \in 0..MaxRV /\ api' = [api EXCEPT ![f] = rv, !["resourceVersion"] = rv]
      BY <1>2, <2>2 DEF Write
    <3>2. api \in [Fields(type) -> 0..MaxRV]
      BY DEF TypeOK, Object
    <3> QED
      BY <3>1, <3>2 DEF Object
  <2>4. wire' \in Seq(Object \cup {None}) /\ quiet' \in 0..Interval
    BY <1>2, <2>3, SendType DEF TypeOK, Write
  <2> QED
    BY <1>2, <2>1, <2>3, <2>4 DEF TypeOK, Object, Write, cacheVars
<1>3. CASE Bookmark
  <2>1. wire' \in Seq(Object \cup {None}) /\ quiet' \in 0..Interval
    BY <1>3, SendType DEF TypeOK, Bookmark
  <2> QED
    BY <1>3, <2>1, BodyStep DEF TypeOK, Object, Bookmark, cacheVars
<1>4. CASE EndResponse \/ FailRead \/ TimerStep \/ StopWatch
  BY <1>4, BodyStep DEF TypeOK, Object, EndResponse, FailRead, TimerStep, StopWatch, streamVars, cacheVars
<1>5. CASE Stall \/ Recover
  <2>1. BodyTypeOK'
    BY <1>5, BodyStep DEF TypeOK, Stall, Recover
  <2>2. stalls' \in 0..MaxStalls
    BY <1>5 DEF TypeOK, Stall, Recover
  <2> QED
    BY <1>5, <2>1, <2>2 DEF TypeOK, Object, Stall, Recover, cacheVars
<1>6. CASE Tick
  BY <1>6, TimeoutAssumption DEF TypeOK, BodyTypeOK, Object, Tick, Due, cacheVars
<1>7. CASE ListAndWatch
  <2>1. store' \in Object /\ dirty' \in BOOLEAN
    BY <1>7, StoreType DEF TypeOK, ListAndWatch
  <2>2. BodyTypeOK' /\ wire' \in Seq(Object \cup {None}) /\ quiet' \in 0..Interval
    BY <1>7, BodyStep DEF TypeOK, ListAndWatch
  <2> QED
    BY <1>7, <2>1, <2>2 DEF TypeOK, Object, ListAndWatch
<1>8. CASE ReadEvent
  BY <1>8, BodyStep DEF TypeOK, Object, ReadEvent, Readable, cacheVars
<1>9. CASE DeliverEvent
  <2>1. store' \in Object \cup {None} /\ dirty' \in BOOLEAN
    BY <1>9, StoreType DEF TypeOK, DeliverEvent
  <2> QED
    BY <1>9, <2>1, BodyStep DEF TypeOK, Object, DeliverEvent
<1>10. CASE ResyncCheck \/ Reconcile
  BY <1>10, BodyStep DEF TypeOK, Object, ResyncCheck, Reconcile, streamVars
<1> QED
  BY <1>1, <1>2, <1>3, <1>4, <1>5, <1>6, <1>7, <1>8, <1>9, <1>10 DEF Next

\* The variables keep their types: the idle timer never runs past the
\* timeout and the stored objects have the fields of their type.
THEOREM Typing == Spec => []TypeOK
<1>1. ASSUME Init PROVE TypeOK
  <2>1. Off \in [armed : BOOLEAN, idle : 0..Timeout]
    BY TimeoutAssumption DEF Off
  <2>2. api \in Object
    BY <1>1, InformerAssumption DEF Init, NewObject, Object
  <2>3. wire \in Seq(Object \cup {None}) /\ quiet \in 0..Interval /\ stalls \in 0..MaxStalls
    BY <1>1, InformerAssumption DEF Init
  <2>4. BodyTypeOK
    BY <1>1, <2>1 DEF Init, BodyInit, BodyTypeOK
  <2> QED
    BY <1>1, <2>2, <2>3, <2>4 DEF Init, TypeOK
<1> QED
  BY <1>1, TypeStep, PTL DEF Spec

-----------------------------------------------------------------------------
(***************************************************************************)
(* Over a stream that does not stall the timer follows the server: it is   *)
(* set again at least once in an interval of bookmarks.                    *)
(***************************************************************************)
Waiting == rc = "open" /\ reader = "reading" /\ wire = <<>>

Followed ==
  /\ timer.armed => Timeout > 0
  /\ silent => stalled
  /\ timer.armed /\ ~stalled => timer.idle <= Interval
  /\ timer.armed /\ ~stalled /\ Waiting => timer.idle <= quiet

\* The timer keeps following the server.
LEMMA FollowedStep == TypeOK /\ Followed /\ [Next]_vars => Followed'
<1> SUFFICES ASSUME TypeOK, Followed, [Next]_vars PROVE Followed'
  OBVIOUS
<1> USE InformerAssumption, TimeoutAssumption
<1> USE DEF Followed, Waiting
<1>1. CASE UNCHANGED <<rc, timer, reader, wire, quiet, silent, stalled>>
  BY <1>1
<1>2. CASE (\E f \in Fields(type) : Write(f)) \/ Bookmark
  <2>1. PICK e : SendOn(<<e>>) /\ UNCHANGED <<rc, timer, reader, silent, stalled>>
    BY <1>2 DEF Write, Bookmark, bodyVars
  <2>2. rc = "open" => wire' # <<>>
    BY <2>1 DEF TypeOK, SendOn
  <2> QED
    BY <2>1, <2>2
<1>3. CASE EndResponse
  BY <1>3 DEF EndResponse, ServerEnds, streamVars
<1>4. CASE Stall \/ Recover
  BY <1>4 DEF Stall, Recover, bodyVars
<1>5. CASE Tick
  BY <1>5 DEF Tick, Due, TypeOK, BodyTypeOK
<1>6. CASE ListAndWatch
  <2>1. timer'.armed => Timeout > 0
    BY <1>6, Zenon DEF ListAndWatch, NewBody, Armed
  <2>2. timer'.idle = 0 /\ quiet' = 0 /\ ~silent'
    BY <1>6 DEF ListAndWatch, NewBody, Armed
  <2> QED
    BY <2>1, <2>2
<1>7. CASE ReadEvent
  BY <1>7 DEF ReadEvent, ReadReturns
<1>8. CASE DeliverEvent
  <2>1. timer'.armed => Timeout > 0
    BY <1>8, Zenon DEF DeliverEvent, Reset, Armed
  <2>2. timer'.idle = 0 /\ UNCHANGED <<quiet, silent>> /\ stalled' = silent
    BY <1>8 DEF DeliverEvent, Reset, Armed
  <2> QED
    BY <2>1, <2>2 DEF TypeOK
<1>9. CASE FailRead
  BY <1>9 DEF FailRead, ReadFails, streamVars
<1>10. CASE TimerStep
  BY <1>10 DEF TimerStep, TimerFires, StoreThenClose, Off, streamVars
<1>11. CASE StopWatch
  BY <1>11 DEF StopWatch, Close, Off, streamVars
<1> QED
  BY <1>1, <1>2, <1>3, <1>4, <1>5, <1>6, <1>7, <1>8, <1>9, <1>10, <1>11
     DEF Next, vars, ResyncCheck, Reconcile, bodyVars, streamVars

\* Whatever the idle timeout, as long as it is longer than the interval of
\* the bookmarks, the timer closes no stream that did not stall.
THEOREM HealthyKept == Spec => HealthyStreamKept
<1>1. Init => Followed
  BY DEF Init, BodyInit, Followed, Off
<1>2. TypeOK /\ Followed /\ [Next]_vars
        => [timer.armed /\ fired = "no" /\ fired' = "store" => stalled]_vars
  <2> SUFFICES ASSUME TypeOK, Followed, [Next]_vars,
                      timer.armed, fired = "no", fired' = "store"
               PROVE  stalled
    OBVIOUS
  <2>1. Due
    BY DEF Next, vars, bodyVars, Write, Bookmark, EndResponse, ServerEnds, Stall, Recover, Tick,
       ListAndWatch, NewBody, ReadEvent, ReadReturns, DeliverEvent, Reset, FailRead, ReadFails,
       TimerStep, TimerFires, StoreThenClose, StopWatch, Close, ResyncCheck, Reconcile
  <2> QED
    BY <2>1, InformerAssumption, TimeoutAssumption DEF Due, Followed, TypeOK, BodyTypeOK
<1> QED
  BY <1>1, <1>2, FollowedStep, Typing, PTL DEF Spec, HealthyStreamKept

-----------------------------------------------------------------------------
(***************************************************************************)
(* What is stored, and what a collector reconciled, has gone through the   *)
(* transformer of its type.                                                *)
(***************************************************************************)
Clean(obj) == obj # None => \A f \in Dropped(type) \cap Fields(type) : obj[f] = 0

Transformed ==
  /\ dirty => store # None
  /\ Clean(store)
  /\ Clean(known)

\* Only transformed objects enter the store.
LEMMA TransformedStep == TypeOK /\ Transformed /\ [Next]_vars => Transformed'
<1> SUFFICES ASSUME TypeOK, Transformed, [Next]_vars PROVE Transformed'
  OBVIOUS
<1>1. type' = type
  BY DEF Next, vars, Write, Bookmark, EndResponse, Stall, Recover, Tick, ListAndWatch, ReadEvent,
     DeliverEvent, FailRead, TimerStep, StopWatch, ResyncCheck, Reconcile
<1>2. CASE UNCHANGED <<store, dirty, known>>
  BY <1>1, <1>2 DEF Transformed, Clean
<1>3. ASSUME NEW obj \in Object, StoreObject(obj), UNCHANGED known PROVE Transformed'
  <2>1. store' \in Object /\ store' # None
    BY <1>3, TransformType, InformerAssumption DEF StoreObject, TypeOK, Object
  <2>2. \A f \in Dropped(type) \cap Fields(type) : store'[f] = 0
    BY <1>3, TransformType DEF StoreObject
  <2> QED
    BY <1>1, <1>3, <2>1, <2>2 DEF Transformed, Clean
<1>4. CASE ListAndWatch
  BY <1>3, <1>4 DEF ListAndWatch, TypeOK
<1>5. CASE DeliverEvent
  BY <1>2, <1>3, <1>5 DEF DeliverEvent, TypeOK
<1>6. CASE Reconcile
  BY <1>1, <1>6 DEF Reconcile, Transformed, Clean
<1> QED
  BY <1>2, <1>4, <1>5, <1>6
     DEF Next, vars, Write, Bookmark, EndResponse, Stall, Recover, Tick, ReadEvent, FailRead,
         TimerStep, StopWatch, ResyncCheck, cacheVars

\* The fields of a message that clients are not meant to see are dropped by
\* the transformers: what the informer keeps for itself is not sent.
LEMMA SentIsVisible ==
  ASSUME type \in Types
  PROVE  SentFields(type) \subseteq Visible \cup (Dropped(type) \cap Fields(type))
  BY DEF Types, SentFields, Visible, Dropped, FilteredOut, Fields, MetaFields, MetaUnused,
         StatusFields, BodyFields

\* A collector sends an Update only if a field that the clients are meant to
\* see has changed, for any number of writes and any order of list, watch
\* and reconcile (transformers.go and the objFieldsHandlers).
THEOREM OnlyNews == Spec => UpdatesAreNews
<1>1. Init => Transformed
  BY DEF Init, Transformed, Clean
<1>2. TypeOK /\ Transformed /\ Transformed' /\ [Next]_vars
        => [known # None /\ Message(type, known') # Message(type, known)
              => \E f \in Visible : known'[f] # known[f]]_vars
  <2> SUFFICES ASSUME TypeOK, Transformed, Transformed', Next, known # None,
                      \A f \in Visible : known'[f] = known[f]
               PROVE  Message(type, known') = Message(type, known)
    BY DEF vars, Message
  <2>1. CASE known' = known
    BY <2>1
  <2>2. CASE Reconcile
    <3>1. known' # None /\ type' = type
      BY <2>2 DEF Reconcile, Transformed
    <3>2. \A f \in Dropped(type) \cap Fields(type) : known[f] = 0 /\ known'[f] = 0
      BY <3>1 DEF Transformed, Clean
    <3>3. \A f \in SentFields(type) : known'[f] = known[f]
      BY <3>2, SentIsVisible DEF TypeOK
    <3> QED
      BY <3>3 DEF Message
  <2> QED
    BY <2>1, <2>2
       DEF Next, Write, Bookmark, EndResponse, Stall, Recover, Tick, ListAndWatch, ReadEvent,
           DeliverEvent, FailRead, TimerStep, StopWatch, ResyncCheck
<1> QED
  BY <1>1, <1>2, TransformedStep, Typing, PTL DEF Spec, UpdatesAreNews
=============================================================================
