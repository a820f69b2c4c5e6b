------------------------------- MODULE Informer -------------------------------
(***************************************************************************)
(* One object on its way from the API server to a collector: the server    *)
(* writes it, a watch stream carries the events, the reflector and the     *)
(* informer (client-go, external) store the transformed object and tell    *)
(* the controller, and the reconcile compares what it would send with what *)
(* it sent before.  Streams may stall, for ever or for a while, end, or be *)
(* closed by the idle timeout; each new one starts with a list.            *)
(***************************************************************************)
EXTENDS WatchBody, Transformers, Sequences

CONSTANTS
  Interval,   \* ticks between two bookmarks of the server
  MaxRV,      \* bound: the last resourceVersion
  MaxStalls,  \* bound: the stalls of a behaviour
  None        \* no object

ASSUME InformerAssumption ==
  /\ Interval \in Nat
  /\ Timeout > 0 => Interval < Timeout
  /\ MaxRV \in Nat \ {0}
  /\ MaxStalls \in Nat
  /\ \A t \in Types : None \notin [Fields(t) -> 0..MaxRV]

VARIABLES
  type,     \* the type of the object
  api,      \* the object as the server has it
  wire,     \* events and bookmarks (None) on the stream, not read yet
  quiet,    \* ticks since the server sent something
  silent,   \* the stream is stalled: what is on the wire does not arrive
  stalled,  \* it has been stalled since the timer was set
  stalls,   \* the stalls so far
  item,     \* what the reader has read
  store,    \* the object in the informer's store
  syncing,  \* the listener has not seen its first resync check
  dirty,    \* the name is in the work queue of the controller
  known     \* the object as the collector reconciled it last

streamVars == <<wire, quiet, silent, stalled, stalls>>

cacheVars == <<store, syncing, dirty>>

vars == <<bodyVars, type, api, streamVars, item, cacheVars, known>>

Object == [Fields(type) -> 0..MaxRV]

TypeOK ==
  /\ BodyTypeOK
  /\ type \in Types
  /\ api \in Object
  /\ wire \in Seq(Object \cup {None})
  /\ quiet \in 0..Interval
  /\ {silent, stalled, syncing, dirty} \subseteq BOOLEAN
  /\ stalls \in 0..MaxStalls
  /\ {item, store, known} \subseteq Object \cup {None}

\* The first version of the object; a pod may not have a node yet.
NewObject(t, node) == [f \in Fields(t) |-> IF f = "nodeName" THEN node ELSE 1]

Init ==
  /\ BodyInit
  /\ type \in Types
  /\ \E node \in {0, 1} : api = NewObject(type, node)
  /\ wire = <<>>
  /\ quiet = 0
  /\ silent = FALSE
  /\ stalled = FALSE
  /\ stalls = 0
  /\ item = None
  /\ store = None
  /\ syncing = TRUE
  /\ dirty = FALSE
  /\ known = None

-----------------------------------------------------------------------------
(***************************************************************************)
(* The API server and the network.                                         *)
(***************************************************************************)
Fixed == {"generateName", "creationTimestamp", "resourceVersion"}

SendOn(events) ==
  IF rc = "open" THEN wire' = wire \o events /\ quiet' = 0 ELSE UNCHANGED <<wire, quiet>>

\* A field is written.  The node of a pod is written once.
Write(f) ==
  /\ f \in Fields(type) \ Fixed
  /\ f = "nodeName" => api[f] = 0
  /\ api["resourceVersion"] < MaxRV
  /\ LET rv == api["resourceVersion"] + 1 IN
     api' = [api EXCEPT ![f] = rv, !["resourceVersion"] = rv]
  /\ SendOn(<<api'>>)
  /\ UNCHANGED <<bodyVars, type, silent, stalled, stalls, item, cacheVars, known>>

Bookmark ==
  /\ rc = "open"
  /\ wire = <<>>
  /\ quiet = Interval
  /\ SendOn(<<None>>)
  /\ UNCHANGED <<bodyVars, type, api, silent, stalled, stalls, item, cacheVars, known>>

EndResponse ==
  /\ ServerEnds
  /\ UNCHANGED <<type, api, streamVars, item, cacheVars, known>>

Stall ==
  /\ rc = "open"
  /\ ~silent
  /\ stalls < MaxStalls
  /\ silent' = TRUE
  /\ stalled' = TRUE
  /\ stalls' = stalls + 1
  /\ UNCHANGED <<bodyVars, type, api, wire, quiet, item, cacheVars, known>>

Recover ==
  /\ silent
  /\ silent' = FALSE
  /\ UNCHANGED <<bodyVars, type, api, wire, quiet, stalled, stalls, item, cacheVars, known>>

Readable == wire # <<>> /\ ~silent

\* Time passes when nothing is due: the server's next bookmark, the timer,
\* and what the goroutines of the body can do at once.  Over a stalled stream
\* the reader learns of nothing, not even of its end.
Tick ==
  /\ ~Due
  /\ fired = "no"
  /\ reader = "reading"
  /\ rc # "closed"
  /\ silent \/ (rc = "open" /\ wire = <<>> /\ quiet < Interval)
  /\ quiet' = IF quiet < Interval THEN quiet + 1 ELSE quiet
  /\ timer' = IF timer.armed THEN [timer EXCEPT !.idle = @ + 1] ELSE timer
  /\ UNCHANGED <<rc, fired, timedOut, reader, err, watcher, type, api, wire, silent, stalled,
                 stalls, item, cacheVars, known>>

-----------------------------------------------------------------------------
(***************************************************************************)
(* The watch of the reflector and the store of the informer.               *)
(***************************************************************************)
\* The nodeNameFilter of the pod collector; other objects all pass.
Passes(obj) == type = "Pod" => obj["nodeName"] # 0

\* The informer stores the transformed object.  An update with the version
\* that is stored is taken for a resync, and reaches the controller only
\* while the listener is syncing.
StoreObject(obj) ==
  LET new == Transform(type, obj)
      resync == store # None /\ store["resourceVersion"] = new["resourceVersion"]
  IN
  /\ store' = new
  /\ dirty' = (dirty \/ (Passes(new) /\ (resync => syncing)))

\* The reflector lists the object and watches it from there.
ListAndWatch ==
  /\ NewBody
  /\ StoreObject(api)
  /\ wire' = <<>>
  /\ quiet' = 0
  /\ silent' = FALSE
  /\ stalled' = FALSE
  /\ item' = None
  /\ UNCHANGED <<type, api, stalls, syncing, known>>

ReadEvent ==
  /\ Readable
  /\ ReadReturns
  /\ item' = Head(wire)
  /\ wire' = Tail(wire)
  /\ UNCHANGED <<type, api, quiet, silent, stalled, stalls, cacheVars, known>>

\* Read sets the timer and returns: the event reaches the informer, unless
\* the watch was stopped or the event is a bookmark.
DeliverEvent ==
  /\ Reset
  /\ stalled' = silent
  /\ item' = None
  /\ IF item = None \/ watcher = "stopped" THEN UNCHANGED <<store, dirty>> ELSE StoreObject(item)
  /\ UNCHANGED <<type, api, wire, quiet, silent, stalls, syncing, known>>

\* At the end of a response what is on the wire is read first.
FailRead ==
  /\ rc = "eof" => wire = <<>> /\ ~silent
  /\ ReadFails
  /\ UNCHANGED <<type, api, streamVars, item, cacheVars, known>>

TimerStep ==
  /\ TimerFires \/ StoreThenClose
  /\ UNCHANGED <<type, api, streamVars, item, cacheVars, known>>

StopWatch ==
  /\ Close
  /\ UNCHANGED <<type, api, streamVars, item, cacheVars, known>>

\* The first resync check of the listener.
ResyncCheck ==
  /\ syncing
  /\ syncing' = FALSE
  /\ UNCHANGED <<bodyVars, type, api, streamVars, item, store, dirty, known>>

\* The collector reconciles the object: it sends an Update if the message
\* differs from the last one.
Reconcile ==
  /\ dirty
  /\ known' = store
  /\ dirty' = FALSE
  /\ UNCHANGED <<bodyVars, type, api, streamVars, item, store, syncing>>

-----------------------------------------------------------------------------
Next ==
  \/ \E f \in Fields(type) : Write(f)
  \/ Bookmark
  \/ EndResponse
  \/ Stall
  \/ Recover
  \/ Tick
  \/ ListAndWatch
  \/ ReadEvent
  \/ DeliverEvent
  \/ FailRead
  \/ TimerStep
  \/ StopWatch
  \/ ResyncCheck
  \/ Reconcile

(***************************************************************************)
(* The goroutines of the process are fair, time passes, and the server     *)
(* sends its bookmarks.  A stall need not end, nor a response.             *)
(***************************************************************************)
Fairness ==
  /\ WF_vars(Tick)
  /\ WF_vars(Bookmark)
  /\ WF_vars(ListAndWatch)
  /\ WF_vars(ReadEvent)
  /\ WF_vars(DeliverEvent)
  /\ WF_vars(FailRead)
  /\ WF_vars(TimerStep)
  /\ WF_vars(reader = "failed" /\ StopWatch)
  /\ WF_vars(Reconcile)

Spec == Init /\ [][Next]_vars /\ Fairness

-----------------------------------------------------------------------------
\* The fields a client is meant to see.
Visible == {"generateName", "labels", "podIP"} \cap SentFields(type)

\* The fields the collectors, dispatchers and indexes read; the controller of
\* the services finds the service of a slice by its owner.
Consumed ==
  CASE type = "Pod" -> {"nodeName", "podIP", "labels", "ownerReferences", "generateName"}
    [] type = "PartialObjectMetadata" -> {"ownerReferences"}
    [] type = "Service" -> {"selector"}
    [] type = "EndpointSlice" -> {"endpoints", "generateName", "ownerReferences"}

\* The collector works with the current values of these fields, or the
\* object is a pod without a node.
UpToDate ==
  \/ ~Passes(api)
  \/ known # None /\ \A f \in Visible \cup Consumed : known[f] = api[f]

\* With an idle timeout, no change of a field that clients see or collectors
\* use is lost for ever: not when a stream stalls without ending, not when
\* the timer closes a stream whose data is just arriving, not after the
\* resync check of the listener.
Converges == []<>UpToDate

\* A collector sends an Update only if a field that the clients are meant to
\* see has changed: the versions, owners and timestamps that are stored, and
\* the fields that the transformers drop, cause none.
UpdatesAreNews ==
  [][known # None /\ Message(type, known') # Message(type, known)
       => \E f \in Visible : known'[f] # known[f]]_vars

\* The idle timeout closes no healthy stream: the timer fires only if the
\* stream stalled since the last read.
HealthyStreamKept == [][timer.armed /\ fired = "no" /\ fired' = "store" => stalled]_vars
=============================================================================
