------------------------------- MODULE Shutdown -------------------------------
(***************************************************************************)
(* How the collector stops.  A signal, or a gRPC server that fails, makes  *)
(* the manager of run.go cancel the context that Broker.Start, the         *)
(* dispatchers and the controllers share, and wait for them before the     *)
(* process exits.  Each goroutine may be anywhere: waiting for a message,  *)
(* for room in a channel, for the broker, or for a client that reads no    *)
(* more.  Each blocking operation has a branch for the cancelled context   *)
(* or, in the Watch handlers, for the channel stopping.                    *)
(*                                                                         *)
(* Only what goroutines wait for is kept: which messages, requests and     *)
(* events are under way, and not their content.  Whether a reconcile has   *)
(* events, or a node pods, is a choice.                                    *)
(***************************************************************************)
EXTENDS Naturals

CONSTANTS
  Kinds,         \* the kinds that have a collector
  OwnersSources, \* the kinds that pods trigger
  SliceTargets,  \* the kinds triggerPods and triggerService send to, in order
  Subs,          \* Watch calls
  QueueLen,      \* length of the queue of the broker
  SourceLen,     \* length of the source channel of a controller
  MaxEvents,     \* bound: events of a reconcile, requests for a subscriber
  None

ASSUME ShutdownAssumption ==
  /\ OwnersSources \subseteq Kinds
  /\ \A i \in {1, 2} : SliceTargets[i] \in Kinds
  /\ {QueueLen, SourceLen, MaxEvents} \subseteq Nat \ {0}
  /\ None \notin Subs

VARIABLES
  ctx,      \* the context of the manager's runnables: live or done
  start,    \* how far Broker.Start is
  exited,   \* the manager has waited for its runnables, the process is over
  gone,     \* the goroutines that have returned
  sends,    \* requests the dispatcher of a kind has still to send
  source,   \* generic events in the channels the controller of a kind reads
  events,   \* events the worker of a kind has still to push
  slice,    \* triggers the worker of the slices has still to send
  queue,    \* events in the queue of the broker
  con,      \* the connection the broker sends on
  watch,    \* the phase of a call and the collectors it must notify yet
  ended     \* calls whose stream is done, or that got an error

stopVars == <<ctx, start, exited>>

workVars == <<sends, source, events, slice, queue, con>>

vars == <<stopVars, gone, workVars, watch, ended>>

Dispatcher(kind) == <<"dispatcher", kind>>

Worker(kind) == <<"worker", kind>>

SliceWorker == <<"worker", "EndpointSlice">>

\* The loop of Broker.Start that pops the events: nobody waits for it.
Popper == <<"popper", "Broker">>

Runnables == {Dispatcher(k) : k \in Kinds} \cup {Worker(k) : k \in Kinds} \cup {SliceWorker}

TypeOK ==
  /\ ctx \in {"live", "done"}
  /\ start \in {"serving", "failed", "stopping", "closing", "returned"}
  /\ exited \in BOOLEAN
  /\ gone \in SUBSET (Runnables \cup {Popper})
  /\ sends \in [Kinds -> 0..MaxEvents]
  /\ source \in [Kinds -> 0..SourceLen]
  /\ events \in [Kinds -> 0..MaxEvents]
  /\ slice \in 0..2
  /\ queue \in 0..QueueLen
  /\ con \in Subs \cup {None}
  /\ watch \in [Subs -> [phase : {"new", "joined", "left"}, todo : SUBSET Kinds]]
  /\ ended \in SUBSET Subs

Init ==
  /\ ctx = "live"
  /\ start = "serving"
  /\ exited = FALSE
  /\ gone = {}
  /\ sends = [k \in Kinds |-> 0]
  /\ source = [k \in Kinds |-> 0]
  /\ events = [k \in Kinds |-> 0]
  /\ slice = 0
  /\ queue = 0
  /\ con = None
  /\ watch = [s \in Subs |-> [phase |-> "new", todo |-> {}]]
  /\ ended = {}

Alive(goroutine) == ~exited /\ goroutine \notin gone

Cancelled == ~exited /\ ctx = "done"

Returns(goroutine) == gone' = gone \cup {goroutine}

-----------------------------------------------------------------------------
(***************************************************************************)
(* The dispatcher of a kind and the sources of its controller.             *)
(***************************************************************************)
Room(kind) == source[kind] < SourceLen

Fill(kind) == source' = [source EXCEPT ![kind] = @ + 1]

\* The controller reads an event.
ReadSource(kind) ==
  /\ ~exited
  /\ source[kind] > 0
  /\ source' = [source EXCEPT ![kind] = @ - 1]
  /\ UNCHANGED <<stopVars, gone, sends, events, slice, queue, con, watch, ended>>

\* A goroutine of triggerOwners, which nobody waits for.
TriggerOwner(kind) ==
  /\ ~exited
  /\ kind \in OwnersSources
  /\ Room(kind)
  /\ Fill(kind)
  /\ UNCHANGED <<stopVars, gone, sends, events, slice, queue, con, watch, ended>>

Dispatch(kind) ==
  /\ Alive(Dispatcher(kind))
  /\ sends[kind] > 0
  /\ Room(kind)
  /\ Fill(kind)
  /\ sends' = [sends EXCEPT ![kind] = @ - 1]
  /\ UNCHANGED <<stopVars, gone, events, slice, queue, con, watch, ended>>

\* Mutant: the send of a request has no branch for the context.
DispatcherStopsWhenIdle(kind) ==
  /\ Cancelled
  /\ Alive(Dispatcher(kind))
  /\ sends[kind] = 0
  /\ Returns(Dispatcher(kind))
  /\ UNCHANGED <<stopVars, workVars, watch, ended>>

\* The dispatcher waits for a message, or for the controller to read: both
\* selects have a branch for the context.
DispatcherStops(kind) ==
  /\ Cancelled
  /\ Alive(Dispatcher(kind))
  /\ sends' = [sends EXCEPT ![kind] = 0]
  /\ Returns(Dispatcher(kind))
  /\ UNCHANGED <<stopVars, source, events, slice, queue, con, watch, ended>>

-----------------------------------------------------------------------------
(***************************************************************************)
(* The worker of a kind.                                                   *)
(***************************************************************************)
Reconcile(kind, n) ==
  /\ Alive(Worker(kind))
  /\ events[kind] = 0
  /\ events' = [events EXCEPT ![kind] = n]
  /\ UNCHANGED <<stopVars, gone, sends, source, slice, queue, con, watch, ended>>

\* Mutant: a full queue is not waited for.
PushUnbounded(kind) ==
  /\ ~exited
  /\ events[kind] > 0
  /\ queue' = queue + 1
  /\ events' = [events EXCEPT ![kind] = @ - 1]
  /\ UNCHANGED <<stopVars, gone, sends, source, slice, con, watch, ended>>

Push(kind) ==
  /\ ~exited
  /\ events[kind] > 0
  /\ queue < QueueLen
  /\ queue' = queue + 1
  /\ events' = [events EXCEPT ![kind] = @ - 1]
  /\ UNCHANGED <<stopVars, gone, sends, source, slice, con, watch, ended>>

\* The event is lost, the loop of the reconcile goes on.
PushGivesUp(kind) ==
  /\ Cancelled
  /\ events[kind] > 0
  /\ events' = [events EXCEPT ![kind] = @ - 1]
  /\ UNCHANGED <<stopVars, gone, sends, source, slice, queue, con, watch, ended>>

\* A worker between two names finds its queue shut down.
WorkerStops(kind) ==
  /\ Cancelled
  /\ Alive(Worker(kind))
  /\ events[kind] = 0
  /\ Returns(Worker(kind))
  /\ UNCHANGED <<stopVars, workVars, watch, ended>>

(***************************************************************************)
(* The worker of the endpoint slices: pods first, then the service.        *)
(***************************************************************************)
ReconcileSlice ==
  /\ Alive(SliceWorker)
  /\ slice = 0
  /\ slice' \in {1, 2}
  /\ UNCHANGED <<stopVars, gone, sends, source, events, queue, con, watch, ended>>

\* slice = 2: a pod is to be triggered, slice = 1: the service.
SliceTarget == SliceTargets[3 - slice]

TriggerTarget ==
  /\ ~exited
  /\ slice > 0
  /\ Room(SliceTarget)
  /\ Fill(SliceTarget)
  /\ slice' = slice - 1
  /\ UNCHANGED <<stopVars, gone, sends, events, queue, con, watch, ended>>

TriggerGivesUp ==
  /\ Cancelled
  /\ slice > 0
  /\ slice' = slice - 1
  /\ UNCHANGED <<stopVars, gone, sends, source, events, queue, con, watch, ended>>

SliceWorkerStops ==
  /\ Cancelled
  /\ Alive(SliceWorker)
  /\ slice = 0
  /\ Returns(SliceWorker)
  /\ UNCHANGED <<stopVars, workVars, watch, ended>>

-----------------------------------------------------------------------------
(***************************************************************************)
(* The Watch handlers.                                                     *)
(***************************************************************************)
Returned(sub) == watch[sub].phase = "left" /\ watch[sub].todo = {}

InProgress(sub) == watch[sub].phase # "new" /\ ~Returned(sub)

\* A server that is stopped takes no new calls.
Watch(sub) ==
  /\ ~exited
  /\ start \notin {"closing", "returned"}
  /\ watch[sub].phase = "new"
  /\ watch' = [watch EXCEPT ![sub] = [phase |-> "joined", todo |-> Kinds]]
  /\ UNCHANGED <<stopVars, gone, workVars, ended>>

\* A dispatcher that waits takes the message; it may find n requests to send.
NotifyCollector(sub, kind, n) ==
  /\ Alive(Dispatcher(kind))
  /\ kind \in watch[sub].todo
  /\ sends[kind] = 0
  /\ sends' = [sends EXCEPT ![kind] = n]
  /\ watch' = [watch EXCEPT ![sub].todo = @ \ {kind}]
  /\ UNCHANGED <<stopVars, gone, source, events, slice, queue, con, ended>>

\* notifyCollectors returns once stopping is closed.
NotifyGivesUp(sub) ==
  /\ ~exited
  /\ start \in {"stopping", "closing"}
  /\ watch[sub].todo # {}
  /\ watch' = [watch EXCEPT ![sub].todo = {}]
  /\ UNCHANGED <<stopVars, gone, workVars, ended>>

\* The client goes away.
StreamEnds(sub) ==
  /\ ~exited
  /\ InProgress(sub)
  /\ sub \notin ended
  /\ ended' = ended \cup {sub}
  /\ UNCHANGED <<stopVars, gone, workVars, watch>>

Leave(sub) ==
  /\ ~exited
  /\ watch[sub].phase = "joined"
  /\ watch[sub].todo = {}
  /\ sub \in ended
  /\ watch' = [watch EXCEPT ![sub] = [phase |-> "left", todo |-> Kinds]]
  /\ UNCHANGED <<stopVars, gone, workVars, ended>>

-----------------------------------------------------------------------------
(***************************************************************************)
(* Broker.Start and its loop.                                              *)
(***************************************************************************)
\* The event is for nobody, or for a call whose connection is stored.
Pop(sub) ==
  /\ Alive(Popper)
  /\ con = None
  /\ queue > 0
  /\ sub # None => watch[sub].phase = "joined"
  /\ queue' = queue - 1
  /\ con' = sub
  /\ UNCHANGED <<stopVars, gone, sends, source, events, slice, watch, ended>>

\* Send returns: the client has read, or the stream is done and Close leaves
\* the error for the handler.
Send(sub) ==
  /\ Alive(Popper)
  /\ con = sub
  /\ con' = None
  /\ UNCHANGED <<stopVars, gone, sends, source, events, slice, queue, watch, ended>>

\* Pop returns nil.  If there is an event too, either one may be chosen.
PopperStops ==
  /\ Cancelled
  /\ Alive(Popper)
  /\ con = None
  /\ Returns(Popper)
  /\ UNCHANGED <<stopVars, workVars, watch, ended>>

\* The manager cancels on a signal, or when a runnable returned an error.
Cancel ==
  /\ ~exited
  /\ ctx = "live"
  /\ ctx' = "done"
  /\ UNCHANGED <<start, exited, gone, workVars, watch, ended>>

StartGoes(from, to) ==
  /\ start = from
  /\ start' = to
  /\ UNCHANGED <<ctx, exited, gone, workVars, watch>>

\* Listen or Serve fails: Start returns the error, stopping stays open.
ServeFails == StartGoes("serving", "failed") /\ UNCHANGED ended

CloseStopping == Cancelled /\ StartGoes("serving", "stopping") /\ UNCHANGED ended

\* server.Stop closes the connections, which ends their streams ...
StopServer ==
  /\ StartGoes("stopping", "closing")
  /\ ended' = ended \cup {sub \in Subs : InProgress(sub)}

\* Mutant: the server is created without WaitForHandlers.
StartReturnsEarly == StartGoes("closing", "returned") /\ UNCHANGED ended

\* ... and waits for the handlers.
StartReturns ==
  /\ \A sub \in Subs : ~InProgress(sub)
  /\ StartGoes("closing", "returned")
  /\ UNCHANGED ended

\* The manager has waited for its runnables.
Exit ==
  /\ Cancelled
  /\ start \in {"returned", "failed"}
  /\ Runnables \subseteq gone
  /\ exited' = TRUE
  /\ UNCHANGED <<ctx, start, gone, workVars, watch, ended>>

-----------------------------------------------------------------------------
Next ==
  \/ \E kind \in Kinds : ReadSource(kind) \/ TriggerOwner(kind)
  \/ \E kind \in Kinds : Dispatch(kind) \/ DispatcherStops(kind)
  \/ \E kind \in Kinds, n \in 0..MaxEvents : Reconcile(kind, n)
  \/ \E kind \in Kinds : Push(kind) \/ PushGivesUp(kind) \/ WorkerStops(kind)
  \/ ReconcileSlice
  \/ TriggerTarget
  \/ TriggerGivesUp
  \/ SliceWorkerStops
  \/ \E sub \in Subs : Watch(sub) \/ StreamEnds(sub) \/ Leave(sub) \/ NotifyGivesUp(sub)
  \/ \E sub \in Subs, kind \in Kinds, n \in 0..MaxEvents : NotifyCollector(sub, kind, n)
  \/ \E sub \in Subs \cup {None} : Pop(sub)
  \/ \E sub \in Subs : Send(sub)
  \/ PopperStops
  \/ Cancel
  \/ ServeFails
  \/ CloseStopping
  \/ StopServer
  \/ StartReturns
  \/ Exit

(***************************************************************************)
(* The branches of the goroutines are taken eventually, but nothing is     *)
(* owed by the world: a client may never read, and nobody reads the        *)
(* sources after the cancellation.  A worker whose queue was shut down     *)
(* gets no further name, so it stops when it is between two names again    *)
(* and again.                                                              *)
(***************************************************************************)
Fairness ==
  /\ \A kind \in Kinds : WF_vars(DispatcherStops(kind))
  /\ \A kind \in Kinds : WF_vars(PushGivesUp(kind)) /\ SF_vars(WorkerStops(kind))
  /\ WF_vars(TriggerGivesUp) /\ SF_vars(SliceWorkerStops)
  /\ \A sub \in Subs : WF_vars(NotifyGivesUp(sub)) /\ WF_vars(Leave(sub))
  /\ WF_vars(start = "failed" /\ Cancel)
  /\ WF_vars(CloseStopping)
  /\ WF_vars(StopServer)
  /\ WF_vars(StartReturns)
  /\ WF_vars(Exit)

Spec == Init /\ [][Next]_vars /\ Fairness

\* The process exits after a signal and after a failure of the gRPC server,
\* wherever its goroutines were, and without the manager's timeout: none of
\* them waits for one that is gone, nor for a client that reads no more
\* (dispatch, Push, triggerPods, notifyCollectors and Broker.Start).
Terminates == ctx = "done" \/ start = "failed" ~> exited

\* When the process exits without an error every Watch call has returned,
\* also the calls that were accepted while the server was being stopped, and
\* whatever collector they were waiting for.
HandlersReturned == exited /\ start # "failed" => \A sub \in Subs : ~InProgress(sub)
=============================================================================
