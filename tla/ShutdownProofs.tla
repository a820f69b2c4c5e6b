---------------------------- MODULE ShutdownProofs ----------------------------
(***************************************************************************)
(* The safety of the shutdown, for every number of kinds, calls, events    *)
(* and lengths of the channels.                                            *)
(***************************************************************************)
EXTENDS Shutdown, TLAPS

\* The part of the type invariant about the work under way.
WorkTyped ==
  /\ sends \in [Kinds -> 0..MaxEvents]
  /\ source \in [Kinds -> 0..SourceLen]
  /\ events \in [Kinds -> 0..MaxEvents]
  /\ slice \in 0..2
  /\ queue \in 0..QueueLen
  /\ con \in Subs \cup {None}

\* No channel overflows and no counter goes below zero.
LEMMA WorkStep == WorkTyped /\ [Next]_vars => WorkTyped'
<1> SUFFICES ASSUME WorkTyped, [Next]_vars PROVE WorkTyped'
  OBVIOUS
<1> USE ShutdownAssumption DEF WorkTyped
<1>1. CASE UNCHANGED workVars
  BY <1>1 DEF workVars
<1>2. ASSUME NEW kind \in Kinds, ReadSource(kind) \/ TriggerOwner(kind) PROVE WorkTyped'
  BY <1>2 DEF ReadSource, TriggerOwner, Room, Fill
<1>3. ASSUME NEW kind \in Kinds, Dispatch(kind) \/ DispatcherStops(kind) PROVE WorkTyped'
  BY <1>3 DEF Dispatch, DispatcherStops, Room, Fill
<1>4. ASSUME NEW kind \in Kinds, NEW n \in 0..MaxEvents, Reconcile(kind, n) PROVE WorkTyped'
  BY <1>4 DEF Reconcile
<1>5. ASSUME NEW kind \in Kinds, Push(kind) \/ PushGivesUp(kind) PROVE WorkTyped'
  BY <1>5 DEF Push, PushGivesUp
<1>6. CASE ReconcileSlice \/ TriggerGivesUp
  BY <1>6 DEF ReconcileSlice, TriggerGivesUp
<1>7. CASE TriggerTarget
  <2>1. SliceTarget \in Kinds /\ source[SliceTarget] < SourceLen /\ slice > 0
    BY <1>7 DEF TriggerTarget, Room, SliceTarget
  <2> QED
    BY <1>7, <2>1 DEF TriggerTarget, Fill
<1>8. ASSUME NEW sub \in Subs, NEW kind \in Kinds, NEW n \in 0..MaxEvents,
             NotifyCollector(sub, kind, n)
      PROVE  WorkTyped'
  BY <1>8 DEF NotifyCollector
<1>9. ASSUME NEW sub \in Subs \cup {None}, Pop(sub) \/ Send(sub) PROVE WorkTyped'
  BY <1>9 DEF Pop, Send
<1> QED
  BY <1>1, <1>2, <1>3, <1>4, <1>5, <1>6, <1>7, <1>8, <1>9
     DEF Next, vars, WorkerStops, SliceWorkerStops, Watch, StreamEnds, Leave, NotifyGivesUp,
         PopperStops, Cancel, ServeFails, CloseStopping, StopServer, StartReturns, StartGoes, Exit

-----------------------------------------------------------------------------
CallTyped == watch \in [Subs -> [phase : {"new", "joined", "left"}, todo : SUBSET Kinds]]

\* The calls that a stopped server leaves behind: none.
CallsOver ==
  /\ CallTyped
  /\ start = "returned" => \A sub \in Subs : ~InProgress(sub)
  /\ exited => start \in {"returned", "failed"}

\* No step starts or resumes a call of a server that has stopped.
LEMMA CallsStep == CallsOver /\ [Next]_vars => CallsOver'
<1> SUFFICES ASSUME CallsOver, [Next]_vars PROVE CallsOver'
  OBVIOUS
<1> USE DEF CallsOver, CallTyped
<1>1. CASE UNCHANGED <<watch, start, exited>>
  BY <1>1 DEF InProgress, Returned
<1>2. ASSUME NEW sub \in Subs, Watch(sub) \/ NotifyGivesUp(sub) \/ Leave(sub) PROVE CallsOver'
  BY <1>2 DEF Watch, NotifyGivesUp, Leave, InProgress, Returned, stopVars
<1>3. ASSUME NEW sub \in Subs, NEW kind \in Kinds, NEW n \in 0..MaxEvents,
             NotifyCollector(sub, kind, n)
      PROVE  CallsOver'
  BY <1>3 DEF NotifyCollector, InProgress, Returned, stopVars
<1>4. CASE ServeFails \/ CloseStopping \/ StopServer \/ StartReturns
  BY <1>4 DEF ServeFails, CloseStopping, StopServer, StartReturns, StartGoes, InProgress, Returned
<1>5. CASE Exit
  BY <1>5 DEF Exit, InProgress, Returned
<1> QED
  BY <1>1, <1>2, <1>3, <1>4, <1>5
     DEF Next, vars, stopVars, ReadSource, TriggerOwner, Dispatch, DispatcherStops, Reconcile, Push,
         PushGivesUp, WorkerStops, ReconcileSlice, TriggerTarget, TriggerGivesUp,
         SliceWorkerStops, StreamEnds, Pop, Send, PopperStops, Cancel

\* A process that exits without an error leaves no Watch call behind, for
\* any number of calls, also those accepted while the server was being
\* stopped (WaitForHandlers and the channel stopping of Watch).
THEOREM NoCallLeft == Spec => []HandlersReturned
<1>1. Init => CallsOver
  BY DEF Init, CallsOver, CallTyped, InProgress
<1>2. CallsOver => HandlersReturned
  BY DEF CallsOver, HandlersReturned
<1> QED
  BY <1>1, <1>2, CallsStep, PTL DEF Spec

-----------------------------------------------------------------------------
StopTyped ==
  /\ ctx \in {"live", "done"}
  /\ start \in {"serving", "failed", "stopping", "closing", "returned"}
  /\ exited \in BOOLEAN
  /\ gone \in SUBSET (Runnables \cup {Popper})
  /\ ended \in SUBSET Subs

\* The goroutines that stop are those of the program.
LEMMA StopStep == StopTyped /\ [Next]_vars => StopTyped'
<1> SUFFICES ASSUME StopTyped, [Next]_vars PROVE StopTyped'
  OBVIOUS
<1> USE DEF StopTyped
<1>1. CASE UNCHANGED <<stopVars, gone, ended>>
  BY <1>1 DEF stopVars
<1>2. ASSUME NEW kind \in Kinds, DispatcherStops(kind) \/ WorkerStops(kind) PROVE StopTyped'
  BY <1>2 DEF DispatcherStops, WorkerStops, Returns, Runnables, stopVars
<1>3. CASE SliceWorkerStops \/ PopperStops
  BY <1>3 DEF SliceWorkerStops, PopperStops, Returns, Runnables, stopVars
<1>4. CASE Cancel \/ ServeFails \/ CloseStopping \/ StopServer \/ StartReturns \/ Exit
  BY <1>4 DEF Cancel, ServeFails, CloseStopping, StopServer, StartReturns, StartGoes, Exit
<1>5. ASSUME NEW sub \in Subs, StreamEnds(sub) PROVE StopTyped'
  BY <1>5 DEF StreamEnds, stopVars
<1> QED
  BY <1>1, <1>2, <1>3, <1>4, <1>5
     DEF Next, vars, ReadSource, TriggerOwner, Dispatch, Reconcile, Push, PushGivesUp,
         ReconcileSlice, TriggerTarget, TriggerGivesUp, Watch, Leave, NotifyGivesUp,
         NotifyCollector, Pop, Send

\* The variables keep their types: no channel holds more than its length,
\* whatever stops first.
THEOREM Typing == Spec => []TypeOK
<1>1. Init => WorkTyped /\ CallsOver /\ StopTyped
  <2>1. Init => WorkTyped
    BY ShutdownAssumption DEF Init, WorkTyped
  <2>2. Init => CallsOver
    BY DEF Init, CallsOver, CallTyped, InProgress
  <2>3. Init => StopTyped
    BY DEF Init, StopTyped
  <2> QED
    BY <2>1, <2>2, <2>3
<1>2. WorkTyped /\ CallsOver /\ StopTyped => TypeOK
  BY DEF WorkTyped, CallsOver, CallTyped, StopTyped, TypeOK
<1> QED
  BY <1>1, <1>2, WorkStep, CallsStep, StopStep, PTL DEF Spec
=============================================================================
