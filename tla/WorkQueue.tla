------------------------------ MODULE WorkQueue ------------------------------
(***************************************************************************)
(* The work queues of the controllers, one per kind, as the collectors use *)
(* them (sigs.k8s.io/controller-runtime, external).  A queue holds a name  *)
(* at most once; a name added while it is being reconciled is reconciled   *)
(* again afterwards.  Every controller has a single worker.                *)
(*                                                                         *)
(* triggers[key] counts the generic events for key that goroutines are     *)
(* still sending on a source channel of the controller of its kind, or     *)
(* that wait there: they reach the queue at some later time, in any order. *)
(***************************************************************************)
EXTENDS Resources

CONSTANT SourceLen   \* bound: the events of one name that wait in the sources

ASSUME SourceLenAssumption == SourceLen \in Nat \ {0}

VARIABLES dirty, triggers

queueVars == <<dirty, triggers>>

WorkQueueTypeOK ==
  /\ dirty \in SUBSET Keys
  /\ triggers \in [Keys -> Nat]

Enqueue(keys) == dirty' = dirty \cup keys

\* One goroutine is started for each of the keys.
Trigger(keys) ==
  triggers' = [k \in Keys |-> IF k \in keys THEN triggers[k] + 1 ELSE triggers[k]]

\* A send that the caller waits for: it blocks while the sources are full.
Request(keys) ==
  /\ \A k \in keys : triggers[k] < SourceLen
  /\ Trigger(keys)

\* The controller reads a generic event from a source.
Deliver(key) ==
  /\ triggers[key] > 0
  /\ triggers' = [triggers EXCEPT ![key] = @ - 1]
  /\ Enqueue({key})
=============================================================================
