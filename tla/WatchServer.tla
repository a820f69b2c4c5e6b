----------------------------- MODULE WatchServer -----------------------------
(***************************************************************************)
(* The Watch handlers of the gRPC server (metadata/server.go).  Each       *)
(* element of Subs is one Watch call: it stores its connection, notifies   *)
(* the collectors of the selected kinds, waits until its stream ends or    *)
(* the broker reports an error, removes the connection, notifies the       *)
(* collectors again and returns.  The select on the stopping channel in    *)
(* notifyCollectors is in module Shutdown.                                 *)
(***************************************************************************)
EXTENDS Resources

CONSTANT Quitters   \* the subscribers whose client may go away

ASSUME QuittersAssumption == Quitters \subseteq Subs

VARIABLES
  watch,    \* the phase of each call and the collectors it must notify yet
  conns,    \* the map of connections shared with the broker
  ended,    \* streams whose context is done
  errors,   \* connections with an error in their channel, of capacity one
  closed    \* connections whose once has been used

watchVars == <<watch, conns, ended, errors, closed>>

WatchState == [phase : {"new", "joined", "left"}, todo : SUBSET Kinds]

WatchTypeOK ==
  /\ watch \in [Subs -> WatchState]
  /\ conns \in SUBSET Subs
  /\ ended \in SUBSET Subs
  /\ errors \in SUBSET Subs
  /\ closed \in SUBSET Subs

WatchInit ==
  /\ watch = [s \in Subs |-> [phase |-> "new", todo |-> {}]]
  /\ conns = {}
  /\ ended = {}
  /\ errors = {}
  /\ closed = {}

\* A selected kind without a collector is skipped.
Notified(sub) == KindsOf[sub] \cap Kinds

\* The handler starts and stores the connection.
Watch(sub) ==
  /\ watch[sub].phase = "new"
  /\ watch' = [watch EXCEPT ![sub] = [phase |-> "joined", todo |-> Notified(sub)]]
  /\ conns' = conns \cup {sub}
  /\ UNCHANGED <<ended, errors, closed>>

\* notifyCollectors sends the message of the current phase to one collector.
\* The kinds are visited in any order, as in the iteration of a Go map.
NotifyCollector(sub, kind) ==
  /\ kind \in watch[sub].todo
  /\ watch' = [watch EXCEPT ![sub].todo = @ \ {kind}]
  /\ UNCHANGED <<conns, ended, errors, closed>>

Joins(sub) == watch[sub].phase = "joined"

\* The handler waits for the end of the stream or an error.
Serving(sub) == watch[sub].phase = "joined" /\ watch[sub].todo = {}

Returned(sub) == watch[sub].phase = "left" /\ watch[sub].todo = {}

\* The client goes away: the context of its stream is done.
StreamEnds(sub) ==
  /\ sub \in Quitters
  /\ watch[sub].phase # "new"
  /\ ~Returned(sub)
  /\ sub \notin ended
  /\ ended' = ended \cup {sub}
  /\ UNCHANGED <<watch, conns, errors, closed>>

\* The connection is removed before the collectors are told.
Leave(sub) ==
  /\ Serving(sub)
  /\ watch' = [watch EXCEPT ![sub] = [phase |-> "left", todo |-> Notified(sub)]]
  /\ conns' = conns \ {sub}

\* Mutant: the handler waits for an error only.
LeaveOnErrorOnly(sub) ==
  /\ sub \in ended \cap errors
  /\ Leave(sub)
  /\ UNCHANGED <<ended, errors, closed>>

LeaveOnStreamEnd(sub) ==
  /\ sub \in ended
  /\ Leave(sub)
  /\ UNCHANGED <<ended, errors, closed>>

LeaveOnError(sub) ==
  /\ sub \in errors
  /\ Leave(sub)
  /\ errors' = errors \ {sub}
  /\ UNCHANGED <<ended, closed>>

\* Mutant: Close without the once.
AlwaysSendsError(sub) == TRUE

\* Close sends the error only if the once of the connection is unused.
SendsError(sub) == sub \notin closed

\* The send on the channel of the connection: it waits for room there.
SendError(sub) ==
  /\ sub \notin errors
  /\ errors' = errors \cup {sub}
  /\ closed' = closed \cup {sub}

\* Connection.Close, called by the broker.
Close(sub) ==
  IF SendsError(sub) THEN SendError(sub) ELSE UNCHANGED <<errors, closed>>
=============================================================================
