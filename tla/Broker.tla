-------------------------------- MODULE Broker --------------------------------
(***************************************************************************)
(* The goroutine of broker/broker.go that pops the events and sends them   *)
(* to their subscribers, and what the clients make of the messages.  The   *)
(* lookup of a connection and the send on its stream are separate steps:   *)
(* the handler of the connection may leave, or return, in between.         *)
(***************************************************************************)
EXTENDS BlockingChannel, WatchServer

\* bro is the event in hand, its subscribers not yet looked up and the one
\* whose connection is held; mirror[s] are the resources known to the client.
VARIABLES bro, mirror

broVars == <<bro, mirror>>

BroIdle == [evt |-> None, todo |-> {}, con |-> None]

BroBusy == [evt : Event, todo : SUBSET Subs, con : Subs \cup {None}]

BrokerTypeOK ==
  /\ bro \in BroBusy \cup {BroIdle}
  /\ mirror \in [Subs -> SUBSET Item]

BrokerInit ==
  /\ bro = BroIdle
  /\ mirror = [s \in Subs |-> {}]

\* The event is finished when its last subscriber has been handled.
Holding(evt, todo, con) ==
  IF todo = {} /\ con = None THEN BroIdle
  ELSE [evt |-> evt, todo |-> todo, con |-> con]

PopEvent ==
  /\ bro = BroIdle
  /\ Pop
  /\ bro' = Holding(Head(queue), Head(queue).subs, None)
  /\ UNCHANGED <<mirror, watchVars>>

\* A subscriber without a connection is skipped.
LoadConnection(sub) ==
  /\ bro.con = None
  /\ sub \in bro.todo
  /\ bro' = Holding(bro.evt, bro.todo \ {sub}, IF sub \in conns THEN sub ELSE None)
  /\ UNCHANGED <<mirror, queue, watchVars>>

\* What the client knows after it received evt.
Apply(items, evt) ==
  LET others == {i \in items : i.uid # evt.uid} IN
  IF evt.type = "Delete" THEN others
  ELSE others \cup {[uid |-> evt.uid, data |-> evt.data]}

\* The stream accepts messages until its context is done or its handler has
\* returned.
Open(sub) == sub \notin ended /\ ~Returned(sub)

Send(sub) ==
  /\ bro.con = sub
  /\ Open(sub)
  /\ mirror' = [mirror EXCEPT ![sub] = Apply(@, bro.evt)]
  /\ bro' = Holding(bro.evt, bro.todo, None)
  /\ UNCHANGED <<queue, watchVars>>

\* Mutant: the error is ignored.
SendFailsUnnoticed(sub) ==
  /\ bro.con = sub
  /\ bro' = Holding(bro.evt, bro.todo, None)
  /\ UNCHANGED <<mirror, queue, watchVars>>

\* Send returns an error: the connection is closed with it.
SendFails(sub) ==
  /\ bro.con = sub
  /\ Close(sub)
  /\ bro' = Holding(bro.evt, bro.todo, None)
  /\ UNCHANGED <<mirror, queue, watch, conns, ended>>
=============================================================================
