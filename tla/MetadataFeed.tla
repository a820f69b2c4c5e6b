----------------------------- MODULE MetadataFeed -----------------------------
(***************************************************************************)
(* What the collector promises to the client of a Watch call, whatever its *)
(* collectors, caches and queues do: as long as no message to it was lost, *)
(* the stream is a sequence of Creates, Updates and Deletes that makes     *)
(* sense to a client that only keeps what it received.                     *)
(***************************************************************************)
EXTENDS Resources

VARIABLES
  world,    \* the objects of the cluster
  feed,     \* the resources each client knows
  sending,  \* the message on its way to a client, and the client
  lost      \* calls whose stream or connection broke

feedVars == <<world, feed, sending, lost>>

FeedInit ==
  /\ world \in [Keys -> Object \cup {None}]
  /\ feed = [s \in Subs |-> {}]
  /\ sending = None
  /\ lost = {}

\* Objects come and go; while they exist they only get newer, and a pod that
\* has a node stays there.
Later(old, new) ==
  old # None /\ new # None =>
    /\ new.inc = old.inc
    /\ new.ver >= old.ver
    /\ old.node # None => new.node = old.node

WorldChanges ==
  /\ \A key \in Keys : Later(world[key], world'[key])
  /\ UNCHANGED <<feed, sending, lost>>

\* A message may be chosen at any time.
Choose(sub) ==
  /\ sending = None
  /\ sending' # None => sending'.sub = sub
  /\ UNCHANGED <<world, feed, lost>>

Receives(sub, items) ==
  /\ feed' = [feed EXCEPT ![sub] = items]
  /\ sending' = None
  /\ UNCHANGED <<world, lost>>

\* The item is of a selected kind, no newer than its object, and a pod of the
\* node of the subscriber.
Deserved(sub, item) ==
  LET key == item.uid[1]
      obj == world[key]
  IN
  /\ Kind(key) \in KindsOf[sub]
  /\ obj # None /\ obj.inc = item.uid[2] =>
       /\ item.data.ver <= obj.ver
       /\ key \in Pods => obj.node = NodeOf[sub]

\* A Create is about a resource the client does not know.
Announce(sub, item) ==
  /\ sending.type = "Create"
  /\ \A old \in feed[sub] : old.uid # item.uid
  /\ Deserved(sub, item)
  /\ Receives(sub, feed[sub] \cup {item})

\* An Update replaces what the client knows by something no older.
Revise(sub, old, item) ==
  /\ sending.type = "Update"
  /\ old.uid = item.uid
  /\ old.data.ver <= item.data.ver
  /\ Deserved(sub, item)
  /\ Receives(sub, (feed[sub] \ {old}) \cup {item})

\* A Delete is about a resource the client knows.
Retract(sub, old) ==
  /\ sending.type = "Delete"
  /\ old.uid = sending.item.uid
  /\ Receives(sub, feed[sub] \ {old})

Deliver(sub, item) ==
  \/ Announce(sub, item)
  \/ \E old \in feed[sub] : Revise(sub, old, item) \/ Retract(sub, old)

\* The stream or the connection breaks, perhaps by the failure of a send.
Loses(sub) ==
  /\ lost' = lost \cup {sub}
  /\ \/ UNCHANGED sending
     \/ sending # None /\ sending.sub = sub /\ sending' = None
  /\ UNCHANGED <<world, feed>>

\* Nothing is promised any more: the client has to call Watch again.
Unreliable(sub) == sub \in lost /\ Receives(sub, feed'[sub])

FeedNext ==
  \/ WorldChanges
  \/ \E sub \in Subs : Choose(sub) \/ Loses(sub) \/ Unreliable(sub)
  \/ sending # None /\ Deliver(sending.sub, sending.item)

FeedSpec == FeedInit /\ [][FeedNext]_feedVars
=============================================================================
