--------------------------- MODULE BlockingChannel ---------------------------
(***************************************************************************)
(* The queue of events between the collectors and the broker               *)
(* (broker/blockingChannel.go): a buffered Go channel.  Push blocks while  *)
(* the buffer is full, Pop while it is empty.  The branches of Push and    *)
(* Pop on a cancelled context are in module Shutdown.                      *)
(***************************************************************************)
EXTENDS Resources

CONSTANT QueueLen   \* run.go creates the queue with length 1

ASSUME QueueLenAssumption == QueueLen \in Nat \ {0}

VARIABLE queue

BlockingChannelTypeOK ==
  /\ queue \in Seq(Event)
  /\ Len(queue) <= QueueLen

BlockingChannelInit == queue = <<>>

\* Mutant: a Push that does not wait for room.
PushUnbounded(evt) == queue' = Append(queue, evt)

Push(evt) ==
  /\ Len(queue) < QueueLen
  /\ queue' = Append(queue, evt)

\* The event popped is Head(queue).
Pop ==
  /\ queue # <<>>
  /\ queue' = Tail(queue)
=============================================================================
