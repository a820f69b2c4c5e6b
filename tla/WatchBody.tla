------------------------------ MODULE WatchBody ------------------------------
(***************************************************************************)
(* The body of a watch request with its idle timeout (pkg/transport/       *)
(* idle_timeout.go).  Three goroutines meet here: the one that reads the   *)
(* events, the one that the timer starts when it fires, and the reflector, *)
(* which closes the body when a read failed or when it stops the watch.    *)
(***************************************************************************)
EXTENDS Naturals

CONSTANT Timeout   \* --watch-idle-timeout, in ticks; 0 disables it

ASSUME TimeoutAssumption == Timeout \in Nat

VARIABLES
  rc,        \* the wrapped body
  timer,     \* the timer, and the ticks since it was set
  fired,     \* the function of a timer that fired: not running, about to set
             \* timedOut, or about to close rc
  timedOut,
  reader,    \* waiting in rc.Read, or with data and before Reset, or failed
  err,       \* the last error Read returned
  watcher    \* whether the reflector has closed the body

bodyVars == <<rc, timer, fired, timedOut, reader, err, watcher>>

Off == [armed |-> FALSE, idle |-> 0]

\* time.AfterFunc and timer.Reset.  Without a timeout bodies are not wrapped.
Armed == [armed |-> Timeout > 0, idle |-> 0]

BodyTypeOK ==
  /\ rc \in {"open", "eof", "closed"}
  /\ timer \in [armed : BOOLEAN, idle : 0..Timeout]
  /\ fired \in {"no", "store", "close"}
  /\ timedOut \in BOOLEAN
  /\ reader \in {"reading", "read", "failed"}
  /\ err \in {"none", "plain", "idle"}
  /\ watcher \in {"running", "stopped"}

\* Before the first request.
BodyInit ==
  /\ rc = "closed"
  /\ timer = Off
  /\ fired = "no"
  /\ timedOut = FALSE
  /\ reader = "failed"
  /\ err = "none"
  /\ watcher = "stopped"

\* RoundTrip wraps the body of the new response.  What is left of the old
\* body, a timer at most, can only close that one again.
NewBody ==
  /\ watcher = "stopped"
  /\ reader = "failed"
  /\ rc' = "open"
  /\ timer' = Armed
  /\ fired' = "no"
  /\ timedOut' = FALSE
  /\ reader' = "reading"
  /\ err' = "none"
  /\ watcher' = "running"

\* The server ends the response.
ServerEnds ==
  /\ rc = "open"
  /\ rc' = "eof"
  /\ UNCHANGED <<timer, fired, timedOut, reader, err, watcher>>

\* rc.Read returns data ...
ReadReturns ==
  /\ reader = "reading"
  /\ rc # "closed"
  /\ reader' = "read"
  /\ UNCHANGED <<rc, timer, fired, timedOut, err, watcher>>

\* Mutant: the timer runs on.
NoReset ==
  /\ reader = "read"
  /\ reader' = "reading"
  /\ UNCHANGED <<rc, timer, fired, timedOut, err, watcher>>

\* Mutant: the time that is left is extended by the timeout.
ResetAdds ==
  /\ reader = "read"
  /\ timer' = IF timer.armed THEN [timer EXCEPT !.idle = @ - Timeout] ELSE Armed
  /\ reader' = "reading"
  /\ UNCHANGED <<rc, fired, timedOut, err, watcher>>

\* ... and the timer is set again, whatever happened in between.
Reset ==
  /\ reader = "read"
  /\ timer' = Armed
  /\ reader' = "reading"
  /\ UNCHANGED <<rc, fired, timedOut, err, watcher>>

\* rc.Read returns an error, which names the timeout if the timer fired.
ReadFails ==
  /\ reader = "reading"
  /\ rc # "open"
  /\ reader' = "failed"
  /\ err' = IF timedOut THEN "idle" ELSE "plain"
  /\ UNCHANGED <<rc, timer, fired, timedOut, watcher>>

Due == timer.armed /\ timer.idle = Timeout

TimerFires ==
  /\ Due
  /\ fired = "no"
  /\ timer' = Off
  /\ fired' = "store"
  /\ UNCHANGED <<rc, timedOut, reader, err, watcher>>

\* Mutant: the body is closed first.
CloseThenStore ==
  /\ fired # "no"
  /\ IF fired = "store" THEN rc' = "closed" /\ fired' = "close" /\ UNCHANGED timedOut
     ELSE timedOut' = TRUE /\ fired' = "no" /\ UNCHANGED rc
  /\ UNCHANGED <<timer, reader, err, watcher>>

\* The function of the timer: first the flag, then the close.
StoreThenClose ==
  /\ fired # "no"
  /\ IF fired = "store" THEN timedOut' = TRUE /\ fired' = "close" /\ UNCHANGED rc
     ELSE rc' = "closed" /\ fired' = "no" /\ UNCHANGED timedOut
  /\ UNCHANGED <<timer, reader, err, watcher>>

\* The reflector closes the body once, after an error or to stop the watch,
\* perhaps while a read is in progress.
Close ==
  /\ watcher = "running"
  /\ watcher' = "stopped"
  /\ timer' = Off
  /\ rc' = "closed"
  /\ UNCHANGED <<fired, timedOut, reader, err>>

\* A read that fails because the timer closed the body reports the timeout
\* (Read looks at timedOut, which is set before the body is closed).
TimeoutReported ==
  [][reader = "reading" /\ reader' = "failed" /\ rc = "closed" /\ watcher = "running"
       => err' = "idle"]_bodyVars
=============================================================================
