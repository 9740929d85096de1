------------------------------ MODULE TaskPool ------------------------------
(***************************************************************************)
(* What the load balancer of azure/concurrent promises to its client,      *)
(* without workers, queues, heap or lock: every task that was submitted is *)
(* run, by at most Parallel runners at a time, a bounded number of times,  *)
(* until it is resolved; only cancelling drops tasks, and starts no more;  *)
(* the end is announced when nothing runs and nothing is left to do.       *)
(***************************************************************************)
EXTENDS Integers, FiniteSets

CONSTANTS
  Task,       \* the tasks that a client may submit
  Parallel,   \* how many run at a time
  Retries     \* how often a task is run again after an error

VARIABLES
  state,      \* of each task
  tries,      \* how often each task has been run again
  closed,     \* no more tasks will be submitted
  cancelled,  \* the rest is to be dropped
  ended,      \* the end was announced
  crashed     \* the process is gone, and with it the promise

vars == <<state, tries, closed, cancelled, ended, crashed>>

State == {"unsent", "waiting", "running", "ok", "failed", "dropped"}
In(s) == {t \in Task : state[t] = s}

Init ==
  /\ state = [t \in Task |-> "unsent"]
  /\ tries = [t \in Task |-> 0]
  /\ closed = FALSE
  /\ cancelled = FALSE
  /\ ended = FALSE
  /\ crashed = FALSE

Move(t, from, to) ==
  /\ state[t] = from
  /\ state' = [state EXCEPT ![t] = to]
  /\ UNCHANGED <<closed, cancelled, ended, crashed>>

Submit(t) == ~closed /\ Move(t, "unsent", "waiting") /\ UNCHANGED tries

Start(t) ==
  /\ ~cancelled
  /\ Cardinality(In("running")) < Parallel
  /\ Move(t, "waiting", "running")
  /\ UNCHANGED tries

\* The task is run again.
Retry(t) ==
  /\ tries[t] < Retries
  /\ Move(t, "running", "waiting")
  /\ tries' = [tries EXCEPT ![t] = @ + 1]

Resolve(t) ==
  /\ \E s \in {"ok", "failed"} : Move(t, "running", s)
  /\ tries' = [tries EXCEPT ![t] = 0]

Drop(t) ==
  /\ cancelled
  /\ Move(t, "waiting", "dropped")
  /\ tries' = [tries EXCEPT ![t] = 0]

Close ==
  /\ closed' = TRUE
  /\ UNCHANGED <<state, tries, cancelled, ended, crashed>>

Cancel ==
  /\ closed
  /\ cancelled' = TRUE
  /\ UNCHANGED <<state, tries, closed, ended, crashed>>

\* Unless it was cancelled, every submitted task has been resolved.
Announce ==
  /\ closed
  /\ In("running") = {}
  /\ In("waiting") = {} \/ cancelled
  /\ ended' = TRUE
  /\ UNCHANGED <<state, tries, closed, cancelled, crashed>>

Crash ==
  /\ closed
  /\ crashed' = TRUE
  /\ UNCHANGED <<state, tries, closed, cancelled, ended>>

Next ==
  /\ ~crashed
  /\ \/ \E t \in Task : Submit(t) \/ Start(t) \/ Retry(t) \/ Resolve(t) \/ Drop(t)
     \/ Close \/ Cancel \/ Announce \/ Crash

Spec == Init /\ [][Next]_vars

=============================================================================
