------------------------- MODULE BalancerRefinement -------------------------
(***************************************************************************)
(* The balancer implements TaskPool.  A request that was sent and not yet  *)
(* worked on waits wherever it is: in the dispatcher's hand, in a queue,   *)
(* in the hand of a worker between two rounds.  One that is nowhere has    *)
(* been dropped.                                                           *)
(***************************************************************************)
EXTENDS Balancer

RunBy(r) == {w \in Holders(r) : wPc[w] = "running"}

TaskState(r) ==
  CASE result[r] # "none"                                       -> result[r]
    [] result[r] = "none" /\ RunBy(r) # {}                      -> "running"
    [] result[r] = "none" /\ RunBy(r) = {} /\
       (dReq = r \/ Holders(r) \cup Queued(r) # {})             -> "waiting"
    [] OTHER -> IF r <= sent THEN "dropped" ELSE "unsent"

TaskTries(r) ==
  IF Holders(r) = {} THEN 0 ELSE wCount[CHOOSE w \in Holders(r) : TRUE]

Promise == INSTANCE TaskPool WITH
  Task <- Request, Parallel <- WorkerCount, Retries <- MaxRetryCount,
  state <- [r \in Request |-> TaskState(r)],
  tries <- [r \in Request |-> TaskTries(r)],
  closed <- reqClosed, cancelled <- tearDown,
  ended <- lPc = "done", crashed <- panicked

\* Every step of the client, the dispatcher, the listener and the workers is
\* a step that TaskPool allows, or none for its reader: no request is lost,
\* run twice, run too often or started after the tear-down, and the end is
\* announced when the last one has been resolved (balancer.go, worker.go).
ImplementsTaskPool == Promise!Spec

=============================================================================
