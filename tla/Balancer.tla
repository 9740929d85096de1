------------------------------ MODULE Balancer ------------------------------
(***************************************************************************)
(* The load balancer of azure/concurrent (balancer.go, worker.go): a       *)
(* dispatcher goroutine that gives each request to the worker with the     *)
(* least load, a listener goroutine that keeps the loads, and one          *)
(* goroutine per worker that runs requests, retries them and, once its own *)
(* queue is closed and drained, steals from its peers.  A communication on *)
(* an unbuffered channel is one step of both goroutines.                   *)
(***************************************************************************)
EXTENDS Pool, Sequences

CONSTANTS
  QueueSize,       \* workerQueueSize: the capacity of RequestsToHandleChan
  MaxRetryCount,   \* maxRetryCount
  NumRequests,     \* bound: how many requests the client may send
  RetryAnswers     \* what Request.ShouldRetry may answer

ASSUME BalancerAssumption ==
  /\ QueueSize \in Nat \ {0}
  /\ MaxRetryCount \in Nat
  /\ NumRequests \in Nat
  /\ RetryAnswers \subseteq BOOLEAN

Request   == 1 .. NumRequests
NoRequest == 0

VARIABLES
  sent,        \* the client has sent the requests 1 .. sent
  reqClosed,   \* the client has closed requestChan
  tearDown,    \* the client has closed tearDownChan
  dPc,         \* the dispatcher: where it is
  dReq,        \* requestToHandle
  dWorker,     \* the worker it looks at, or gives the request to
  dIdx,        \* i of closeWorkersRequestChannel
  queue,       \* RequestsToHandleChan of each worker: what is in the buffer
  closed,      \* RequestsToHandleChan of each worker: has it been closed
  lPc,         \* the listener: where it is
  lWorker,     \* the worker whose request has been handled
  remaining,   \* remainingWorkers
  wPc,         \* each worker goroutine: where it is
  wReq,        \* its requestToHandle
  wCount,      \* its count of the retries
  scan,        \* tryStealWork: the position of the range loop
  victim,      \* tryStealWork: w1
  result,      \* history: how the work of each request ended
  panicked     \* a channel was closed twice: the process is gone

clientVars   == <<sent, reqClosed, tearDown>>
dispVars     == <<dPc, dReq, dWorker, dIdx>>
chanVars     == <<queue, closed>>
listenVars   == <<lPc, lWorker, remaining>>
workVars     == <<wPc, wReq, wCount, scan, victim, result>>
balancerVars == <<poolVars, clientVars, dispVars, chanVars, listenVars, workVars, panicked>>

DispatcherPc == {"recv", "check", "poll", "lock", "fix", "send", "close", "done"}
ListenerPc   == {"select", "lock", "fix", "signal", "done"}
WorkerPc     == {"select", "scan", "steal", "loop", "running", "error",
                 "handled", "finish", "exited"}

TypeOK ==
  /\ PoolTypeOK
  /\ sent \in 0 .. NumRequests
  /\ reqClosed \in BOOLEAN
  /\ tearDown \in BOOLEAN
  /\ dPc \in DispatcherPc
  /\ dReq \in Request \cup {NoRequest}
  /\ dWorker \in Worker
  /\ dIdx \in 0 .. WorkerCount
  /\ queue \in [Worker -> Seq(Request)]
  /\ closed \in [Worker -> BOOLEAN]
  /\ lPc \in ListenerPc
  /\ lWorker \in Worker
  /\ remaining \in Int
  /\ wPc \in [Worker -> WorkerPc]
  /\ wReq \in [Worker -> Request \cup {NoRequest}]
  /\ wCount \in [Worker -> 0 .. MaxRetryCount]
  /\ scan \in [Worker -> 0 .. WorkerCount]
  /\ victim \in [Worker -> Worker]
  /\ result \in [Request -> {"none", "ok", "failed"}]
  /\ panicked \in BOOLEAN

BalancerInit ==
  /\ PoolInit
  /\ sent = 0
  /\ reqClosed = FALSE
  /\ tearDown = FALSE
  /\ dPc = "recv"
  /\ dReq = NoRequest
  /\ dWorker = 0
  /\ dIdx = 0
  /\ queue = [w \in Worker |-> << >>]
  /\ closed = [w \in Worker |-> FALSE]
  /\ lPc = "select"
  /\ lWorker = 0
  /\ remaining = WorkerCount
  /\ wPc = [w \in Worker |-> "select"]
  /\ wReq = [w \in Worker |-> NoRequest]
  /\ wCount = [w \in Worker |-> 0]
  /\ scan = [w \in Worker |-> 0]
  /\ victim = [w \in Worker |-> 0]
  /\ result = [r \in Request |-> "none"]
  /\ panicked = FALSE

-----------------------------------------------------------------------------
(* The client's side of the channels.                                      *)

\* requestChan <- request, received by the dispatcher.
SendRequest ==
  /\ dPc = "recv"
  /\ ~reqClosed
  /\ sent < NumRequests
  /\ sent' = sent + 1
  /\ dReq' = sent + 1
  /\ dPc' = "check"
  /\ UNCHANGED <<poolVars, reqClosed, tearDown, dWorker, dIdx, chanVars,
                 listenVars, workVars, panicked>>

\* close(requestChan).
CloseRequests ==
  /\ ~reqClosed
  /\ reqClosed' = TRUE
  /\ UNCHANGED <<poolVars, sent, tearDown, dispVars, chanVars, listenVars,
                 workVars, panicked>>

\* TearDownWorkers, which its caller calls once it has closed requestChan.
TearDownWorkers ==
  /\ reqClosed
  /\ ~tearDown
  /\ tearDown' = TRUE
  /\ UNCHANGED <<poolVars, sent, reqClosed, dispVars, chanVars, listenVars,
                 workVars, panicked>>

-----------------------------------------------------------------------------
(* The dispatcher.                                                         *)

\* requestChan is closed and has been drained.
RecvClosed ==
  /\ dPc = "recv"
  /\ reqClosed
  /\ dPc' = "close"
  /\ UNCHANGED <<poolVars, clientVars, dReq, dWorker, dIdx, chanVars,
                 listenVars, workVars, panicked>>

\* dispatch polls b.pool.Workers[0].Pending without the lock: it loads the
\* worker, then the worker's Pending.
PollLoad ==
  /\ dPc = "check"
  /\ dWorker' = slots[0]
  /\ dPc' = "poll"
  /\ UNCHANGED <<poolVars, clientVars, dReq, dIdx, chanVars, listenVars,
                 workVars, panicked>>

\* Mutant: a full queue passes the check.
PollReadAcceptsFull ==
  /\ dPc = "poll"
  /\ dPc' = IF pending[dWorker] > QueueSize THEN "check" ELSE "lock"
  /\ dWorker' = 0
  /\ UNCHANGED <<poolVars, clientVars, dReq, dIdx, chanVars, listenVars,
                 workVars, panicked>>

PollRead ==
  /\ dPc = "poll"
  /\ dPc' = IF pending[dWorker] >= QueueSize THEN "check" ELSE "lock"
  /\ dWorker' = 0
  /\ UNCHANGED <<poolVars, clientVars, dReq, dIdx, chanVars, listenVars,
                 workVars, panicked>>

\* Lock; worker := Workers[0]; worker.Pending++; heap.Fix(worker.Index).
DispatchLock ==
  /\ dPc = "lock"
  /\ lock = "free"
  /\ lock' = "dispatcher"
  /\ dWorker' = slots[0]
  /\ pending' = [pending EXCEPT ![slots[0]] = @ + 1]
  /\ FixCall(index[slots[0]])
  /\ dPc' = "fix"
  /\ UNCHANGED <<heapVars, clientVars, dReq, dIdx, chanVars, listenVars,
                 workVars, panicked>>

DispatchFix ==
  /\ dPc = "fix"
  /\ FixStep
  /\ dPc' = IF fixPc' = "idle" THEN "send" ELSE "fix"
  /\ UNCHANGED <<pending, lock, clientVars, dReq, dWorker, dIdx, chanVars,
                 listenVars, workVars, panicked>>

\* worker.RequestsToHandleChan <- request, which blocks while the buffer is
\* full, and does so with the lock held; then Unlock.
DispatchSend ==
  /\ dPc = "send"
  /\ Len(queue[dWorker]) < QueueSize
  /\ queue' = [queue EXCEPT ![dWorker] = Append(@, dReq)]
  /\ lock' = "free"
  /\ dPc' = "recv"
  /\ dReq' = NoRequest
  /\ dWorker' = 0
  /\ UNCHANGED <<heapVars, pending, fixVars, clientVars, dIdx, closed,
                 listenVars, workVars, panicked>>

\* Mutant: the walk stops before the last worker.
CloseNextSkipsLast ==
  /\ dPc = "close"
  /\ dIdx < WorkerCount - 1
  /\ closed' = [closed EXCEPT ![slots[dIdx]] = TRUE]
  /\ panicked' = closed[slots[dIdx]]
  /\ dIdx' = dIdx + 1
  /\ UNCHANGED <<poolVars, clientVars, dPc, dReq, dWorker, queue, listenVars,
                 workVars>>

\* closeWorkersRequestChannel, which walks the heap without the lock.
CloseNext ==
  /\ dPc = "close"
  /\ dIdx < WorkerCount
  /\ closed' = [closed EXCEPT ![slots[dIdx]] = TRUE]
  /\ panicked' = closed[slots[dIdx]]
  /\ dIdx' = dIdx + 1
  /\ UNCHANGED <<poolVars, clientVars, dPc, dReq, dWorker, queue, listenVars,
                 workVars>>

CloseDone ==
  /\ dPc = "close"
  /\ dIdx = WorkerCount
  /\ dPc' = "done"
  /\ UNCHANGED <<poolVars, clientVars, dReq, dWorker, dIdx, chanVars,
                 listenVars, workVars, panicked>>

Dispatcher ==
  \/ RecvClosed \/ PollLoad \/ PollRead \/ DispatchLock \/ DispatchFix
  \/ DispatchSend \/ CloseNext \/ CloseDone

-----------------------------------------------------------------------------
(* The listener.                                                           *)

\* w := <-requestHandledChan, with the send of the worker.
RequestHandled(w) ==
  /\ lPc = "select"
  /\ wPc[w] = "handled"
  /\ lWorker' = w
  /\ lPc' = "lock"
  /\ wPc' = [wPc EXCEPT ![w] = "select"]
  /\ wReq' = [wReq EXCEPT ![w] = NoRequest]
  /\ UNCHANGED <<poolVars, clientVars, dispVars, chanVars, remaining, wCount,
                 scan, victim, result, panicked>>

\* Mutant: completed forgets w.Pending--.
CompletedLockKeepsPending ==
  /\ lPc = "lock"
  /\ lock = "free"
  /\ lock' = "listener"
  /\ FixCall(index[lWorker])
  /\ lPc' = "fix"
  /\ UNCHANGED <<heapVars, pending, clientVars, dispVars, chanVars, lWorker,
                 remaining, workVars, panicked>>

\* completed(w): Lock; w.Pending--; heap.Fix(w.Index); Unlock.
CompletedLock ==
  /\ lPc = "lock"
  /\ lock = "free"
  /\ lock' = "listener"
  /\ pending' = [pending EXCEPT ![lWorker] = @ - 1]
  /\ FixCall(index[lWorker])
  /\ lPc' = "fix"
  /\ UNCHANGED <<heapVars, clientVars, dispVars, chanVars, lWorker, remaining,
                 workVars, panicked>>

CompletedFix ==
  /\ lPc = "fix"
  /\ FixStep
  /\ lPc' = IF fixPc' = "idle" THEN "select" ELSE "fix"
  /\ lock' = IF fixPc' = "idle" THEN "free" ELSE lock
  /\ lWorker' = IF fixPc' = "idle" THEN 0 ELSE lWorker
  /\ UNCHANGED <<pending, clientVars, dispVars, chanVars, remaining, workVars,
                 panicked>>

\* Mutant: the listener signals one worker too early.
WorkerFinishedEarly(w) ==
  /\ lPc = "select"
  /\ wPc[w] = "finish"
  /\ remaining' = remaining - 1
  /\ lPc' = IF remaining = 2 THEN "signal" ELSE "select"
  /\ wPc' = [wPc EXCEPT ![w] = "exited"]
  /\ UNCHANGED <<poolVars, clientVars, dispVars, chanVars, lWorker, wReq,
                 wCount, scan, victim, result, panicked>>

\* <-workerFinishedChan, with the worker's deferred send.
WorkerFinished(w) ==
  /\ lPc = "select"
  /\ wPc[w] = "finish"
  /\ remaining' = remaining - 1
  /\ lPc' = IF remaining = 1 THEN "signal" ELSE "select"
  /\ wPc' = [wPc EXCEPT ![w] = "exited"]
  /\ UNCHANGED <<poolVars, clientVars, dispVars, chanVars, lWorker, wReq,
                 wCount, scan, victim, result, panicked>>

\* allWorkersFinishedChan <- true, received by the client.
AllWorkersFinished ==
  /\ lPc = "signal"
  /\ lPc' = "done"
  /\ UNCHANGED <<poolVars, clientVars, dispVars, chanVars, lWorker, remaining,
                 workVars, panicked>>

Listener ==
  \/ \E w \in Worker : RequestHandled(w) \/ WorkerFinished(w)
  \/ CompletedLock \/ CompletedFix

-----------------------------------------------------------------------------
(* The worker goroutines.                                                  *)

\* The receive from the worker's own queue.
TakeOwn(w) ==
  /\ wPc[w] = "select"
  /\ queue[w] # << >>
  /\ wReq' = [wReq EXCEPT ![w] = Head(queue[w])]
  /\ queue' = [queue EXCEPT ![w] = Tail(@)]
  /\ wPc' = [wPc EXCEPT ![w] = "loop"]
  /\ UNCHANGED <<poolVars, clientVars, dispVars, closed, listenVars, wCount,
                 scan, victim, result, panicked>>

\* The queue is closed and drained: tryStealWork.
StartSteal(w) ==
  /\ wPc[w] = "select"
  /\ queue[w] = << >>
  /\ closed[w]
  /\ wPc' = [wPc EXCEPT ![w] = "scan"]
  /\ UNCHANGED <<poolVars, clientVars, dispVars, chanVars, listenVars, wReq,
                 wCount, scan, victim, result, panicked>>

\* The range loop loads the next element of the heap without the lock, or
\* ends: then nothing could be stolen and the worker returns.
StealLoad(w) ==
  /\ wPc[w] = "scan"
  /\ scan[w] < WorkerCount
  /\ victim' = [victim EXCEPT ![w] = slots[scan[w]]]
  /\ scan' = [scan EXCEPT ![w] = @ + 1]
  /\ wPc' = [wPc EXCEPT ![w] = "steal"]
  /\ UNCHANGED <<poolVars, clientVars, dispVars, chanVars, listenVars, wReq,
                 wCount, result, panicked>>

StealNothing(w) ==
  /\ wPc[w] = "scan"
  /\ scan[w] = WorkerCount
  /\ scan' = [scan EXCEPT ![w] = 0]
  /\ wPc' = [wPc EXCEPT ![w] = "finish"]
  /\ UNCHANGED <<poolVars, clientVars, dispVars, chanVars, listenVars, wReq,
                 wCount, victim, result, panicked>>

\* request, ok := <-w1.RequestsToHandleChan, which blocks while that queue
\* is empty and not closed.
StealRecv(w) ==
  /\ wPc[w] = "steal"
  /\ queue[victim[w]] # << >>
  /\ wReq' = [wReq EXCEPT ![w] = Head(queue[victim[w]])]
  /\ queue' = [queue EXCEPT ![victim[w]] = Tail(@)]
  /\ wPc' = [wPc EXCEPT ![w] = "loop"]
  /\ scan' = [scan EXCEPT ![w] = 0]
  /\ victim' = [victim EXCEPT ![w] = 0]
  /\ UNCHANGED <<poolVars, clientVars, dispVars, closed, listenVars, wCount,
                 result, panicked>>

StealDrained(w) ==
  /\ wPc[w] = "steal"
  /\ queue[victim[w]] = << >>
  /\ closed[victim[w]]
  /\ wPc' = [wPc EXCEPT ![w] = "scan"]
  /\ victim' = [victim EXCEPT ![w] = 0]
  /\ UNCHANGED <<poolVars, clientVars, dispVars, chanVars, listenVars, wReq,
                 wCount, scan, result, panicked>>

\* Mutant: the retry loop starts Work without a look at tearDownChan.
StartWorkTornDown(w) ==
  /\ wPc[w] = "loop"
  /\ wPc' = [wPc EXCEPT ![w] = "running"]
  /\ UNCHANGED <<poolVars, clientVars, dispVars, chanVars, listenVars, wReq,
                 wCount, scan, victim, result, panicked>>

\* The next round of the retry loop: its select has a default, so that Work
\* is not started once tearDownChan is closed.
StartWork(w) ==
  /\ wPc[w] = "loop"
  /\ ~tearDown
  /\ wPc' = [wPc EXCEPT ![w] = "running"]
  /\ UNCHANGED <<poolVars, clientVars, dispVars, chanVars, listenVars, wReq,
                 wCount, scan, victim, result, panicked>>

\* Work returns nil.
WorkSucceeds(w) ==
  /\ wPc[w] = "running"
  /\ wPc' = [wPc EXCEPT ![w] = "handled"]
  /\ wCount' = [wCount EXCEPT ![w] = 0]
  /\ result' = [result EXCEPT ![wReq[w]] = "ok"]
  /\ UNCHANGED <<poolVars, clientVars, dispVars, chanVars, listenVars, wReq,
                 scan, victim, panicked>>

\* Work returns an error that ShouldRetry accepts, and rounds are left.
WorkRetries(w) ==
  /\ wPc[w] = "running"
  /\ TRUE \in RetryAnswers
  /\ wCount[w] < MaxRetryCount
  /\ wPc' = [wPc EXCEPT ![w] = "loop"]
  /\ wCount' = [wCount EXCEPT ![w] = @ + 1]
  /\ UNCHANGED <<poolVars, clientVars, dispVars, chanVars, listenVars, wReq,
                 scan, victim, result, panicked>>

\* Work returns an error and is not retried.
WorkFails(w) ==
  /\ wPc[w] = "running"
  /\ FALSE \in RetryAnswers \/ wCount[w] = MaxRetryCount
  /\ wPc' = [wPc EXCEPT ![w] = "error"]
  /\ wCount' = [wCount EXCEPT ![w] = 0]
  /\ result' = [result EXCEPT ![wReq[w]] = "failed"]
  /\ UNCHANGED <<poolVars, clientVars, dispVars, chanVars, listenVars, wReq,
                 scan, victim, panicked>>

\* w.errorChan <- err, received by the client.
ReportError(w) ==
  /\ wPc[w] = "error"
  /\ wPc' = [wPc EXCEPT ![w] = "handled"]
  /\ UNCHANGED <<poolVars, clientVars, dispVars, chanVars, listenVars, wReq,
                 wCount, scan, victim, result, panicked>>

\* <-tearDownChan in any of the four selects: the worker returns and drops
\* the request that it holds.
Quit(w) ==
  /\ wPc[w] \in {"select", "loop", "error", "handled"}
  /\ tearDown
  /\ wPc' = [wPc EXCEPT ![w] = "finish"]
  /\ wReq' = [wReq EXCEPT ![w] = NoRequest]
  /\ wCount' = [wCount EXCEPT ![w] = 0]
  /\ UNCHANGED <<poolVars, clientVars, dispVars, chanVars, listenVars, scan,
                 victim, result, panicked>>

\* The steps of a worker that no other component takes part in.
WorkerLocal(w) ==
  \/ TakeOwn(w) \/ StartSteal(w) \/ StealLoad(w) \/ StealNothing(w)
  \/ StealRecv(w) \/ StealDrained(w) \/ StartWork(w) \/ WorkRetries(w)
  \/ WorkFails(w) \/ Quit(w)

-----------------------------------------------------------------------------
(* The balancer with a client that sends requests, may tear the workers    *)
(* down after it has closed the channel, and always listens for errors and *)
(* for the end.                                                            *)

Client == SendRequest \/ CloseRequests \/ TearDownWorkers

WorkerStep(w) == WorkerLocal(w) \/ WorkSucceeds(w) \/ ReportError(w)

BalancerNext ==
  /\ ~panicked
  /\ \/ Client
     \/ Dispatcher
     \/ Listener \/ AllWorkersFinished
     \/ \E w \in Worker : WorkerStep(w)

\* Every goroutine that can run does run; nothing obliges the client.
BalancerFairness ==
  /\ WF_balancerVars(~panicked /\ Dispatcher)
  /\ WF_balancerVars(~panicked /\ (Listener \/ AllWorkersFinished))
  /\ \A w \in Worker : WF_balancerVars(~panicked /\ WorkerStep(w))

BalancerSpec == BalancerInit /\ [][BalancerNext]_balancerVars /\ BalancerFairness

-----------------------------------------------------------------------------
(* What makes the balancer correct.                                        *)

Closing == dPc \in {"close", "done"}
Quitted(w) == wPc[w] \in {"finish", "exited"}

\* What a worker still has to do: its queue, the request in its hand, one
\* that completed has not subtracted yet, one that dispatch has added and
\* not sent yet.
InHand(w)  == IF wPc[w] \in {"loop", "running", "error", "handled"} THEN 1 ELSE 0
Uncount(w) == IF lPc = "lock" /\ lWorker = w THEN 1 ELSE 0
Unsent(w)  == IF dPc \in {"fix", "send"} /\ dWorker = w THEN 1 ELSE 0
Load(w)    == Len(queue[w]) + InHand(w) + Uncount(w) + Unsent(w)

\* Until the queues are closed (worker.go says that stealing ends this),
\* Worker.Pending is the load of the worker, between any two steps of the
\* goroutines; a worker that was torn down leaves Pending too high, never
\* too low.
LoadExact ==
  ~Closing => \A w \in Worker :
                /\ ~tearDown => pending[w] = Load(w)
                /\ pending[w] >= Load(w)

\* dispatch sends to a worker's channel with the pool locked, and the
\* worker's next requests only become handled when the listener gets that
\* lock.  Were the buffer ever full, the two would wait for each other: it
\* never is, although the check of Pending is made without the lock.
NeverBlocksHoldingLock == dPc = "send" => Len(queue[dWorker]) < QueueSize

\* The worker that dispatch takes under the lock is one with the least load
\* of all (balancer.go:119), whatever happened since the unlocked poll.
LeastLoaded ==
  dPc = "lock" /\ lock = "free" =>
    \A w \in Worker : pending[slots[0]] <= pending[w]

\* The lock is held exactly by a goroutine inside dispatch or completed, and
\* no two of them are sifting the heap.
LockHeld ==
  /\ lock = "dispatcher" <=> dPc \in {"fix", "send"}
  /\ lock = "listener" <=> lPc = "fix"
  /\ fixPc # "idle" <=> dPc = "fix" \/ lPc = "fix"

Holders(r) == {w \in Worker : wReq[w] = r}
Queued(r)  == {w \in Worker : \E i \in DOMAIN queue[w] : queue[w][i] = r}

\* When the balancer signals that all workers have finished, they have, and
\* unless they were torn down the work of every request that was sent has
\* been run to its end: nothing is left in a queue that nobody serves.
FinishedMeansResolved ==
  lPc \in {"signal", "done"} =>
    /\ \A w \in Worker : wPc[w] = "exited"
    /\ tearDown \/ \A r \in 1 .. sent : result[r] # "none"

\* Once the client has closed the request channel, and whether or not it
\* tears the workers down, the balancer tells it that all have finished.
EventuallyFinishes == reqClosed ~> lPc = "done" \/ panicked

\* Every request that was sent is worked on to its end unless the client
\* tears the workers down: polling for a free worker does not last.
EventuallyResolved ==
  \A r \in Request :
    sent >= r ~> result[r] # "none" \/ tearDown \/ panicked

\* balancer.go:109: closeWorkersRequestChannel closes the request channel of
\* all workers (each of them once: a second close is a panic).
ClosesEachQueueOnce == ~panicked

=============================================================================
