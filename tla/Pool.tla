-------------------------------- MODULE Pool --------------------------------
(***************************************************************************)
(* The worker pool of azure/concurrent/pool.go: a min-heap of workers,     *)
(* ordered by the number of requests each of them still has to handle,     *)
(* that the dispatcher and the listener of the balancer share under one    *)
(* lock.  heap.Fix is written as a step per comparison and a step per      *)
(* store of Swap: goroutines that read the heap WITHOUT the lock run       *)
(* between those steps and see what the stores have done so far.           *)
(***************************************************************************)
EXTENDS Integers

CONSTANT WorkerCount    \* Balancer.workerCount
ASSUME WorkerCountAssumption == WorkerCount \in Nat \ {0}

Worker   == 0 .. WorkerCount - 1    \* Worker.ID
Position == 0 .. WorkerCount - 1    \* an index of Pool.Workers

VARIABLES
  slots,      \* Pool.Workers: the worker at each position of the heap
  index,      \* Worker.Index: where a worker believes that it is
  pending,    \* Worker.Pending: its load
  lock,       \* who holds Pool.RWMutex: "free", "dispatcher" or "listener"
  fixPc,      \* heap.Fix: "idle", or sifting "down" or "up"
  fixAt,      \* the position that is being sifted
  fixFrom,    \* the position that Fix was called with
  fixChild,   \* while a Swap is half done, the child's position; 0 otherwise
  fixTmp      \* while a Swap is half done, the worker to store there

heapVars == <<slots, index>>
fixVars  == <<fixPc, fixAt, fixFrom, fixChild, fixTmp>>
poolVars == <<slots, index, pending, lock, fixPc, fixAt, fixFrom, fixChild, fixTmp>>

PoolTypeOK ==
  /\ slots \in [Position -> Worker]
  /\ index \in [Worker -> Position]
  /\ pending \in [Worker -> Int]
  /\ lock \in {"free", "dispatcher", "listener"}
  /\ fixPc \in {"idle", "down", "up"}
  /\ fixAt \in Position
  /\ fixFrom \in Position
  /\ fixChild \in Position
  /\ fixTmp \in Worker

Parent(i) == (i - 1) \div 2

(***************************************************************************)
(* NewBalancer and Init fill the slice in the order of the IDs.  NewWorker *)
(* leaves Index at its zero value, so that every worker but the first      *)
(* starts with an Index that is not its position.                          *)
(***************************************************************************)
PoolInit ==
  /\ slots = [i \in Position |-> i]
  /\ index = [w \in Worker |-> 0]
  /\ pending = [w \in Worker |-> 0]
  /\ lock = "free"
  /\ fixPc = "idle"
  /\ fixAt = 0
  /\ fixFrom = 0
  /\ fixChild = 0
  /\ fixTmp = 0

\* Mutant: the heap has the largest load at its root.
More(i, j) == pending[slots[i]] > pending[slots[j]]

Less(i, j) == pending[slots[i]] < pending[slots[j]]

\* The child of i that container/heap's down compares with i: the smaller
\* one, the left one when they are equal.
MinChild(i) ==
  IF 2 * i + 2 < WorkerCount /\ Less(2 * i + 2, 2 * i + 1)
  THEN 2 * i + 2
  ELSE 2 * i + 1

\* The call of heap.Fix(&b.pool, i).
FixCall(i) ==
  /\ fixPc' = "down"
  /\ fixAt' = i
  /\ fixFrom' = i
  /\ UNCHANGED <<fixChild, fixTmp>>

FixReturn ==
  /\ fixPc' = "idle"
  /\ fixAt' = 0
  /\ fixFrom' = 0
  /\ UNCHANGED <<fixChild, fixTmp, heapVars>>

(***************************************************************************)
(* Swap(Parent(child), child) loads both elements, stores the child's      *)
(* worker in the parent's position (SwapBegin) and then the parent's in    *)
(* the child's, and sets the Index of both (SwapEnd).  Index is only read  *)
(* under the lock, so that its stores need no steps of their own.          *)
(***************************************************************************)
SwapBegin(child) ==
  /\ slots' = [slots EXCEPT ![Parent(child)] = slots[child]]
  /\ fixChild' = child
  /\ fixTmp' = slots[Parent(child)]
  /\ UNCHANGED <<index, fixPc, fixAt, fixFrom>>

SwapEnd ==
  /\ fixChild # 0
  /\ slots' = [slots EXCEPT ![fixChild] = fixTmp]
  /\ index' = [index EXCEPT ![slots[Parent(fixChild)]] = Parent(fixChild),
                            ![fixTmp] = fixChild]
  /\ fixAt' = IF fixPc = "down" THEN fixChild ELSE Parent(fixChild)
  /\ fixChild' = 0
  /\ fixTmp' = 0
  /\ UNCHANGED <<fixPc, fixFrom>>

\* One iteration of down(h, i, n); Fix goes on with up only when down did
\* not move the element.
FixDown ==
  /\ fixPc = "down" /\ fixChild = 0
  /\ \/ /\ 2 * fixAt + 1 < WorkerCount
        /\ Less(MinChild(fixAt), fixAt)
        /\ SwapBegin(MinChild(fixAt))
     \/ /\ ~(2 * fixAt + 1 < WorkerCount /\ Less(MinChild(fixAt), fixAt))
        /\ fixAt = fixFrom
        /\ fixPc' = "up"
        /\ UNCHANGED <<fixAt, fixFrom, fixChild, fixTmp, heapVars>>
     \/ /\ ~(2 * fixAt + 1 < WorkerCount /\ Less(MinChild(fixAt), fixAt))
        /\ fixAt # fixFrom
        /\ FixReturn

\* One iteration of up(h, j).
FixUp ==
  /\ fixPc = "up" /\ fixChild = 0
  /\ \/ /\ fixAt # 0
        /\ Less(fixAt, Parent(fixAt))
        /\ SwapBegin(fixAt)
     \/ /\ ~(fixAt # 0 /\ Less(fixAt, Parent(fixAt)))
        /\ FixReturn

FixStep == FixDown \/ FixUp \/ SwapEnd

=============================================================================
