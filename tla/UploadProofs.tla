---------------------------- MODULE UploadProofs ----------------------------
(***************************************************************************)
(* Theorems about the balancer, its pool and the Upload that uses them,    *)
(* for any number of workers, ranges and retries and any size of the       *)
(* queues: the pool is a heap, the loads and the positions in it are       *)
(* right, no request is lost, and the balancer implements TaskPool; so     *)
(* does the balancer inside Upload, whose every step is one of the         *)
(* balancer or none.  With the places of Upload, of the goroutine that     *)
(* reads the disk and of the one that listens for errors this gives that   *)
(* nobody reports to a closed tracker, that every block that was written   *)
(* is counted once, and how much nil can miss.  The prover does not use    *)
(* the fairness of the specifications: all of these are safety properties. *)
(***************************************************************************)
EXTENDS Upload, BalancerRefinement, ListsProofs

-----------------------------------------------------------------------------
(* heap.Fix keeps the pool a heap.  The invariant speaks of the heap as    *)
(* Swap leaves it (Logical), so that the first store of a Swap is the step *)
(* that matters and the second one changes nothing; PoolInv names what     *)
(* holds while an element is sifted.                                       *)

NonRoot == Position \ {0}

\* Pool.Workers as it is once the Swap in progress, if any, is done.
Logical == [i \in Position |-> IF fixChild # 0 /\ i = fixChild THEN fixTmp ELSE slots[i]]

\* The position of the element that Fix is sifting, after that Swap.
Sifted == IF fixChild = 0 THEN fixAt
          ELSE IF fixPc = "down" THEN fixChild ELSE Parent(fixChild)

Key(i) == pending[Logical[i]]
Ordered(i) == Key(Parent(i)) <= Key(i)

\* Every worker is at one position and at no other.
Permutation ==
  /\ \A w \in Worker : \E i \in Position : Logical[i] = w
  /\ \A i, j \in Position : Logical[i] = Logical[j] => i = j

\* The children of the sifted element are not below the element's parent.
Bridged(i) == Parent(i) = Sifted /\ Sifted # 0 => Key(Parent(Sifted)) <= Key(i)

HeapIdle == fixPc = "idle" => fixChild = 0 /\ \A i \in NonRoot : Ordered(i)

HeapDown ==
  fixPc = "down" =>
    /\ fixFrom <= Sifted
    /\ \A i \in NonRoot :
         /\ i # Sifted /\ Parent(i) # Sifted => Ordered(i)
         /\ i = Sifted /\ Sifted # fixFrom => Ordered(i)
         /\ Bridged(i)

HeapUp ==
  fixPc = "up" =>
    \A i \in NonRoot : (i # Sifted => Ordered(i)) /\ Bridged(i)

\* The Index of a worker is its position, unless a Swap is about to set it:
\* needed, and true, only for the root and for workers that have a load.
IndexRight ==
  \A w \in Worker :
    /\ pending[w] > 0 \/ w = Logical[0]
    /\ fixChild # 0 => w # Logical[Parent(fixChild)] /\ w # fixTmp
    => Logical[index[w]] = w

PoolInv == Permutation /\ HeapIdle /\ HeapDown /\ HeapUp /\ IndexRight

\* The arithmetic of the heap's positions.
LEMMA ParentFacts ==
  ASSUME NEW i \in NonRoot
  PROVE  /\ Parent(i) \in Position
         /\ Parent(i) < i
         /\ i = 2 * Parent(i) + 1 \/ i = 2 * Parent(i) + 2
BY WorkerCountAssumption DEF Parent, NonRoot, Position

\* The children of a position are the two that have it as their parent.
LEMMA ChildFacts ==
  ASSUME NEW p \in Position, NEW i \in NonRoot
  PROVE  i = 2 * p + 1 \/ i = 2 * p + 2 <=> Parent(i) = p
BY WorkerCountAssumption, ParentFacts DEF Parent, NonRoot, Position

\* In a heap that nobody is sifting, the worker at the root has the least
\* load of all.
LEMMA RootIsLeast ==
  ASSUME PoolTypeOK, Permutation, HeapIdle, fixPc = "idle"
  PROVE  \A w \in Worker : pending[slots[0]] <= pending[w]
<1> DEFINE Bad == {i \in Position : ~(pending[slots[0]] <= pending[slots[i]])}
<1>0. 0 \in Position /\ \A j \in Position : pending[slots[j]] \in Int
  <2>1. \A j \in Position : slots[j] \in Worker
    BY DEF PoolTypeOK
  <2> QED
    BY <2>1, WorkerCountAssumption DEF PoolTypeOK, Position
<1>1. \A i \in Position : Logical[i] = slots[i]
  BY DEF Logical, HeapIdle
<1>2. Bad = {}
  <2> SUFFICES ASSUME Bad # {} PROVE FALSE
    OBVIOUS
  <2>1. Bad \in SUBSET Nat
    BY WorkerCountAssumption DEF Position
  <2>2. PICK i \in Bad : \A j \in Bad : i <= j
    <3> HIDE DEF Bad
    <3> QED BY <2>1, LeastMember
  <2>3. i \in NonRoot /\ i \in Position
    BY WorkerCountAssumption DEF NonRoot, Position, PoolTypeOK
  <2>4. Parent(i) \in Position /\ Parent(i) < i
    BY <2>3, ParentFacts
  <2>5. Parent(i) \notin Bad
    BY <2>1, <2>2, <2>4 DEF Position
  <2>6. pending[slots[Parent(i)]] <= pending[slots[i]]
    BY <1>1, <2>3, <2>4 DEF HeapIdle, Ordered, Key
  <2> QED
    BY <1>0, <2>3, <2>4, <2>5, <2>6
<1>3. TAKE w \in Worker
<1>4. PICK i \in Position : slots[i] = w
  BY <1>1 DEF Permutation
<1> QED
  BY <1>2, <1>4

\* The call of Fix after the load of one worker has changed by any amount:
\* that worker's Index is right, so that Fix starts at the one position
\* whose order may be wrong.
LEMMA CallKeepsPool ==
  ASSUME PoolTypeOK, PoolInv, fixPc = "idle",
         NEW w \in Worker, slots[index[w]] = w,
         \A v \in Worker : v # w => pending'[v] = pending[v],
         FixCall(index[w]), UNCHANGED heapVars
  PROVE  PoolInv'
<1>0. PICK s \in Position : s = index[w]
  BY DEF PoolTypeOK
<1>1. /\ fixChild = 0 /\ fixChild' = 0 /\ Sifted' = s /\ fixFrom' = s
      /\ s \in Position /\ fixPc' = "down"
  BY <1>0 DEF PoolTypeOK, PoolInv, HeapIdle, FixCall, Sifted
<1>2. Logical' = Logical /\ Logical = [i \in Position |-> slots[i]]
  BY <1>1 DEF Logical, heapVars
<1>3. \A i \in Position : /\ Logical[i] \in Worker
                          /\ Logical[i] = w <=> i = s
  BY <1>0, <1>1, <1>2 DEF PoolTypeOK, PoolInv, Permutation
<1>4. \A i \in Position : /\ Key(i) \in Int
                          /\ i # s => Key(i)' = Key(i)
  BY <1>2, <1>3 DEF Key, PoolTypeOK
<1>5. Permutation'
  BY <1>2 DEF PoolInv, Permutation
<1>6. HeapIdle' /\ HeapUp'
  BY <1>1 DEF HeapIdle, HeapUp
<1>7. HeapDown'
  <2> SUFFICES ASSUME NEW i \in NonRoot
               PROVE  /\ i # s /\ Parent(i) # s => Ordered(i)'
                      /\ Parent(i) = s /\ s # 0 => Key(Parent(s))' <= Key(i)'
    BY <1>1 DEF HeapDown, Bridged, Position
  <2>1. i \in Position /\ Parent(i) \in Position /\ Ordered(i)
    BY ParentFacts DEF NonRoot, PoolInv, HeapIdle
  <2>2. ASSUME i # s, Parent(i) # s PROVE Ordered(i)'
    BY <1>4, <2>1, <2>2 DEF Ordered
  <2>3. ASSUME Parent(i) = s, s # 0 PROVE Key(Parent(s))' <= Key(i)'
    <3>1. s \in NonRoot
      BY <1>1, <2>3 DEF NonRoot
    <3>2. Parent(s) \in Position /\ Parent(s) # s /\ i # s /\ Ordered(s)
      BY <2>3, <3>1, ParentFacts DEF NonRoot, Position, PoolInv, HeapIdle
    <3>3. Key(Parent(s)) <= Key(s) /\ Key(s) <= Key(i)
      BY <2>1, <2>3, <3>2 DEF Ordered
    <3> QED
      BY <1>1, <1>4, <2>1, <3>2, <3>3
  <2> QED
    BY <2>2, <2>3
<1>8. IndexRight'
  <2> SUFFICES ASSUME NEW v \in Worker, pending'[v] > 0 \/ v = Logical'[0]
               PROVE  Logical'[index'[v]] = v
    BY DEF IndexRight
  <2>1. CASE v = w
    BY <1>0, <1>1, <1>2, <2>1 DEF heapVars
  <2>2. CASE v # w
    BY <1>1, <1>2, <2>2 DEF heapVars, PoolInv, IndexRight, PoolTypeOK
  <2> QED
    BY <2>1, <2>2
<1> QED
  BY <1>5, <1>6, <1>7, <1>8 DEF PoolInv

\* The first store of Swap exchanges two elements of the logical heap.
LEMMA SwapBeginExchanges ==
  ASSUME PoolTypeOK, fixChild = 0, NEW c \in NonRoot, SwapBegin(c),
         UNCHANGED pending
  PROVE  /\ fixChild' = c
         /\ Logical'[c] = Logical[Parent(c)]
         /\ Logical'[Parent(c)] = Logical[c]
         /\ \A i \in Position : i # c /\ i # Parent(c) => Logical'[i] = Logical[i]
         /\ \A i \in Position : Key(i) \in Int
         /\ Key(c)' = Key(Parent(c))
         /\ Key(Parent(c))' = Key(c)
         /\ \A i \in Position : i # c /\ i # Parent(c) => Key(i)' = Key(i)
<1>0. c \in Position /\ Parent(c) \in Position /\ Parent(c) # c /\ c # 0
  BY ParentFacts DEF NonRoot, Position
<1>1. \A i \in Position : slots[i] \in Worker
  BY DEF PoolTypeOK
<1>2. /\ fixChild' = c
      /\ fixTmp' = slots[Parent(c)]
      /\ slots' = [slots EXCEPT ![Parent(c)] = slots[c]]
  BY DEF SwapBegin
<1>3. Logical = [i \in Position |-> slots[i]]
  BY DEF Logical
<1>4. Logical' = [i \in Position |-> IF i = c THEN slots[Parent(c)] ELSE slots'[i]]
  BY <1>0, <1>1, <1>2 DEF Logical
<1>5. /\ Logical'[c] = Logical[Parent(c)]
      /\ Logical'[Parent(c)] = Logical[c]
      /\ \A i \in Position : i # c /\ i # Parent(c) => Logical'[i] = Logical[i]
  BY <1>0, <1>1, <1>2, <1>3, <1>4 DEF PoolTypeOK
<1>6. \A i \in Position : Key(i) \in Int
  BY <1>0, <1>1, <1>3 DEF Key, PoolTypeOK
<1> QED
  BY <1>0, <1>1, <1>2, <1>5, <1>6 DEF Key

\* A Swap keeps the workers in place but for two, and the Index of every
\* other worker right.
LEMMA SwapBeginKeeps ==
  ASSUME PoolTypeOK, PoolInv, fixChild = 0, NEW c \in NonRoot, SwapBegin(c),
         UNCHANGED pending
  PROVE  Permutation' /\ IndexRight'
<1>1. c \in Position /\ Parent(c) \in Position /\ Parent(c) # c /\ c # 0
  BY ParentFacts DEF NonRoot, Position
<1>2. /\ fixChild' = c
      /\ Logical'[c] = Logical[Parent(c)]
      /\ Logical'[Parent(c)] = Logical[c]
      /\ \A i \in Position : i # c /\ i # Parent(c) => Logical'[i] = Logical[i]
  BY SwapBeginExchanges
<1>3. Permutation'
  <2>1. ASSUME NEW w \in Worker PROVE \E i \in Position : Logical'[i] = w
    <3>1. PICK i \in Position : Logical[i] = w
      BY DEF PoolInv, Permutation
    <3> QED
      BY <1>1, <1>2, <3>1
  <2>2. ASSUME NEW i \in Position, NEW j \in Position, Logical'[i] = Logical'[j]
        PROVE  i = j
    BY <1>1, <1>2, <2>2 DEF PoolInv, Permutation
  <2> QED
    BY <2>1, <2>2 DEF Permutation
<1>4. IndexRight'
  <2> SUFFICES ASSUME NEW w \in Worker, pending[w] > 0 \/ w = Logical'[0],
                      w # Logical'[Parent(c)], w # fixTmp'
               PROVE  Logical'[index[w]] = w
    BY <1>1, <1>2 DEF IndexRight, SwapBegin
  <2>1. fixTmp' = Logical[Parent(c)]
    BY <1>1 DEF SwapBegin, Logical
  <2>2. 0 \in Position /\ 0 # c
    BY <1>1, WorkerCountAssumption DEF Position
  <2>3. pending[w] > 0 \/ w = Logical[0]
    BY <1>1, <1>2, <2>2
  <2>4. index[w] \in Position /\ Logical[index[w]] = w
    BY <2>3 DEF PoolInv, IndexRight, PoolTypeOK
  <2> QED
    BY <1>2, <2>1, <2>4
<1> QED
  BY <1>3, <1>4

\* The second store of Swap leaves the logical heap as it is and makes the
\* Index of the two workers right.
LEMMA SwapEndKeeps ==
  ASSUME PoolTypeOK, PoolInv, SwapEnd, UNCHANGED pending
  PROVE  PoolInv'
<1>1. /\ fixChild \in NonRoot /\ Parent(fixChild) \in Position
      /\ Parent(fixChild) # fixChild /\ fixChild \in Position
  BY ParentFacts DEF SwapEnd, NonRoot, PoolTypeOK, Position
<1>2. /\ fixChild' = 0 /\ fixPc' = fixPc /\ fixFrom' = fixFrom
      /\ slots' = [slots EXCEPT ![fixChild] = fixTmp]
      /\ fixAt' = Sifted
  BY DEF SwapEnd, Sifted
<1>3. Logical' = Logical /\ Sifted' = Sifted
  <2>1. Sifted' = Sifted
    BY <1>2 DEF Sifted
  <2>2. Logical' = [i \in Position |-> slots'[i]]
    BY <1>2 DEF Logical
  <2>3. Logical = [i \in Position |-> IF i = fixChild THEN fixTmp ELSE slots[i]]
    BY DEF Logical, SwapEnd
  <2>4. \A i \in Position : slots'[i] = IF i = fixChild THEN fixTmp ELSE slots[i]
    BY <1>2 DEF PoolTypeOK
  <2> QED
    BY <2>1, <2>2, <2>3, <2>4
<1>4. \A i : Key(i)' = Key(i)
  BY <1>3 DEF Key
<1>5. Permutation' /\ HeapIdle' /\ HeapDown' /\ HeapUp'
  BY <1>2, <1>3, <1>4 DEF PoolInv, Permutation, HeapIdle, HeapDown, HeapUp, Ordered, Bridged
<1>6. IndexRight'
  <2>1. /\ Logical[Parent(fixChild)] = slots[Parent(fixChild)]
        /\ Logical[fixChild] = fixTmp
    BY <1>1 DEF Logical, NonRoot
  <2>2. index' = [index EXCEPT ![slots[Parent(fixChild)]] = Parent(fixChild),
                               ![fixTmp] = fixChild]
    BY DEF SwapEnd
  <2>3. slots[Parent(fixChild)] \in Worker /\ fixTmp \in Worker /\ index \in [Worker -> Position]
    BY <1>1 DEF PoolTypeOK
  <2> SUFFICES ASSUME NEW w \in Worker, pending[w] > 0 \/ w = Logical[0]
               PROVE  Logical[index'[w]] = w
    BY <1>2, <1>3 DEF IndexRight
  <2>4. CASE w = fixTmp
    BY <2>1, <2>2, <2>3, <2>4
  <2>5. CASE w # fixTmp /\ w = slots[Parent(fixChild)]
    BY <2>1, <2>2, <2>3, <2>5
  <2>6. CASE w # fixTmp /\ w # slots[Parent(fixChild)]
    BY <2>1, <2>2, <2>3, <2>6 DEF PoolInv, IndexRight
  <2> QED
    BY <2>4, <2>5, <2>6
<1> QED
  BY <1>5, <1>6 DEF PoolInv

\* A child that down compares with its parent is the smaller one.
LEMMA MinChildFacts ==
  ASSUME PoolTypeOK, fixChild = 0, NEW p \in Position, 2 * p + 1 < WorkerCount
  PROVE  /\ MinChild(p) \in NonRoot
         /\ Parent(MinChild(p)) = p
         /\ p < MinChild(p)
         /\ \A i \in NonRoot : Parent(i) = p => Key(MinChild(p)) <= Key(i)
<1>1. Logical = [i \in Position |-> slots[i]]
  BY DEF Logical
<1>2. \A i \in Position : pending[slots[i]] \in Int /\ Key(i) = pending[slots[i]]
  <2>1. \A i \in Position : slots[i] \in Worker
    BY DEF PoolTypeOK
  <2> QED
    BY <1>1, <2>1 DEF Key, PoolTypeOK
<1>3. /\ 2 * p + 1 \in NonRoot
      /\ 2 * p + 2 < WorkerCount => 2 * p + 2 \in NonRoot
  BY WorkerCountAssumption DEF Position, NonRoot
<1>4. MinChild(p) \in NonRoot /\ p < MinChild(p) /\ MinChild(p) \in {2 * p + 1, 2 * p + 2}
  BY <1>3 DEF MinChild, Position
<1>5. Parent(MinChild(p)) = p
  BY <1>4, ChildFacts
<1>6. ASSUME NEW i \in NonRoot, Parent(i) = p PROVE Key(MinChild(p)) <= Key(i)
  <2>1. i = 2 * p + 1 \/ (i = 2 * p + 2 /\ 2 * p + 2 < WorkerCount)
    BY <1>6, ChildFacts, WorkerCountAssumption DEF NonRoot, Position
  <2>2. NonRoot \subseteq Position
    BY DEF NonRoot
  <2>3. CASE 2 * p + 2 < WorkerCount /\ Less(2 * p + 2, 2 * p + 1)
    <3>1. MinChild(p) = 2 * p + 2
      BY <2>3 DEF MinChild
    <3> QED
      BY <1>2, <1>3, <2>1, <2>2, <2>3, <3>1 DEF Less
  <2>4. CASE ~(2 * p + 2 < WorkerCount /\ Less(2 * p + 2, 2 * p + 1))
    <3>1. MinChild(p) = 2 * p + 1
      BY <2>4 DEF MinChild
    <3> QED
      BY <1>2, <1>3, <2>1, <2>2, <2>4, <3>1 DEF Less
  <2> QED
    BY <2>3, <2>4
<1> QED
  BY <1>4, <1>5, <1>6

\* An iteration of down that swaps: the element moves to its smaller child's
\* position, and the child fits between what is above and below it.
LEMMA DownSwapKeeps ==
  ASSUME PoolTypeOK, PoolInv, fixPc = "down", fixChild = 0,
         2 * fixAt + 1 < WorkerCount, Less(MinChild(fixAt), fixAt),
         SwapBegin(MinChild(fixAt)), UNCHANGED pending
  PROVE  PoolInv'
<1>1. PICK p \in Position, m \in NonRoot : p = fixAt /\ m = MinChild(fixAt)
  BY MinChildFacts DEF PoolTypeOK
<1>2. /\ Parent(m) = p /\ p < m /\ m \in Position /\ p \in Nat /\ m \in Nat
      /\ \A i \in NonRoot : Parent(i) = p => Key(m) <= Key(i)
  BY <1>1, MinChildFacts DEF NonRoot, Position
<1>3. /\ fixPc' = "down" /\ fixFrom' = fixFrom /\ fixChild' = m /\ Sifted' = m
      /\ Sifted = p
  BY <1>1, <1>2 DEF SwapBegin, Sifted
<1>4. /\ \A i \in Position : Key(i) \in Int
      /\ Key(m)' = Key(p) /\ Key(p)' = Key(m)
      /\ \A i \in Position : i # m /\ i # p => Key(i)' = Key(i)
  BY <1>1, <1>2, SwapBeginExchanges
<1>5. Key(m) < Key(p)
  BY <1>1, <1>2 DEF Less, Key, Logical
<1>6. /\ fixFrom <= p
      /\ \A i \in NonRoot : /\ i # p /\ Parent(i) # p => Ordered(i)
                            /\ i = p /\ p # fixFrom => Ordered(i)
                            /\ Parent(i) = p /\ p # 0 => Key(Parent(p)) <= Key(i)
  BY <1>3 DEF PoolInv, HeapDown, Bridged
<1>7. Permutation' /\ IndexRight'
  BY <1>1, SwapBeginKeeps
<1>8. HeapIdle' /\ HeapUp'
  BY <1>3 DEF HeapIdle, HeapUp
<1>9. HeapDown'
  <2>1. fixFrom \in Int /\ fixFrom <= m
    BY <1>2, <1>6 DEF PoolTypeOK, Position
  <2> SUFFICES ASSUME NEW i \in NonRoot
               PROVE  /\ i # m /\ Parent(i) # m => Ordered(i)'
                      /\ i = m => Ordered(i)'
                      /\ Parent(i) = m => Key(p)' <= Key(i)'
    BY <1>2, <1>3, <2>1 DEF HeapDown, Bridged
  <2>2. i \in Position /\ Parent(i) \in Position /\ Parent(i) # i
    BY ParentFacts DEF NonRoot, Position
  <2>3. ASSUME i = p PROVE Ordered(i)'
    <3>1. Parent(p) # m /\ p # 0
      BY <1>2, <2>3, ParentFacts DEF NonRoot, Position
    <3>2. Key(Parent(p)) <= Key(m)
      BY <1>2, <1>6, <3>1
    <3> QED
      BY <1>4, <2>2, <2>3, <3>1, <3>2 DEF Ordered
  <2>4. ASSUME Parent(i) = p PROVE Ordered(i)'
    BY <1>2, <1>4, <1>5, <2>2, <2>4 DEF Ordered
  <2>5. ASSUME i # p, i # m, Parent(i) # p, Parent(i) # m PROVE Ordered(i)'
    BY <1>4, <1>6, <2>2, <2>5 DEF Ordered
  <2>6. ASSUME Parent(i) = m PROVE Key(p)' <= Key(i)'
    <3>1. i # p /\ i # m
      BY <1>2, <2>2, <2>6, ParentFacts DEF NonRoot, Position
    <3> QED
      BY <1>2, <1>4, <1>6, <2>2, <2>6, <3>1 DEF Ordered
  <2> QED
    BY <1>2, <2>3, <2>4, <2>5, <2>6
<1> QED
  BY <1>7, <1>8, <1>9 DEF PoolInv

\* An iteration of up that swaps: the element moves to its parent's position.
LEMMA UpSwapKeeps ==
  ASSUME PoolTypeOK, PoolInv, fixPc = "up", fixChild = 0, fixAt # 0,
         Less(fixAt, Parent(fixAt)), SwapBegin(fixAt), UNCHANGED pending
  PROVE  PoolInv'
<1>1. PICK c \in NonRoot, p \in Position : c = fixAt /\ p = Parent(c)
  BY ParentFacts DEF PoolTypeOK, NonRoot
<1>2. p < c /\ c \in Position /\ p \in Nat /\ c \in Nat
  BY <1>1, ParentFacts DEF NonRoot, Position
<1>3. /\ fixPc' = "up" /\ fixChild' = c /\ Sifted' = p /\ Sifted = c
  BY <1>1, <1>2 DEF SwapBegin, Sifted, NonRoot
<1>4. /\ \A i \in Position : Key(i) \in Int
      /\ Key(c)' = Key(p) /\ Key(p)' = Key(c)
      /\ \A i \in Position : i # c /\ i # p => Key(i)' = Key(i)
  BY <1>1, <1>2, SwapBeginExchanges
<1>5. Key(c) < Key(p)
  BY <1>1, <1>2 DEF Less, Key, Logical
<1>6. \A i \in NonRoot : /\ i # c => Ordered(i)
                         /\ Parent(i) = c => Key(p) <= Key(i)
  BY <1>1, <1>3 DEF PoolInv, HeapUp, Bridged
<1>7. Permutation' /\ IndexRight'
  BY <1>1, SwapBeginKeeps
<1>8. HeapIdle' /\ HeapDown'
  BY <1>3 DEF HeapIdle, HeapDown
<1>9. HeapUp'
  <2> SUFFICES ASSUME NEW i \in NonRoot
               PROVE  /\ i # p => Ordered(i)'
                      /\ Parent(i) = p /\ p # 0 => Key(Parent(p))' <= Key(i)'
    BY <1>3 DEF HeapUp, Bridged
  <2>1. i \in Position /\ Parent(i) \in Position /\ Parent(i) # i
    BY ParentFacts DEF NonRoot, Position
  <2>2. ASSUME i # p PROVE Ordered(i)'
    <3>1. CASE i = c
      BY <1>1, <1>2, <1>4, <1>5, <3>1 DEF Ordered
    <3>2. CASE i # c /\ Parent(i) = p
      BY <1>2, <1>4, <1>5, <1>6, <2>1, <2>2, <3>2 DEF Ordered
    <3>3. CASE i # c /\ Parent(i) = c
      BY <1>2, <1>4, <1>6, <2>1, <2>2, <3>3 DEF Ordered
    <3>4. CASE i # c /\ Parent(i) # p /\ Parent(i) # c
      BY <1>4, <1>6, <2>1, <2>2, <3>4 DEF Ordered
    <3> QED
      BY <3>1, <3>2, <3>3, <3>4
  <2>3. ASSUME Parent(i) = p, p # 0 PROVE Key(Parent(p))' <= Key(i)'
    <3>1. p \in NonRoot /\ p # c
      BY <1>2, <2>3 DEF NonRoot
    <3>2. Parent(p) \in Position /\ Parent(p) # p /\ Parent(p) # c
      BY <1>2, <3>1, ParentFacts DEF NonRoot, Position
    <3>3. Key(Parent(p))' = Key(Parent(p)) /\ Key(Parent(p)) <= Key(p)
      BY <1>4, <1>6, <3>1, <3>2 DEF Ordered
    <3>4. Key(p) <= Key(i)'
      <4>1. CASE i = c
        BY <1>4, <4>1, <1>2
      <4>2. CASE i # c
        BY <1>4, <1>6, <2>1, <2>3, <4>2 DEF Ordered
      <4> QED
        BY <4>1, <4>2
    <3>5. Key(i)' \in Int /\ Key(p) \in Int /\ Key(Parent(p)) \in Int
      BY <1>2, <1>4, <2>1, <3>2
    <3> QED
      BY <3>3, <3>4, <3>5
  <2> QED
    BY <2>2, <2>3
<1> QED
  BY <1>7, <1>8, <1>9 DEF PoolInv

\* Down ends: the element is not below either child.
LEMMA DownEnds ==
  ASSUME PoolTypeOK, fixChild = 0, NEW i \in NonRoot, Parent(i) = fixAt,
         ~(2 * fixAt + 1 < WorkerCount /\ Less(MinChild(fixAt), fixAt))
  PROVE  Ordered(i)
<1>1. PICK p \in Position : p = fixAt
  BY DEF PoolTypeOK
<1>2. i \in Position /\ 2 * p + 1 < WorkerCount
  BY <1>1, ChildFacts, WorkerCountAssumption DEF NonRoot, Position
<1>3. /\ MinChild(p) \in Position /\ Key(MinChild(p)) <= Key(i)
  BY <1>1, <1>2, MinChildFacts DEF NonRoot
<1>4. ~(Key(MinChild(p)) < Key(p))
  BY <1>1, <1>2, <1>3 DEF Less, Key, Logical
<1>5. \A j \in Position : Key(j) \in Int
  <2>1. \A j \in Position : slots[j] \in Worker
    BY DEF PoolTypeOK
  <2> QED
    BY <2>1 DEF Key, Logical, PoolTypeOK
<1> QED
  BY <1>1, <1>2, <1>3, <1>4, <1>5 DEF Ordered

\* Every step of heap.Fix keeps the invariant of the pool; when the last one
\* returns, the pool is a heap again.
LEMMA FixKeepsPool ==
  ASSUME PoolTypeOK, PoolInv, FixStep, UNCHANGED pending
  PROVE  PoolInv'
<1> DEFINE Stop == ~(2 * fixAt + 1 < WorkerCount /\ Less(MinChild(fixAt), fixAt))
<1>1. ASSUME fixPc # "idle", fixChild = 0, fixChild' = 0, UNCHANGED heapVars
      PROVE  /\ Permutation' /\ IndexRight'
             /\ Sifted = fixAt /\ Sifted' = fixAt'
             /\ \A i : Key(i)' = Key(i)
  <2>1. Logical' = Logical
    BY <1>1 DEF Logical, heapVars
  <2> QED
    BY <1>1, <2>1 DEF Sifted, Key, PoolInv, Permutation, IndexRight, heapVars
<1>2. CASE SwapEnd
  BY <1>2, SwapEndKeeps
<1>3. CASE FixDown
  <2> USE <1>3 DEF FixDown
  <2>1. CASE 2 * fixAt + 1 < WorkerCount /\ Less(MinChild(fixAt), fixAt) /\ SwapBegin(MinChild(fixAt))
    BY <2>1, DownSwapKeeps
  <2>2. CASE /\ Stop /\ fixAt = fixFrom /\ fixPc' = "up"
             /\ UNCHANGED <<fixAt, fixFrom, fixChild, fixTmp, heapVars>>
    <3>1. /\ Permutation' /\ IndexRight' /\ Sifted = fixAt /\ Sifted' = fixAt
          /\ \A i : Key(i)' = Key(i)
      BY <1>1, <2>2
    <3>2. HeapIdle' /\ HeapDown'
      BY <2>2 DEF HeapIdle, HeapDown
    <3>3. ASSUME NEW i \in NonRoot, i # fixAt PROVE Ordered(i)
      BY <2>2, <3>1, <3>3, DownEnds DEF PoolInv, HeapDown
    <3>4. HeapUp'
      BY <2>2, <3>1, <3>3 DEF HeapUp, PoolInv, HeapDown, Ordered, Bridged
    <3> QED
      BY <3>1, <3>2, <3>4 DEF PoolInv
  <2>3. CASE Stop /\ fixAt # fixFrom /\ FixReturn
    <3>1. /\ Permutation' /\ IndexRight' /\ Sifted = fixAt
          /\ \A i : Key(i)' = Key(i)
      BY <1>1, <2>3 DEF FixReturn
    <3>2. HeapDown' /\ HeapUp'
      BY <2>3 DEF HeapDown, HeapUp, FixReturn
    <3>3. ASSUME NEW i \in NonRoot PROVE Ordered(i)
      BY <2>3, <3>1, DownEnds DEF PoolInv, HeapDown
    <3>4. HeapIdle'
      BY <2>3, <3>1, <3>3 DEF HeapIdle, Ordered, FixReturn
    <3> QED
      BY <3>1, <3>2, <3>4 DEF PoolInv
  <2> QED
    BY <2>1, <2>2, <2>3
<1>4. CASE FixUp
  <2> USE <1>4 DEF FixUp
  <2>1. CASE fixAt # 0 /\ Less(fixAt, Parent(fixAt)) /\ SwapBegin(fixAt)
    BY <2>1, UpSwapKeeps
  <2>2. CASE ~(fixAt # 0 /\ Less(fixAt, Parent(fixAt))) /\ FixReturn
    <3>1. /\ Permutation' /\ IndexRight' /\ Sifted = fixAt
          /\ \A i : Key(i)' = Key(i)
      BY <1>1, <2>2 DEF FixReturn
    <3>2. HeapDown' /\ HeapUp'
      BY <2>2 DEF HeapDown, HeapUp, FixReturn
    <3>3. ASSUME NEW i \in NonRoot PROVE Ordered(i)
      <4>1. CASE i # fixAt
        BY <3>1, <4>1 DEF PoolInv, HeapUp
      <4>2. CASE i = fixAt
        <5>1. /\ i \in Position /\ Parent(i) \in Position /\ i # 0
              /\ ~(pending[slots[i]] < pending[slots[Parent(i)]])
          BY <2>2, <4>2, ParentFacts DEF NonRoot, Less
        <5>2. slots[i] \in Worker /\ slots[Parent(i)] \in Worker
          BY <5>1 DEF PoolTypeOK
        <5> QED
          BY <5>1, <5>2 DEF Ordered, Key, Logical, PoolTypeOK
      <4> QED
        BY <4>1, <4>2
    <3>4. HeapIdle'
      BY <2>2, <3>1, <3>3 DEF HeapIdle, Ordered, FixReturn
    <3> QED
      BY <3>1, <3>2, <3>4 DEF PoolInv
  <2> QED
    BY <2>1, <2>2
<1> QED
  BY <1>2, <1>3, <1>4 DEF FixStep

\* The steps of Fix stay inside the slice.
LEMMA FixType ==
  ASSUME PoolTypeOK, FixStep
  PROVE  /\ slots' \in [Position -> Worker]
         /\ index' \in [Worker -> Position]
         /\ fixPc' \in {"idle", "down", "up"}
         /\ fixAt' \in Position
         /\ fixFrom' \in Position
         /\ fixChild' \in Position
         /\ fixTmp' \in Worker
<1>1. 0 \in Position /\ 0 \in Worker
  BY WorkerCountAssumption DEF Position, Worker
<1>2. ASSUME NEW c \in NonRoot, SwapBegin(c)
      PROVE  /\ slots' \in [Position -> Worker]
             /\ index' = index /\ fixPc' = fixPc /\ fixAt' = fixAt /\ fixFrom' = fixFrom
             /\ fixChild' \in Position /\ fixTmp' \in Worker
  BY <1>2, ParentFacts DEF SwapBegin, PoolTypeOK, NonRoot
<1>3. CASE FixDown
  <2>1. CASE 2 * fixAt + 1 < WorkerCount /\ SwapBegin(MinChild(fixAt)) /\ fixChild = 0
    BY <1>2, <2>1, MinChildFacts DEF PoolTypeOK
  <2>2. CASE FixReturn
    BY <1>1, <2>2 DEF FixReturn, PoolTypeOK, heapVars
  <2>3. CASE fixPc' = "up" /\ UNCHANGED <<fixAt, fixFrom, fixChild, fixTmp, heapVars>>
    BY <2>3 DEF PoolTypeOK, heapVars
  <2> QED
    BY <1>3, <2>1, <2>2, <2>3 DEF FixDown
<1>4. CASE FixUp
  <2>1. CASE fixAt # 0 /\ SwapBegin(fixAt)
    BY <1>2, <2>1 DEF PoolTypeOK, NonRoot
  <2>2. CASE FixReturn
    BY <1>1, <2>2 DEF FixReturn, PoolTypeOK, heapVars
  <2> QED
    BY <1>4, <2>1, <2>2 DEF FixUp
<1>5. CASE SwapEnd
  <2>1. Parent(fixChild) \in Position
    BY <1>5, ParentFacts DEF SwapEnd, PoolTypeOK, NonRoot
  <2> QED
    BY <1>1, <1>5, <2>1 DEF SwapEnd, PoolTypeOK
<1> QED
  BY <1>3, <1>4, <1>5 DEF FixStep

-----------------------------------------------------------------------------
(* The balancer.                                                           *)

\* The dispatcher has a request exactly while it is inside dispatch.
DispatcherHolds ==
  dPc \in {"check", "poll", "lock", "fix", "send"} <=> dReq # NoRequest

\* What the steps of a worker leave alone.
LEMMA WorkerFrame ==
  ASSUME NEW w \in Worker, WorkerStep(w)
  PROVE  UNCHANGED <<poolVars, clientVars, dispVars, listenVars, closed, panicked>>
BY DEF WorkerStep, WorkerLocal, TakeOwn, StartSteal, StealLoad, StealNothing,
       StealRecv, StealDrained, StartWork, WorkRetries, WorkFails, Quit,
       WorkSucceeds, ReportError, dispVars, listenVars, chanVars

\* The types are right before the first request.
LEMMA TypeInit ==
  ASSUME BalancerInit
  PROVE  TypeOK /\ DispatcherHolds
<1>1. 0 \in Worker /\ 0 \in Position /\ Worker = Position /\ 0 \in 0 .. WorkerCount
  BY WorkerCountAssumption DEF Worker, Position
<1>2. 0 \in 0 .. MaxRetryCount /\ 0 \in 0 .. NumRequests
  BY BalancerAssumption
<1>3. PoolTypeOK
  BY <1>1 DEF BalancerInit, PoolInit, PoolTypeOK
<1>4. queue \in [Worker -> Seq(Request)] /\ remaining \in Int
  BY WorkerCountAssumption DEF BalancerInit
<1>5. DispatcherHolds
  BY DEF BalancerInit, DispatcherHolds
<1> QED
  BY <1>1, <1>2, <1>3, <1>4, <1>5
     DEF BalancerInit, TypeOK, DispatcherPc, ListenerPc, WorkerPc

\* The type invariant, with the fact that makes it inductive: what dispatch
\* puts into a queue is a request.
LEMMA TypeStep ==
  ASSUME TypeOK, DispatcherHolds, [BalancerNext]_balancerVars
  PROVE  TypeOK' /\ DispatcherHolds'
<1>0. 0 \in Worker /\ 0 \in Position
  BY WorkerCountAssumption DEF Worker, Position
<1>a. slots[0] \in Worker
  BY <1>0 DEF TypeOK, PoolTypeOK
<1> USE DEF TypeOK, DispatcherHolds
<1>1. CASE UNCHANGED balancerVars
  BY <1>1 DEF balancerVars, poolVars, clientVars, dispVars, chanVars, listenVars, workVars, PoolTypeOK
<1>2. CASE SendRequest
  <2>1. sent + 1 \in Request /\ sent + 1 \in 0 .. NumRequests /\ sent + 1 # NoRequest
    BY <1>2, BalancerAssumption DEF SendRequest, Request, NoRequest
  <2> QED
    BY <1>2, <2>1 DEF SendRequest, poolVars, chanVars, listenVars, workVars, PoolTypeOK, DispatcherPc
<1>3. CASE CloseRequests \/ TearDownWorkers
  BY <1>3 DEF CloseRequests, TearDownWorkers, poolVars, dispVars, chanVars, listenVars, workVars, PoolTypeOK
<1>4. CASE RecvClosed \/ PollLoad \/ PollRead \/ CloseDone
  BY <1>0, <1>a, <1>4 DEF RecvClosed, PollLoad, PollRead, CloseDone, poolVars, clientVars, chanVars,
     listenVars, workVars, PoolTypeOK, DispatcherPc
<1>5. CASE DispatchLock
  <2>1. PoolTypeOK'
    <3>1. PICK r \in Worker : r = slots[0]
      BY <1>a
    <3>2. index[r] \in Position /\ pending[r] + 1 \in Int
      BY DEF PoolTypeOK
    <3> QED
      BY <1>5, <3>1, <3>2 DEF DispatchLock, FixCall, PoolTypeOK, heapVars
  <2> QED
    BY <1>a, <1>5, <2>1 DEF DispatchLock, clientVars, chanVars, listenVars, workVars, DispatcherPc
<1>6. CASE DispatchFix
  <2>1. PoolTypeOK'
    BY <1>6, FixType DEF DispatchFix, PoolTypeOK
  <2> QED
    BY <1>6, <2>1 DEF DispatchFix, clientVars, chanVars, listenVars, workVars, DispatcherPc
<1>7. CASE DispatchSend
  <2>1. queue' \in [Worker -> Seq(Request)]
    BY <1>7 DEF DispatchSend
  <2>2. PoolTypeOK'
    BY <1>7 DEF DispatchSend, PoolTypeOK, heapVars, fixVars
  <2> QED
    BY <1>0, <1>7, <2>1, <2>2 DEF DispatchSend, clientVars, listenVars, workVars, DispatcherPc
<1>8. CASE CloseNext
  <2>1. slots[dIdx] \in Worker /\ dIdx + 1 \in 0 .. WorkerCount
    BY <1>8, WorkerCountAssumption DEF CloseNext, PoolTypeOK, Position
  <2> QED
    BY <1>8, <2>1 DEF CloseNext, poolVars, clientVars, listenVars, workVars, PoolTypeOK
<1>9. ASSUME NEW w \in Worker, RequestHandled(w) \/ WorkerFinished(w)
      PROVE  TypeOK' /\ DispatcherHolds'
  <2>1. CASE RequestHandled(w)
    BY <2>1 DEF RequestHandled, poolVars, clientVars, dispVars, chanVars, PoolTypeOK, ListenerPc, WorkerPc
  <2>2. CASE WorkerFinished(w)
    <3>1. lPc' \in ListenerPc /\ remaining' \in Int /\ wPc' \in [Worker -> WorkerPc]
      BY <2>2 DEF WorkerFinished, ListenerPc, WorkerPc
    <3> QED
      BY <2>2, <3>1 DEF WorkerFinished, poolVars, clientVars, dispVars, chanVars, PoolTypeOK
  <2> QED
    BY <1>9, <2>1, <2>2
<1>10. CASE CompletedLock
  <2>1. PoolTypeOK'
    <3>1. index[lWorker] \in Position /\ pending[lWorker] - 1 \in Int
      BY DEF PoolTypeOK
    <3> QED
      BY <1>10, <3>1 DEF CompletedLock, FixCall, PoolTypeOK, heapVars
  <2> QED
    BY <1>10, <2>1 DEF CompletedLock, clientVars, dispVars, chanVars, workVars, ListenerPc
<1>11. CASE CompletedFix
  <2>1. PoolTypeOK'
    BY <1>11, FixType DEF CompletedFix, PoolTypeOK
  <2> QED
    BY <1>0, <1>11, <2>1 DEF CompletedFix, clientVars, dispVars, chanVars, workVars, ListenerPc
<1>12. CASE AllWorkersFinished
  BY <1>12 DEF AllWorkersFinished, poolVars, clientVars, dispVars, chanVars, workVars, PoolTypeOK, ListenerPc
<1>13. ASSUME NEW w \in Worker, WorkerStep(w)
       PROVE  TypeOK' /\ DispatcherHolds'
  <2>1. /\ PoolTypeOK' /\ sent' = sent /\ reqClosed' = reqClosed /\ tearDown' = tearDown
        /\ dPc' = dPc /\ dReq' = dReq /\ dWorker' = dWorker /\ dIdx' = dIdx
        /\ lPc' = lPc /\ lWorker' = lWorker /\ remaining' = remaining
        /\ closed' = closed /\ panicked' = panicked
    BY <1>13, WorkerFrame DEF poolVars, clientVars, dispVars, listenVars, PoolTypeOK
  <2> SUFFICES /\ queue' \in [Worker -> Seq(Request)]
               /\ wPc' \in [Worker -> WorkerPc]
               /\ wReq' \in [Worker -> Request \cup {NoRequest}]
               /\ wCount' \in [Worker -> 0 .. MaxRetryCount]
               /\ scan' \in [Worker -> 0 .. WorkerCount]
               /\ victim' \in [Worker -> Worker]
               /\ result' \in [Request -> {"none", "ok", "failed"}]
    BY <2>1
  <2>2. /\ victim[w] \in Worker /\ scan[w] \in 0 .. WorkerCount
        /\ 0 \in 0 .. WorkerCount /\ 0 \in 0 .. MaxRetryCount
    BY WorkerCountAssumption, BalancerAssumption
  <2>3. CASE TakeOwn(w)
    BY <2>3 DEF TakeOwn, WorkerPc
  <2>4. CASE StartSteal(w)
    BY <2>4 DEF StartSteal, chanVars, WorkerPc
  <2>12. CASE StealNothing(w)
    BY <2>2, <2>12 DEF StealNothing, chanVars, WorkerPc
  <2>5. CASE StealLoad(w)
    <3>1. scan[w] \in Position /\ scan[w] + 1 \in 0 .. WorkerCount
      BY <2>2, <2>5, WorkerCountAssumption DEF StealLoad, Position
    <3>2. slots[scan[w]] \in Worker
      BY <3>1 DEF PoolTypeOK
    <3> QED
      BY <2>5, <3>1, <3>2 DEF StealLoad, chanVars, WorkerPc
  <2>6. CASE StealRecv(w)
    <3>1. Head(queue[victim[w]]) \in Request /\ Tail(queue[victim[w]]) \in Seq(Request)
      BY <2>2, <2>6 DEF StealRecv
    <3>2. queue' \in [Worker -> Seq(Request)]
      BY <2>2, <2>6, <3>1 DEF StealRecv
    <3> QED
      BY <1>0, <2>2, <2>6, <3>1, <3>2 DEF StealRecv, WorkerPc
  <2>7. CASE StartWork(w) \/ ReportError(w)
    BY <2>7 DEF StartWork, ReportError, chanVars, WorkerPc
  <2>8. CASE StealDrained(w)
    BY <1>0, <2>8 DEF StealDrained, chanVars, WorkerPc
  <2>9. CASE WorkRetries(w)
    <3>1. wCount[w] + 1 \in 0 .. MaxRetryCount
      BY <2>9, BalancerAssumption DEF WorkRetries
    <3> QED
      BY <2>9, <3>1 DEF WorkRetries, chanVars, WorkerPc
  <2>10. CASE WorkSucceeds(w) \/ WorkFails(w)
    <3>1. result' = [result EXCEPT ![wReq[w]] = "ok"] \/ result' = [result EXCEPT ![wReq[w]] = "failed"]
      BY <2>10 DEF WorkSucceeds, WorkFails
    <3>2. result' \in [Request -> {"none", "ok", "failed"}]
      BY <3>1
    <3>3. wPc' \in [Worker -> WorkerPc] /\ wCount' \in [Worker -> 0 .. MaxRetryCount]
      <4>1. wCount' = [wCount EXCEPT ![w] = 0]
        BY <2>10 DEF WorkSucceeds, WorkFails
      <4>2. wPc' = [wPc EXCEPT ![w] = "handled"] \/ wPc' = [wPc EXCEPT ![w] = "error"]
        BY <2>10 DEF WorkSucceeds, WorkFails
      <4> QED
        BY <2>2, <4>1, <4>2 DEF WorkerPc
    <3> QED
      BY <2>10, <3>2, <3>3 DEF WorkSucceeds, WorkFails, chanVars
  <2>11. CASE Quit(w)
    BY <2>2, <2>11 DEF Quit, chanVars, WorkerPc
  <2> QED
    BY <1>13, <2>3, <2>4, <2>5, <2>6, <2>7, <2>8, <2>9, <2>10, <2>11, <2>12 DEF WorkerStep, WorkerLocal
<1> QED
  BY <1>1, <1>2, <1>3, <1>4, <1>5, <1>6, <1>7, <1>8, <1>9, <1>10, <1>11, <1>12, <1>13
     DEF BalancerNext, Client, Dispatcher, Listener

\* Every variable of the balancer keeps its type.
THEOREM TypeCorrect == BalancerSpec => []TypeOK
<1>1. BalancerInit => TypeOK /\ DispatcherHolds
  BY TypeInit
<1>2. TypeOK /\ DispatcherHolds /\ [BalancerNext]_balancerVars => (TypeOK /\ DispatcherHolds)'
  BY TypeStep
<1> QED
  BY <1>1, <1>2, PTL DEF BalancerSpec

-----------------------------------------------------------------------------
(* The phase in which requests are dispatched.  Its properties rest on one *)
(* another: dispatch takes the least load because the pool is a heap; the  *)
(* heap is repaired at the right position because Index is right where the *)
(* load is positive; the load of a worker that completes is positive       *)
(* because Pending is not below the load; and the unlocked check of        *)
(* Pending stays good until the lock is held because only the dispatcher   *)
(* ever adds to a load.                                                    *)

\* No queue is closed, so that nobody steals.
Unstolen == \A w \in Worker : ~closed[w] /\ wPc[w] \notin {"scan", "steal"}

\* What the unlocked check of Pending is good for.
Capacity ==
  /\ dPc = "lock" => \E w \in Worker : pending[w] < QueueSize
  /\ dPc \in {"fix", "send"} => pending[dWorker] <= QueueSize

DispatchInv ==
  /\ LockHeld
  /\ LoadExact
  /\ ~Closing => PoolInv /\ Unstolen /\ Capacity

\* Every step keeps the lock with the goroutine that is inside dispatch or
\* completed: neither enters while the other sifts the heap.
LEMMA LockStep ==
  ASSUME TypeOK, LockHeld, [BalancerNext]_balancerVars
  PROVE  LockHeld'
<1> USE DEF LockHeld
<1>1. CASE UNCHANGED balancerVars
  BY <1>1 DEF balancerVars, poolVars, dispVars, listenVars
<1>2. CASE Client
  BY <1>2 DEF Client, SendRequest, CloseRequests, TearDownWorkers, poolVars, dispVars, listenVars
<1>3. CASE RecvClosed \/ PollLoad \/ PollRead \/ CloseNext \/ CloseDone
  BY <1>3 DEF RecvClosed, PollLoad, PollRead, CloseNext, CloseDone, poolVars, listenVars
<1>4. CASE DispatchLock
  BY <1>4 DEF DispatchLock, FixCall, listenVars
<1>5. CASE DispatchFix
  BY <1>5 DEF DispatchFix, listenVars
<1>6. CASE DispatchSend
  BY <1>6 DEF DispatchSend, listenVars, fixVars
<1>7. ASSUME NEW w \in Worker, RequestHandled(w) \/ WorkerFinished(w)
      PROVE  LockHeld'
  BY <1>7 DEF RequestHandled, WorkerFinished, poolVars, dispVars
<1>8. CASE CompletedLock
  BY <1>8 DEF CompletedLock, FixCall, dispVars
<1>9. CASE CompletedFix
  BY <1>9 DEF CompletedFix, dispVars
<1>10. CASE AllWorkersFinished
  BY <1>10 DEF AllWorkersFinished, poolVars, dispVars
<1>11. ASSUME NEW w \in Worker, WorkerStep(w)
       PROVE  LockHeld'
  BY <1>11, WorkerFrame DEF poolVars, dispVars, listenVars
<1> QED
  BY <1>1, <1>2, <1>3, <1>4, <1>5, <1>6, <1>7, <1>8, <1>9, <1>10, <1>11
     DEF BalancerNext, Dispatcher, Listener

\* What the invariant of the pool is about.
LEMMA PoolFrame ==
  ASSUME PoolInv, UNCHANGED <<slots, index, pending, fixVars>>
  PROVE  PoolInv'
<1>1. Logical' = Logical /\ Sifted' = Sifted
  BY DEF Logical, Sifted, fixVars
<1>2. \A i : Key(i)' = Key(i)
  BY <1>1 DEF Key
<1> QED
  BY <1>1, <1>2 DEF PoolInv, Permutation, HeapIdle, HeapDown, HeapUp, Ordered, Bridged, IndexRight, fixVars

\* A pool without load is a heap, although only worker 0 has a right Index.
LEMMA DispatchInit ==
  ASSUME BalancerInit
  PROVE  DispatchInv
<1>1. 0 \in Position /\ Position = Worker
  BY WorkerCountAssumption DEF Position, Worker
<1>2. Logical = [i \in Position |-> i]
  BY DEF BalancerInit, PoolInit, Logical
<1>3. \A i \in Position : Key(i) = 0
  BY <1>1, <1>2 DEF Key, BalancerInit, PoolInit
<1>4. Permutation /\ IndexRight
  BY <1>1, <1>2 DEF Permutation, IndexRight, BalancerInit, PoolInit
<1>5. HeapIdle /\ HeapDown /\ HeapUp
  BY <1>3, ParentFacts DEF HeapIdle, HeapDown, HeapUp, Ordered, NonRoot, BalancerInit, PoolInit
<1>6. LoadExact
  BY DEF LoadExact, Load, InHand, Uncount, Unsent, BalancerInit, PoolInit
<1> QED
  BY <1>4, <1>5, <1>6
     DEF DispatchInv, LockHeld, PoolInv, Unstolen, Capacity, BalancerInit, PoolInit

\* A step that changes no load and no position keeps what depends on them.
LEMMA QuietStep ==
  ASSUME TypeOK, ~Closing, ~Closing', PoolInv, LoadExact, Capacity,
         UNCHANGED <<slots, index, pending, fixVars>>,
         tearDown => tearDown',
         \A w \in Worker : Load(w)' = Load(w) \/ (tearDown' /\ Load(w)' <= Load(w)),
         \A w \in Worker : Load(w)' \in Int /\ Load(w) \in Int,
         dPc' = "lock" => dPc = "lock" \/ \E w \in Worker : pending[w] < QueueSize,
         dPc' \in {"fix", "send"} => dPc \in {"fix", "send"} /\ dWorker' = dWorker
  PROVE  PoolInv' /\ LoadExact' /\ Capacity'
<1>1. PoolInv'
  BY PoolFrame
<1>2. LoadExact'
  <2>1. \A w \in Worker : pending[w] \in Int
    BY DEF TypeOK, PoolTypeOK
  <2> QED
    BY <2>1 DEF LoadExact
<1>3. Capacity'
  BY DEF Capacity
<1> QED
  BY <1>1, <1>2, <1>3

\* The parts of a load are numbers, in a state and in the next one.
LEMMA LoadIsInt ==
  ASSUME TypeOK, NEW w \in Worker
  PROVE  /\ Len(queue[w]) \in Nat
         /\ InHand(w) \in {0, 1} /\ Uncount(w) \in {0, 1} /\ Unsent(w) \in {0, 1}
         /\ Load(w) \in Int /\ Load(w) >= 0
<1>1. Len(queue[w]) \in Nat
  BY DEF TypeOK
<1>2. InHand(w) \in {0, 1} /\ Uncount(w) \in {0, 1} /\ Unsent(w) \in {0, 1}
  BY DEF InHand, Uncount, Unsent
<1> QED
  BY <1>1, <1>2 DEF Load

\* The same in the next state.
LEMMA LoadIsIntNext ==
  ASSUME TypeOK', NEW w \in Worker
  PROVE  /\ Len(queue'[w]) \in Nat
         /\ InHand(w)' \in {0, 1} /\ Uncount(w)' \in {0, 1} /\ Unsent(w)' \in {0, 1}
         /\ Load(w)' \in Int /\ Load(w)' >= 0
<1>1. Len(queue'[w]) \in Nat
  BY DEF TypeOK
<1>2. InHand(w)' \in {0, 1} /\ Uncount(w)' \in {0, 1} /\ Unsent(w)' \in {0, 1}
  BY DEF InHand, Uncount, Unsent
<1> QED
  BY <1>1, <1>2 DEF Load

\* A receive takes one request from the queue.
LEMMA TailLen ==
  ASSUME NEW s \in Seq(Request), s # << >>
  PROVE  Len(Tail(s)) = Len(s) - 1
OBVIOUS

\* Every step keeps the invariant of the dispatch phase.
LEMMA DispatchStep ==
  ASSUME TypeOK, TypeOK', DispatchInv, [BalancerNext]_balancerVars
  PROVE  DispatchInv'
<1>1. LockHeld'
  BY LockStep DEF DispatchInv
<1> SUFFICES ASSUME ~Closing'
             PROVE  PoolInv' /\ Unstolen' /\ LoadExact' /\ Capacity'
  BY <1>1 DEF DispatchInv, LoadExact
<1>2. ASSUME Closing PROVE FALSE
  <2>1. dPc' \in {"close", "done"}
    <3>1. ASSUME NEW w \in Worker, WorkerStep(w) PROVE dPc' = dPc
      BY <3>1, WorkerFrame DEF dispVars
    <3> QED
      BY <1>2, <3>1 DEF Closing, BalancerNext, balancerVars, Client, SendRequest, CloseRequests,
         TearDownWorkers, Dispatcher, RecvClosed, PollLoad, PollRead, DispatchLock, DispatchFix,
         DispatchSend, CloseNext, CloseDone, Listener, RequestHandled, WorkerFinished,
         CompletedLock, CompletedFix, AllWorkersFinished, dispVars
  <2> QED
    BY <2>1 DEF Closing
<1>3. /\ ~Closing /\ PoolInv /\ Unstolen /\ LoadExact /\ Capacity /\ LockHeld
      /\ \A w \in Worker : pending[w] \in Int /\ pending[w] >= Load(w)
  <2>1. \A w \in Worker : pending[w] \in Int
    BY DEF TypeOK, PoolTypeOK
  <2> QED
    BY <1>2, <2>1 DEF DispatchInv, LoadExact
<1>4. \A w \in Worker : /\ Load(w) \in Int /\ Load(w) >= 0 /\ Load(w)' \in Int
                        /\ Len(queue[w]) \in Nat /\ Len(queue'[w]) \in Nat
                        /\ InHand(w) \in {0, 1} /\ Uncount(w) \in {0, 1} /\ Unsent(w) \in {0, 1}
                        /\ InHand(w)' \in {0, 1} /\ Uncount(w)' \in {0, 1} /\ Unsent(w)' \in {0, 1}
  BY LoadIsInt, LoadIsIntNext
<1>5. CASE UNCHANGED balancerVars \/ Client
  <2>1. /\ UNCHANGED <<slots, index, pending, fixVars, closed, queue, wPc, lPc, lWorker, dWorker>>
        /\ tearDown => tearDown'
        /\ dPc' = dPc \/ (dPc = "recv" /\ dPc' = "check")
    BY <1>5 DEF balancerVars, Client, SendRequest, CloseRequests, TearDownWorkers, poolVars, fixVars,
       clientVars, dispVars, chanVars, listenVars, workVars
  <2>2. \A w \in Worker : Load(w)' = Load(w)
    BY <2>1 DEF Load, InHand, Uncount, Unsent
  <2>3. Unstolen'
    BY <1>3, <2>1 DEF Unstolen
  <2> QED
    BY <1>3, <1>4, <2>1, <2>2, <2>3, QuietStep
<1>6. CASE PollLoad \/ PollRead
  <2>1. /\ UNCHANGED <<slots, index, pending, fixVars, closed, queue, wPc, lPc, lWorker, tearDown>>
        /\ dPc \in {"check", "poll"} /\ dPc' \in {"check", "poll", "lock"}
        /\ dPc' = "lock" => ~(pending[dWorker] >= QueueSize)
    BY <1>6 DEF PollLoad, PollRead, poolVars, fixVars, clientVars, chanVars, listenVars, workVars
  <2>2. \A w \in Worker : Load(w)' = Load(w)
    BY <2>1 DEF Load, InHand, Uncount, Unsent
  <2>3. dPc' = "lock" => \E w \in Worker : pending[w] < QueueSize
    <3>1. dWorker \in Worker
      BY DEF TypeOK
    <3>2. pending[dWorker] \in Int /\ QueueSize \in Int
      BY <1>3, <3>1, BalancerAssumption
    <3> QED
      BY <2>1, <3>1, <3>2
  <2>4. Unstolen'
    BY <1>3, <2>1 DEF Unstolen
  <2> QED
    BY <1>3, <1>4, <2>1, <2>2, <2>3, <2>4, QuietStep
<1>7. CASE DispatchLock
  <2>1. PICK r \in Worker : r = slots[0]
    <3>1. 0 \in Position
      BY WorkerCountAssumption DEF Position
    <3> QED
      BY <3>1 DEF TypeOK, PoolTypeOK
  <2>2. /\ dPc = "lock" /\ lock = "free" /\ dPc' = "fix" /\ dWorker' = r
        /\ pending' = [pending EXCEPT ![r] = @ + 1]
        /\ FixCall(index[r])
        /\ UNCHANGED <<heapVars, closed, queue, wPc, lPc, lWorker, tearDown>>
    BY <1>7, <2>1 DEF DispatchLock, clientVars, chanVars, listenVars, workVars
  <2>3. fixPc = "idle" /\ PoolTypeOK
    BY <1>3, <2>2 DEF LockHeld, TypeOK
  <2>4. \A w \in Worker : pending[r] <= pending[w]
    BY <1>3, <2>1, <2>3, RootIsLeast DEF PoolInv
  <2>5. pending[r] < QueueSize
    BY <1>3, <2>2, <2>4, BalancerAssumption DEF Capacity
  <2>6. slots[index[r]] = r
    <3>1. fixChild = 0 /\ index[r] \in Position /\ 0 \in Position
      BY <1>3, <2>3, WorkerCountAssumption DEF PoolInv, HeapIdle, PoolTypeOK, Position
    <3>2. Logical = [i \in Position |-> slots[i]]
      BY <3>1 DEF Logical
    <3> QED
      BY <1>3, <2>1, <3>1, <3>2 DEF PoolInv, IndexRight
  <2>7. \A w \in Worker : pending'[w] = IF w = r THEN pending[r] + 1 ELSE pending[w]
    BY <2>2, <2>3 DEF PoolTypeOK
  <2>8. PoolInv'
    BY <1>3, <2>2, <2>3, <2>6, <2>7, CallKeepsPool
  <2>9. \A w \in Worker : Load(w)' = IF w = r THEN Load(w) + 1 ELSE Load(w)
    <3>1. \A w \in Worker : InHand(w)' = InHand(w) /\ Uncount(w)' = Uncount(w) /\ Unsent(w) = 0
      BY <2>2 DEF InHand, Uncount, Unsent
    <3>2. \A w \in Worker : Unsent(w)' = IF w = r THEN 1 ELSE 0
      BY <2>2 DEF Unsent
    <3> QED
      BY <1>4, <2>2, <3>1, <3>2 DEF Load
  <2>10. LoadExact'
    BY <1>3, <1>4, <2>2, <2>7, <2>9 DEF LoadExact
  <2>11. Capacity'
    BY <1>3, <2>2, <2>5, <2>7, BalancerAssumption DEF Capacity
  <2>12. Unstolen'
    BY <1>3, <2>2 DEF Unstolen
  <2> QED
    BY <2>8, <2>10, <2>11, <2>12
<1>8. CASE DispatchFix
  <2>1. /\ dPc = "fix" /\ dPc' \in {"fix", "send"} /\ FixStep
        /\ UNCHANGED <<pending, closed, queue, wPc, lPc, lWorker, dWorker, tearDown>>
    BY <1>8 DEF DispatchFix, clientVars, chanVars, listenVars, workVars
  <2>2. PoolInv'
    BY <1>3, <2>1, FixKeepsPool DEF TypeOK
  <2>3. \A w \in Worker : Load(w)' = Load(w)
    BY <2>1 DEF Load, InHand, Uncount, Unsent
  <2> QED
    BY <1>3, <2>1, <2>2, <2>3 DEF LoadExact, Capacity, Unstolen
<1>9. CASE DispatchSend
  <2>1. /\ dPc = "send" /\ dPc' = "recv"
        /\ queue' = [queue EXCEPT ![dWorker] = Append(@, dReq)]
        /\ UNCHANGED <<slots, index, pending, fixVars, closed, wPc, lPc, lWorker, tearDown>>
    BY <1>9 DEF DispatchSend, heapVars, clientVars, listenVars, workVars
  <2>2. dWorker \in Worker /\ \A w \in Worker : queue[w] \in Seq(Request)
    BY DEF TypeOK
  <2>3. \A w \in Worker : Len(queue'[w]) = IF w = dWorker THEN Len(queue[w]) + 1 ELSE Len(queue[w])
    <3>1. TAKE w \in Worker
    <3>2. CASE w # dWorker
      BY <2>1, <2>2, <3>2 DEF TypeOK
    <3>3. CASE w = dWorker
      <4>1. queue'[w] = Append(queue[w], dReq)
        BY <2>1, <3>3 DEF TypeOK
      <4> QED
        BY <2>2, <3>3, <4>1
    <3> QED
      BY <3>2, <3>3
  <2>4. \A w \in Worker : InHand(w)' = InHand(w) /\ Uncount(w)' = Uncount(w)
    BY <2>1 DEF InHand, Uncount
  <2>5. \A w \in Worker : Unsent(w) = (IF w = dWorker THEN 1 ELSE 0) /\ Unsent(w)' = 0
    BY <2>1 DEF Unsent
  <2>6. \A w \in Worker : Load(w)' = Load(w)
    BY <1>4, <2>3, <2>4, <2>5 DEF Load
  <2>7. Unstolen'
    BY <1>3, <2>1 DEF Unstolen
  <2> QED
    BY <1>3, <1>4, <2>1, <2>6, <2>7, QuietStep
<1>10. CASE RecvClosed \/ CloseNext \/ CloseDone
  BY <1>10 DEF RecvClosed, CloseNext, CloseDone, Closing
<1>11. ASSUME NEW v \in Worker, RequestHandled(v)
       PROVE  PoolInv' /\ Unstolen' /\ LoadExact' /\ Capacity'
  <2>1. /\ lPc = "select" /\ wPc[v] = "handled" /\ lPc' = "lock" /\ lWorker' = v
        /\ wPc' = [wPc EXCEPT ![v] = "select"]
        /\ UNCHANGED <<slots, index, pending, fixVars, closed, queue, dPc, dWorker, tearDown>>
    BY <1>11 DEF RequestHandled, poolVars, fixVars, clientVars, dispVars, chanVars
  <2>2. \A w \in Worker : wPc'[w] = IF w = v THEN "select" ELSE wPc[w]
    BY <2>1 DEF TypeOK
  <2>3. \A w \in Worker : /\ Unsent(w)' = Unsent(w)
                          /\ Uncount(w) = 0 /\ Uncount(w)' = IF w = v THEN 1 ELSE 0
    BY <2>1 DEF Unsent, Uncount
  <2>4. \A w \in Worker : InHand(w)' = IF w = v THEN 0 ELSE InHand(w)
    BY <2>2 DEF InHand
  <2>5. InHand(v) = 1
    BY <2>1 DEF InHand
  <2>6. \A w \in Worker : Load(w)' = Load(w)
    BY <1>4, <2>1, <2>3, <2>4, <2>5 DEF Load
  <2>7. Unstolen'
    BY <1>3, <2>1, <2>2 DEF Unstolen
  <2> QED
    BY <1>3, <1>4, <2>1, <2>6, <2>7, QuietStep
<1>12. ASSUME NEW v \in Worker, WorkerFinished(v)
       PROVE  PoolInv' /\ Unstolen' /\ LoadExact' /\ Capacity'
  <2>1. /\ wPc[v] = "finish" /\ wPc' = [wPc EXCEPT ![v] = "exited"]
        /\ lPc = "select" /\ lPc' # "lock"
        /\ UNCHANGED <<slots, index, pending, fixVars, closed, queue, dPc, dWorker, tearDown>>
    BY <1>12 DEF WorkerFinished, poolVars, fixVars, clientVars, dispVars, chanVars
  <2>2. \A w \in Worker : wPc'[w] = IF w = v THEN "exited" ELSE wPc[w]
    BY <2>1 DEF TypeOK
  <2>3. \A w \in Worker : /\ Unsent(w)' = Unsent(w) /\ Uncount(w)' = Uncount(w)
                          /\ InHand(w)' = InHand(w)
    BY <2>1, <2>2 DEF Unsent, Uncount, InHand
  <2>4. \A w \in Worker : Load(w)' = Load(w)
    BY <2>1, <2>3 DEF Load
  <2>5. Unstolen'
    BY <1>3, <2>1, <2>2 DEF Unstolen
  <2> QED
    BY <1>3, <1>4, <2>1, <2>4, <2>5, QuietStep
<1>13. CASE AllWorkersFinished
  <2>1. /\ lPc = "signal" /\ lPc' = "done"
        /\ UNCHANGED <<slots, index, pending, fixVars, closed, queue, wPc, dPc, dWorker, tearDown>>
    BY <1>13 DEF AllWorkersFinished, poolVars, fixVars, clientVars, dispVars, chanVars, workVars
  <2>2. \A w \in Worker : Load(w)' = Load(w)
    BY <2>1 DEF Load, Unsent, Uncount, InHand
  <2>3. Unstolen'
    BY <1>3, <2>1 DEF Unstolen
  <2> QED
    BY <1>3, <1>4, <2>1, <2>2, <2>3, QuietStep
<1>14. CASE CompletedLock
  <2>1. PICK v \in Worker : v = lWorker
    BY DEF TypeOK
  <2>2. /\ lPc = "lock" /\ lock = "free" /\ lPc' = "fix"
        /\ pending' = [pending EXCEPT ![v] = @ - 1]
        /\ FixCall(index[v])
        /\ UNCHANGED <<heapVars, closed, queue, wPc, lWorker, dPc, dWorker, tearDown>>
    BY <1>14, <2>1 DEF CompletedLock, clientVars, dispVars, chanVars, workVars
  <2>3. fixPc = "idle" /\ PoolTypeOK /\ dPc \notin {"fix", "send"}
    BY <1>3, <2>2 DEF LockHeld, TypeOK
  <2>4. \A w \in Worker : pending'[w] = IF w = v THEN pending[v] - 1 ELSE pending[w]
    BY <2>2, <2>3 DEF PoolTypeOK
  <2>5. \A w \in Worker : /\ InHand(w)' = InHand(w) /\ Unsent(w)' = Unsent(w)
                          /\ Uncount(w) = (IF w = v THEN 1 ELSE 0) /\ Uncount(w)' = 0
    BY <2>1, <2>2 DEF InHand, Unsent, Uncount
  <2>6. \A w \in Worker : Load(w)' = IF w = v THEN Load(w) - 1 ELSE Load(w)
    BY <1>4, <2>2, <2>5 DEF Load
  <2>7. pending[v] > 0
    BY <1>3, <1>4, <2>5 DEF Load
  <2>8. slots[index[v]] = v
    <3>1. fixChild = 0 /\ index[v] \in Position
      BY <1>3, <2>3 DEF PoolInv, HeapIdle, PoolTypeOK
    <3>2. Logical = [i \in Position |-> slots[i]]
      BY <3>1 DEF Logical
    <3> QED
      BY <1>3, <2>7, <3>1, <3>2 DEF PoolInv, IndexRight
  <2>9. PoolInv'
    BY <1>3, <2>2, <2>3, <2>4, <2>8, CallKeepsPool
  <2>10. LoadExact'
    BY <1>3, <1>4, <2>2, <2>4, <2>6 DEF LoadExact
  <2>11. Capacity'
    <3>1. ASSUME dPc' = "lock" PROVE \E w \in Worker : pending'[w] < QueueSize
      <4>1. PICK w \in Worker : pending[w] < QueueSize
        BY <1>3, <2>2, <3>1 DEF Capacity
      <4>2. pending'[w] <= pending[w] /\ pending[w] \in Int /\ pending'[w] \in Int
        BY <1>3, <2>4
      <4>3. QueueSize \in Int
        BY BalancerAssumption
      <4> QED
        BY <4>1, <4>2, <4>3
    <3> QED
      BY <2>2, <2>3, <3>1 DEF Capacity
  <2>12. Unstolen'
    BY <1>3, <2>2 DEF Unstolen
  <2> QED
    BY <2>9, <2>10, <2>11, <2>12
<1>15. CASE CompletedFix
  <2>1. /\ lPc = "fix" /\ lPc' # "lock" /\ FixStep
        /\ UNCHANGED <<pending, closed, queue, wPc, dPc, dWorker, tearDown>>
    BY <1>15 DEF CompletedFix, clientVars, dispVars, chanVars, workVars
  <2>2. PoolInv'
    BY <1>3, <2>1, FixKeepsPool DEF TypeOK
  <2>3. \A w \in Worker : Load(w)' = Load(w)
    BY <2>1 DEF Load, InHand, Uncount, Unsent
  <2> QED
    BY <1>3, <2>1, <2>2, <2>3 DEF LoadExact, Capacity, Unstolen
<1>16. ASSUME NEW v \in Worker, WorkerStep(v)
       PROVE  PoolInv' /\ Unstolen' /\ LoadExact' /\ Capacity'
  <2>1. UNCHANGED <<slots, index, pending, fixVars, closed, dPc, dWorker, lPc, lWorker, tearDown>>
    BY <1>16, WorkerFrame DEF poolVars, fixVars, clientVars, dispVars, listenVars
  <2>2. \A w \in Worker : Unsent(w)' = Unsent(w) /\ Uncount(w)' = Uncount(w)
    BY <2>1 DEF Unsent, Uncount
  <2>3. ~closed[v] /\ wPc[v] \notin {"scan", "steal"}
    BY <1>3 DEF Unstolen
  <2>4. ASSUME NEW pc, pc \notin {"scan", "steal"}, wPc' = [wPc EXCEPT ![v] = pc]
        PROVE  /\ Unstolen'
               /\ \A w \in Worker : w # v => InHand(w)' = InHand(w)
               /\ wPc'[v] = pc
    <3>1. \A w \in Worker : wPc'[w] = IF w = v THEN pc ELSE wPc[w]
      BY <2>4 DEF TypeOK
    <3> QED
      BY <1>3, <2>1, <2>4, <3>1 DEF Unstolen, InHand
  <2>5. ASSUME Unstolen', \A w \in Worker : Load(w)' = Load(w) \/ (tearDown' /\ Load(w)' <= Load(w))
        PROVE  PoolInv' /\ Unstolen' /\ LoadExact' /\ Capacity'
    BY <1>3, <1>4, <2>1, <2>5, QuietStep
  <2>6. CASE TakeOwn(v)
    <3>1. /\ wPc[v] = "select" /\ wPc' = [wPc EXCEPT ![v] = "loop"]
          /\ queue[v] # << >> /\ queue' = [queue EXCEPT ![v] = Tail(@)]
          /\ queue[v] \in Seq(Request)
      BY <2>6 DEF TakeOwn, TypeOK
    <3>2. InHand(v) = 0 /\ InHand(v)' = 1
      BY <2>4, <3>1 DEF InHand
    <3>3. queue'[v] = Tail(queue[v]) /\ \A w \in Worker : w # v => queue'[w] = queue[w]
      BY <3>1 DEF TypeOK
    <3>4. Len(queue'[v]) = Len(queue[v]) - 1
      BY <3>1, <3>3, TailLen
    <3>5. \A w \in Worker : Load(w)' = Load(w)
      <4>1. \A w \in Worker : w # v => InHand(w)' = InHand(w)
        BY <2>4, <3>1
      <4>2. Load(v)' = Load(v)
        BY <1>4, <2>2, <3>2, <3>4 DEF Load
      <4>3. \A w \in Worker : w # v => Load(w)' = Load(w)
        BY <2>2, <3>3, <4>1 DEF Load
      <4> QED
        BY <4>2, <4>3
    <3> QED
      BY <2>4, <2>5, <3>1, <3>5
  <2>7. CASE StartSteal(v) \/ StealLoad(v) \/ StealNothing(v) \/ StealRecv(v) \/ StealDrained(v)
    BY <2>3, <2>7 DEF StartSteal, StealLoad, StealNothing, StealRecv, StealDrained
  <2>8. CASE StartWork(v) \/ WorkSucceeds(v) \/ WorkRetries(v) \/ WorkFails(v) \/ ReportError(v)
    <3>1. PICK pc \in {"loop", "running", "error", "handled"} : wPc' = [wPc EXCEPT ![v] = pc]
      BY <2>8 DEF StartWork, WorkSucceeds, WorkRetries, WorkFails, ReportError
    <3>2. wPc[v] \in {"loop", "running", "error", "handled"} /\ queue' = queue
      BY <2>8 DEF StartWork, WorkSucceeds, WorkRetries, WorkFails, ReportError, chanVars
    <3>3. \A w \in Worker : InHand(w)' = InHand(w)
      BY <2>4, <3>1, <3>2 DEF InHand
    <3>4. \A w \in Worker : Load(w)' = Load(w)
      BY <2>2, <3>2, <3>3 DEF Load
    <3> QED
      BY <2>4, <2>5, <3>1, <3>4
  <2>9. CASE Quit(v)
    <3>1. tearDown /\ wPc' = [wPc EXCEPT ![v] = "finish"] /\ queue' = queue
      BY <2>9 DEF Quit, chanVars
    <3>2. \A w \in Worker : InHand(w)' <= InHand(w)
      <4>1. InHand(v)' = 0
        BY <2>4, <3>1 DEF InHand
      <4>2. \A w \in Worker : w # v => InHand(w)' = InHand(w)
        BY <2>4, <3>1
      <4> QED
        BY <1>4, <4>1, <4>2
    <3>3. \A w \in Worker : Load(w)' <= Load(w)
      BY <1>4, <2>2, <3>1, <3>2 DEF Load
    <3> QED
      BY <2>1, <2>4, <2>5, <3>1, <3>3
  <2> QED
    BY <1>16, <2>6, <2>7, <2>8, <2>9 DEF WorkerStep, WorkerLocal
<1> QED
  BY <1>5, <1>6, <1>7, <1>8, <1>9, <1>10, <1>11, <1>12, <1>13, <1>14, <1>15, <1>16
     DEF BalancerNext, Dispatcher, Listener

\* The invariants of the dispatch phase hold in every behaviour.
LEMMA DispatchInvariant == BalancerSpec => [](TypeOK /\ DispatcherHolds /\ DispatchInv)
<1>1. BalancerInit => TypeOK /\ DispatcherHolds /\ DispatchInv
  BY TypeInit, DispatchInit
<1>2. TypeOK /\ DispatcherHolds /\ DispatchInv /\ [BalancerNext]_balancerVars
      => (TypeOK /\ DispatcherHolds /\ DispatchInv)'
  BY TypeStep, DispatchStep
<1> QED
  BY <1>1, <1>2, PTL DEF BalancerSpec

\* Whoever sifts the heap holds the lock, and no two goroutines do, also
\* while the queues are closed and the workers torn down.
THEOREM LockIsHeld == BalancerSpec => []LockHeld
<1>1. DispatchInv => LockHeld
  BY DEF DispatchInv
<1> QED
  BY <1>1, DispatchInvariant, PTL

\* Until the queues are closed, Worker.Pending, which two goroutines change
\* under the lock and the dispatcher reads without it, is the worker's load.
THEOREM PendingIsLoad == BalancerSpec => []LoadExact
<1>1. DispatchInv => LoadExact
  BY DEF DispatchInv
<1> QED
  BY <1>1, DispatchInvariant, PTL

\* The dispatcher takes a worker with the least load of all.
THEOREM TakesLeastLoaded == BalancerSpec => []LeastLoaded
<1>1. TypeOK /\ DispatchInv => LeastLoaded
  <2> SUFFICES ASSUME TypeOK, DispatchInv, dPc = "lock", lock = "free"
               PROVE  \A w \in Worker : pending[slots[0]] <= pending[w]
    BY DEF LeastLoaded
  <2>1. fixPc = "idle" /\ ~Closing
    BY DEF DispatchInv, LockHeld, Closing
  <2> QED
    BY <2>1, RootIsLeast DEF DispatchInv, PoolInv, TypeOK
<1> QED
  BY <1>1, DispatchInvariant, PTL

\* The dispatcher never waits for a place in a queue while it holds the lock
\* that the listener needs to make one: dispatch and completed cannot
\* deadlock, although dispatch checks for a place without the lock.
THEOREM NeverBlocks == BalancerSpec => []NeverBlocksHoldingLock
<1>1. TypeOK /\ DispatchInv => NeverBlocksHoldingLock
  <2> SUFFICES ASSUME TypeOK, DispatchInv, dPc = "send"
               PROVE  Len(queue[dWorker]) < QueueSize
    BY DEF NeverBlocksHoldingLock
  <2>1. PICK v \in Worker : v = dWorker
    BY DEF TypeOK
  <2>2. Unsent(v) = 1
    BY <2>1 DEF Unsent
  <2>3. /\ Len(queue[v]) \in Nat /\ InHand(v) \in {0, 1} /\ Uncount(v) \in {0, 1}
    BY LoadIsInt
  <2>4. pending[v] >= Load(v) /\ pending[v] <= QueueSize
    BY <2>1 DEF DispatchInv, LoadExact, Closing, Capacity
  <2>5. pending[v] \in Int /\ QueueSize \in Int
    BY BalancerAssumption DEF TypeOK, PoolTypeOK
  <2> QED
    BY <2>1, <2>2, <2>3, <2>4, <2>5 DEF Load
<1> QED
  BY <1>1, DispatchInvariant, PTL

-----------------------------------------------------------------------------
(* Where a request is.  Until the workers are torn down, a request that    *)
(* was sent and is not resolved is in exactly one place, the dispatcher's  *)
(* hand, a position of a queue or the hand of a worker.  From this follows *)
(* that the end is signalled only when nothing is left to do, and that the *)
(* balancer implements TaskPool.                                           *)

Members(s)  == {s[i] : i \in 1 .. Len(s)}
NoRepeat(s) == \A i, j \in 1 .. Len(s) : s[i] = s[j] => i = j
InAHand     == {"loop", "running", "error", "handled"}
Left        == {"scan", "steal", "finish", "exited"}

\* A request is queued once, and then nobody holds it.
QueuedOnce ==
  \A w \in Worker :
    /\ NoRepeat(queue[w])
    /\ \A r \in Members(queue[w]) :
         /\ r <= sent /\ r # dReq /\ result[r] = "none"
         /\ \A v \in Worker : wReq[v] # r /\ (r \in Members(queue[v]) => v = w)

\* No two hold the same request; a worker holds one from the receive until
\* the listener knows that it has been handled.
HeldOnce ==
  /\ dReq # NoRequest => /\ dReq <= sent /\ result[dReq] = "none"
                         /\ \A v \in Worker : wReq[v] # dReq
  /\ \A w \in Worker :
       /\ wReq[w] # NoRequest <=> wPc[w] \in InAHand
       /\ wReq[w] <= sent
       /\ wPc[w] \in {"loop", "running"} => result[wReq[w]] = "none"
       /\ wPc[w] \in {"error", "handled"} => result[wReq[w]] # "none"
       /\ \A v \in Worker : wReq[v] = wReq[w] /\ wReq[w] # NoRequest => v = w

\* What was sent is resolved or in some place, unless it was dropped.
NothingLost ==
  /\ \A r \in Request : r > sent => result[r] = "none"
  /\ ~tearDown =>
       \A r \in 1 .. sent :
         result[r] = "none" => dReq = r \/ Holders(r) \cup Queued(r) # {}

\* The retries are counted from zero for each request.
CountFresh == \A w \in Worker : wPc[w] \notin {"loop", "running"} => wCount[w] = 0

\* A worker that has seen its queue closed and drained finds it so for ever.
LeftIsDrained ==
  ~tearDown => \A w \in Worker : wPc[w] \in Left => closed[w] /\ queue[w] = << >>

\* The order of the end: the client closes, then the dispatcher closes the
\* queues; the client tears down only what it has closed.
EndsInOrder ==
  /\ \A w \in Worker : closed[w] => Closing
  /\ Closing \/ tearDown => reqClosed

Alive == {w \in Worker : wPc[w] # "exited"}

\* remainingWorkers counts the goroutines that have not returned.
Counted ==
  /\ remaining = Cardinality(Alive)
  /\ lPc \in {"signal", "done"} => Alive = {}

TaskInv ==
  /\ QueuedOnce /\ HeldOnce /\ NothingLost /\ CountFresh
  /\ LeftIsDrained /\ EndsInOrder /\ Counted

-----------------------------------------------------------------------------
(* Queues.                                                                 *)

\* A receive takes the first request and leaves the others.
LEMMA TailMembers ==
  ASSUME NEW s \in Seq(Request), s # << >>, NoRepeat(s)
  PROVE  /\ Head(s) \in Members(s)
         /\ NoRepeat(Tail(s))
         /\ \A r : r \in Members(Tail(s)) <=> r \in Members(s) /\ r # Head(s)
<1>1. /\ Len(s) \in Nat /\ Len(s) >= 1 /\ Len(Tail(s)) = Len(s) - 1
      /\ Head(s) = s[1]
      /\ \A i \in 1 .. Len(s) - 1 : Tail(s)[i] = s[i + 1]
  OBVIOUS
<1>2. NoRepeat(Tail(s))
  BY <1>1 DEF NoRepeat
<1>3. ASSUME NEW r PROVE r \in Members(Tail(s)) <=> r \in Members(s) /\ r # Head(s)
  <2>1. ASSUME r \in Members(Tail(s)) PROVE r \in Members(s) /\ r # Head(s)
    <3>1. PICK i \in 1 .. Len(s) - 1 : r = s[i + 1]
      BY <1>1, <2>1 DEF Members
    <3>2. i + 1 \in 1 .. Len(s) /\ 1 \in 1 .. Len(s) /\ i + 1 # 1
      BY <1>1
    <3> QED
      BY <1>1, <3>1, <3>2 DEF Members, NoRepeat
  <2>2. ASSUME r \in Members(s), r # Head(s) PROVE r \in Members(Tail(s))
    <3>1. PICK j \in 1 .. Len(s) : r = s[j]
      BY <2>2 DEF Members
    <3>2. j - 1 \in 1 .. Len(s) - 1 /\ (j - 1) + 1 = j
      BY <1>1, <2>2, <3>1
    <3> QED
      BY <1>1, <3>1, <3>2 DEF Members
  <2> QED
    BY <2>1, <2>2
<1>4. Head(s) \in Members(s)
  BY <1>1 DEF Members
<1> QED
  BY <1>2, <1>3, <1>4

\* A send adds one request at the end.
LEMMA AppendMembers ==
  ASSUME NEW s \in Seq(Request), NEW q \in Request, NoRepeat(s), q \notin Members(s)
  PROVE  /\ NoRepeat(Append(s, q))
         /\ \A r : r \in Members(Append(s, q)) <=> r \in Members(s) \/ r = q
<1>1. /\ Len(s) \in Nat /\ Len(Append(s, q)) = Len(s) + 1
      /\ Append(s, q)[Len(s) + 1] = q
      /\ \A i \in 1 .. Len(s) : Append(s, q)[i] = s[i]
  OBVIOUS
<1>2. \A i \in 1 .. Len(s) + 1 : i \in 1 .. Len(s) \/ i = Len(s) + 1
  BY <1>1
<1>3. NoRepeat(Append(s, q))
  BY <1>1, <1>2 DEF NoRepeat, Members
<1> QED
  BY <1>1, <1>2, <1>3 DEF Members

\* Requests are numbered from one.
LEMMA RequestFacts ==
  /\ \A r \in Request : r \in Nat /\ r # NoRequest
  /\ \A s \in Seq(Request) : Members(s) \subseteq Request
<1>1. \A r \in Request : r \in Nat /\ r # NoRequest
  BY BalancerAssumption DEF Request, NoRequest
<1>2. ASSUME NEW s \in Seq(Request) PROVE Members(s) \subseteq Request
  <2>1. \A i \in 1 .. Len(s) : s[i] \in Request
    OBVIOUS
  <2> QED
    BY <2>1 DEF Members
<1> QED
  BY <1>1, <1>2

\* What Queued says, in terms of the members of the queues.
LEMMA QueuedMembers ==
  ASSUME TypeOK, NEW r
  PROVE  Queued(r) = {w \in Worker : r \in Members(queue[w])}
<1>1. \A w \in Worker : DOMAIN queue[w] = 1 .. Len(queue[w])
  BY DEF TypeOK
<1> QED
  BY <1>1 DEF Queued, Members

-----------------------------------------------------------------------------
(* The invariant.                                                          *)

\* Before the first request there is nothing to lose.
LEMMA TaskInit ==
  ASSUME BalancerInit
  PROVE  TaskInv
<1>1. \A w \in Worker : Members(queue[w]) = {} /\ NoRepeat(queue[w])
  BY DEF BalancerInit, Members, NoRepeat
<1>2. Alive = 0 .. WorkerCount - 1
  BY DEF Alive, BalancerInit, Worker
<1>3. Cardinality(Alive) = WorkerCount
  BY <1>2, FS_Interval, WorkerCountAssumption
<1>4. 1 .. sent = {} /\ sent = 0
  BY DEF BalancerInit
<1>5. QueuedOnce /\ HeldOnce
  BY <1>1, <1>4 DEF QueuedOnce, HeldOnce, BalancerInit, InAHand, NoRequest
<1>6. NothingLost /\ CountFresh /\ LeftIsDrained /\ EndsInOrder
  BY <1>4 DEF NothingLost, CountFresh, LeftIsDrained, EndsInOrder, BalancerInit, Closing, Left, Request
<1>7. Counted
  BY <1>3 DEF Counted, BalancerInit
<1> QED
  BY <1>5, <1>6, <1>7 DEF TaskInv

\* A step that moves no request and no worker keeps the invariant, provided
\* that it keeps the order of the end.
LEMMA QuietTask ==
  ASSUME TaskInv,
         UNCHANGED <<sent, dReq, queue, wPc, wReq, wCount, result, remaining>>,
         tearDown => tearDown',
         \A w \in Worker : closed[w] => closed'[w],
         lPc' \in {"signal", "done"} => lPc \in {"signal", "done"},
         EndsInOrder'
  PROVE  TaskInv'
<1> USE DEF TaskInv
<1>1. QueuedOnce' /\ HeldOnce' /\ CountFresh'
  BY DEF QueuedOnce, HeldOnce, CountFresh
<1>2. NothingLost'
  BY DEF NothingLost, Holders, Queued
<1>3. LeftIsDrained'
  BY DEF LeftIsDrained
<1>4. Counted'
  BY DEF Counted, Alive
<1> QED
  BY <1>1, <1>2, <1>3, <1>4

\* The steps of the dispatcher and the listener that only look at the pool,
\* and the ends of the client's channels.
LEMMA QuietSteps ==
  ASSUME TypeOK, TaskInv,
         \/ UNCHANGED balancerVars \/ CloseRequests \/ TearDownWorkers
         \/ RecvClosed \/ PollLoad \/ PollRead \/ DispatchLock \/ DispatchFix
         \/ CloseNext \/ CloseDone \/ CompletedLock \/ CompletedFix
         \/ AllWorkersFinished
  PROVE  /\ TaskInv'
         /\ UNCHANGED <<sent, dReq, queue, wPc, wReq, wCount, result, remaining>>
<1>1. CASE UNCHANGED balancerVars
  BY <1>1, QuietTask DEF balancerVars, clientVars, dispVars, chanVars, listenVars, workVars,
     TaskInv, EndsInOrder, Closing
<1>2. CASE CloseRequests \/ TearDownWorkers
  BY <1>2, QuietTask DEF CloseRequests, TearDownWorkers, dispVars, chanVars, listenVars, workVars,
     TaskInv, EndsInOrder, Closing
<1>3. CASE RecvClosed \/ PollLoad \/ PollRead \/ CloseDone
  BY <1>3, QuietTask DEF RecvClosed, PollLoad, PollRead, CloseDone, clientVars, chanVars,
     listenVars, workVars, TaskInv, EndsInOrder, Closing
<1>4. CASE DispatchLock \/ DispatchFix
  BY <1>4, QuietTask DEF DispatchLock, DispatchFix, clientVars, chanVars,
     listenVars, workVars, TaskInv, EndsInOrder, Closing
<1>5. CASE CloseNext
  <2>1. \A w \in Worker : closed[w] => closed'[w]
    BY <1>5 DEF CloseNext, TypeOK
  <2> QED
    BY <1>5, <2>1, QuietTask DEF CloseNext, clientVars, listenVars, workVars,
       TaskInv, EndsInOrder, Closing
<1>6. CASE CompletedLock \/ CompletedFix \/ AllWorkersFinished
  BY <1>6, QuietTask DEF CompletedLock, CompletedFix, AllWorkersFinished, clientVars, dispVars,
     chanVars, workVars, TaskInv, EndsInOrder, Closing
<1> QED
  BY <1>1, <1>2, <1>3, <1>4, <1>5, <1>6

\* The dispatcher takes a request that nobody has had, and puts it into one
\* queue that is not closed.
LEMMA DispatchTask ==
  ASSUME TypeOK, DispatcherHolds, TaskInv, SendRequest \/ DispatchSend
  PROVE  TaskInv'
<1> USE DEF TaskInv
<1>1. CASE SendRequest
  <2>1. /\ dReq = NoRequest /\ dReq' = sent + 1 /\ sent' = sent + 1 /\ sent \in Nat
        /\ ~Closing /\ ~Closing' /\ sent + 1 \in Request
        /\ UNCHANGED <<queue, closed, wPc, wReq, wCount, result, remaining, tearDown, reqClosed, lPc>>
    BY <1>1, BalancerAssumption DEF SendRequest, DispatcherHolds, chanVars, listenVars, workVars,
       Closing, TypeOK, Request
  <2>2. QueuedOnce'
    <3>1. \A w \in Worker : \A r \in Members(queue[w]) : r \in Nat
      BY RequestFacts DEF TypeOK
    <3> QED
      BY <2>1, <3>1 DEF QueuedOnce
  <2>3. HeldOnce'
    <3>1. \A w \in Worker : wReq[w] \in Nat
      BY DEF TypeOK, Request, NoRequest
    <3>2. result[sent + 1] = "none"
      BY <2>1 DEF NothingLost
    <3> QED
      BY <2>1, <3>1, <3>2 DEF HeldOnce
  <2>4. NothingLost'
    <3>1. \A r \in 1 .. sent' : r \in 1 .. sent \/ r = dReq'
      BY <2>1
    <3>2. \A r \in Request : r > sent' => r > sent
      BY <2>1, RequestFacts
    <3>3. \A r : Holders(r)' = Holders(r) /\ Queued(r)' = Queued(r)
      BY <2>1 DEF Holders, Queued
    <3>4. \A r \in 1 .. sent : r # NoRequest
      BY DEF NoRequest
    <3> QED
      BY <2>1, <3>1, <3>2, <3>3, <3>4 DEF NothingLost
  <2>5. CountFresh' /\ LeftIsDrained' /\ EndsInOrder' /\ Counted'
    BY <2>1 DEF CountFresh, LeftIsDrained, EndsInOrder, Counted, Alive
  <2> QED
    BY <2>2, <2>3, <2>4, <2>5
<1>2. CASE DispatchSend
  <2>1. PICK d \in Worker : d = dWorker
    BY DEF TypeOK
  <2>2. PICK q \in Request : q = dReq
    BY <1>2 DEF DispatchSend, DispatcherHolds, TypeOK
  <2>3. /\ queue' = [queue EXCEPT ![d] = Append(@, q)] /\ dReq' = NoRequest
        /\ ~Closing /\ ~Closing' /\ q # NoRequest
        /\ UNCHANGED <<sent, closed, wPc, wReq, wCount, result, remaining, tearDown, reqClosed, lPc>>
    BY <1>2, <2>1, <2>2 DEF DispatchSend, DispatcherHolds, clientVars, listenVars, workVars, Closing
  <2>4. queue[d] \in Seq(Request) /\ NoRepeat(queue[d]) /\ q \notin Members(queue[d])
    BY <2>2 DEF TypeOK, QueuedOnce
  <2>5. \A w \in Worker :
          /\ NoRepeat(queue'[w])
          /\ \A r : r \in Members(queue'[w]) <=> r \in Members(queue[w]) \/ (w = d /\ r = q)
    <3>1. TAKE w \in Worker
    <3>2. CASE w = d
      <4>1. queue'[w] = Append(queue[d], q)
        BY <2>3, <3>2 DEF TypeOK
      <4> QED
        BY <2>4, <3>2, <4>1, AppendMembers
    <3>3. CASE w # d
      BY <2>3, <3>3 DEF TypeOK, QueuedOnce
    <3> QED
      BY <3>2, <3>3
  <2>6. \A w \in Worker : \A r \in Members(queue'[w]) : r # NoRequest
    <3>1. \A w \in Worker : \A r \in Members(queue[w]) : r # NoRequest
      BY RequestFacts DEF TypeOK
    <3> QED
      BY <2>3, <2>5, <3>1
  <2>7. QueuedOnce'
    <3>1. q <= sent /\ result[q] = "none" /\ \A v \in Worker : wReq[v] # q /\ q \notin Members(queue[v])
      BY <2>2, <2>3 DEF HeldOnce, QueuedOnce
    <3> QED
      BY <2>3, <2>5, <2>6, <3>1 DEF QueuedOnce
  <2>8. HeldOnce'
    BY <2>3 DEF HeldOnce
  <2>9. NothingLost'
    <3>1. ASSUME ~tearDown, NEW r \in 1 .. sent, result[r] = "none"
          PROVE  \/ \E w \in Worker : wReq[w] = r
                 \/ \E w \in Worker : r \in Members(queue'[w])
      <4>1. dReq = r \/ Holders(r) \cup Queued(r) # {}
        BY <3>1 DEF NothingLost
      <4>2. Queued(r) # {} => \E w \in Worker : r \in Members(queue[w])
        BY QueuedMembers
      <4> QED
        BY <2>2, <2>5, <4>1, <4>2 DEF Holders
    <3>2. \A w \in Worker : DOMAIN queue'[w] = 1 .. Len(queue'[w])
      BY <2>3, <2>4 DEF TypeOK
    <3> QED
      BY <2>3, <3>1, <3>2 DEF NothingLost, Holders, Queued, Members
  <2>10. CountFresh' /\ EndsInOrder' /\ Counted'
    BY <2>3 DEF CountFresh, EndsInOrder, Counted, Alive
  <2>11. LeftIsDrained'
    BY <2>3 DEF LeftIsDrained, EndsInOrder
  <2> QED
    BY <2>7, <2>8, <2>9, <2>10, <2>11
<1> QED
  BY <1>1, <1>2

\* What the steps of one worker change: its own place in the code.
PcStep(w, pc) ==
  /\ wPc' = [wPc EXCEPT ![w] = pc]
  /\ UNCHANGED <<sent, reqClosed, tearDown, dPc, dReq, closed, lPc, remaining>>

\* A worker that does not return is still counted.
LEMMA PcStepCounted ==
  ASSUME TypeOK, Counted, EndsInOrder, NEW w \in Worker, NEW pc,
         wPc[w] # "exited", pc # "exited", PcStep(w, pc)
  PROVE  /\ Counted' /\ EndsInOrder'
         /\ \A v \in Worker : wPc'[v] = IF v = w THEN pc ELSE wPc[v]
<1>1. \A v \in Worker : wPc'[v] = IF v = w THEN pc ELSE wPc[v]
  BY DEF PcStep, TypeOK
<1>2. Alive' = Alive
  BY <1>1 DEF Alive
<1> QED
  BY <1>1, <1>2 DEF Counted, EndsInOrder, PcStep, Closing

\* A worker receives the first request of a queue, its own or another's.
LEMMA ReceiveTask ==
  ASSUME TypeOK, TaskInv, NEW w \in Worker, NEW x \in Worker,
         wPc[w] \in {"select", "steal"}, PcStep(w, "loop"), queue[x] # << >>,
         wReq' = [wReq EXCEPT ![w] = Head(queue[x])],
         queue' = [queue EXCEPT ![x] = Tail(@)],
         UNCHANGED <<wCount, result>>
  PROVE  TaskInv'
<1> USE DEF TaskInv
<1>1. /\ Counted' /\ EndsInOrder'
      /\ \A v \in Worker : wPc'[v] = IF v = w THEN "loop" ELSE wPc[v]
  BY PcStepCounted
<1>2. PICK q \in Request : q = Head(queue[x])
  BY DEF TypeOK
<1>3. /\ q \in Members(queue[x])
      /\ \A v \in Worker : NoRepeat(queue'[v])
      /\ \A v \in Worker : \A r : r \in Members(queue'[v]) <=> r \in Members(queue[v]) /\ r # q
  <2>1. queue[x] \in Seq(Request) /\ NoRepeat(queue[x])
    BY DEF TypeOK, QueuedOnce
  <2>2. queue'[x] = Tail(queue[x]) /\ \A v \in Worker : v # x => queue'[v] = queue[v]
    BY DEF TypeOK
  <2>3. q \in Members(queue[x])
    BY <1>2, <2>1, TailMembers
  <2>4. \A v \in Worker : v # x => q \notin Members(queue[v])
    BY <2>3 DEF QueuedOnce
  <2>5. ASSUME NEW v \in Worker
        PROVE  /\ NoRepeat(queue'[v])
               /\ \A r : r \in Members(queue'[v]) <=> r \in Members(queue[v]) /\ r # q
    <3>1. CASE v = x
      BY <1>2, <2>1, <2>2, <3>1, TailMembers
    <3>2. CASE v # x
      BY <2>2, <2>4, <3>2 DEF QueuedOnce
    <3> QED
      BY <3>1, <3>2
  <2> QED
    BY <2>3, <2>5
<1>4. /\ q <= sent /\ q # dReq /\ result[q] = "none" /\ q # NoRequest
      /\ \A v \in Worker : wReq[v] # q
  BY <1>3, RequestFacts DEF QueuedOnce
<1>5. \A v \in Worker : wReq'[v] = IF v = w THEN q ELSE wReq[v]
  BY <1>2 DEF TypeOK
<1>6. wReq[w] = NoRequest /\ wCount[w] = 0
  BY DEF HeldOnce, InAHand, CountFresh
<1>7. QueuedOnce'
  BY <1>3, <1>4, <1>5 DEF QueuedOnce, PcStep
<1>8. HeldOnce'
  BY <1>1, <1>4, <1>5 DEF HeldOnce, PcStep, InAHand
<1>9. NothingLost'
  <2>1. ASSUME ~tearDown, NEW r \in 1 .. sent, result[r] = "none"
        PROVE  \/ dReq = r
               \/ \E v \in Worker : wReq'[v] = r
               \/ \E v \in Worker : r \in Members(queue'[v])
    <3>1. dReq = r \/ Holders(r) # {} \/ Queued(r) # {}
      BY <2>1 DEF NothingLost
    <3>2. CASE Holders(r) # {}
      <4>1. PICK v \in Worker : wReq[v] = r
        BY <3>2 DEF Holders
      <4>2. v # w
        BY <1>6, <4>1 DEF NoRequest
      <4> QED
        BY <1>5, <4>1, <4>2
    <3>3. CASE Queued(r) # {}
      <4>1. PICK v \in Worker : r \in Members(queue[v])
        BY <3>3, QueuedMembers
      <4> QED
        BY <1>3, <1>5, <4>1
    <3> QED
      BY <3>1, <3>2, <3>3
  <2>2. \A v \in Worker : DOMAIN queue'[v] = 1 .. Len(queue'[v])
    <3>1. \A v \in Worker : queue'[v] \in Seq(Request)
      BY DEF TypeOK
    <3> QED
      BY <3>1
  <2>3. ASSUME NEW r, NEW v \in Worker, r \in Members(queue'[v]) PROVE Queued(r)' # {}
    BY <2>2, <2>3 DEF Queued, Members
  <2>4. ASSUME NEW r, NEW v \in Worker, wReq'[v] = r PROVE Holders(r)' # {}
    BY <2>4 DEF Holders
  <2> QED
    BY <2>1, <2>3, <2>4 DEF NothingLost, PcStep
<1>10. CountFresh'
  BY <1>1 DEF CountFresh
<1>11. LeftIsDrained'
  <2> SUFFICES ASSUME ~tearDown, NEW v \in Worker, wPc'[v] \in Left
               PROVE  closed[v] /\ queue'[v] = << >>
    BY DEF LeftIsDrained, PcStep
  <2>1. v # w /\ closed[v] /\ queue[v] = << >>
    BY <1>1 DEF LeftIsDrained, Left
  <2>2. v # x
    BY <2>1
  <2> QED
    BY <2>1, <2>2 DEF TypeOK
<1> QED
  BY <1>1, <1>7, <1>8, <1>9, <1>10, <1>11

\* A worker gives up what it holds, if anything, once it is resolved or the
\* workers are torn down.
LEMMA ReleaseTask ==
  ASSUME TypeOK, TaskInv, NEW w \in Worker, NEW pc, wPc[w] # "exited",
         wPc' = [wPc EXCEPT ![w] = pc],
         UNCHANGED <<sent, reqClosed, tearDown, dPc, dReq, closed, queue, remaining, result>>,
         lPc' \in {"signal", "done"} => lPc \in {"signal", "done"},
         wReq' = [wReq EXCEPT ![w] = NoRequest],
         \A v \in Worker : v # w => wCount'[v] = wCount[v],
         wCount'[w] = 0,
         \/ wPc[w] = "handled" /\ pc = "select"
         \/ tearDown /\ pc = "finish"
  PROVE  TaskInv'
<1> USE DEF TaskInv
<1>1. \A v \in Worker : wPc'[v] = IF v = w THEN pc ELSE wPc[v]
  BY DEF TypeOK
<1>2. Alive' = Alive
  BY <1>1 DEF Alive
<1>3. Counted' /\ EndsInOrder'
  BY <1>2 DEF Counted, EndsInOrder, Closing
<1>4. \A v \in Worker : wReq'[v] = IF v = w THEN NoRequest ELSE wReq[v]
  BY DEF TypeOK
<1>5. QueuedOnce'
  <2>1. \A v \in Worker : \A r \in Members(queue[v]) : r # NoRequest
    BY RequestFacts DEF TypeOK
  <2> QED
    BY <1>4, <2>1 DEF QueuedOnce
<1>6. HeldOnce'
  <2>1. NoRequest <= sent
    BY DEF TypeOK, NoRequest
  <2> QED
    BY <1>1, <1>4, <2>1 DEF HeldOnce, InAHand
<1>7. NothingLost'
  <2> SUFFICES ASSUME ~tearDown, NEW r \in 1 .. sent, result[r] = "none"
               PROVE  dReq = r \/ Holders(r)' \cup Queued(r)' # {}
    BY DEF NothingLost
  <2>1. dReq = r \/ Holders(r) \cup Queued(r) # {}
    BY DEF NothingLost
  <2>2. Queued(r)' = Queued(r)
    BY DEF Queued
  <2>3. w \notin Holders(r)
    BY DEF HeldOnce, Holders
  <2>4. Holders(r)' = Holders(r)
    BY <1>4, <2>3 DEF Holders, NoRequest
  <2> QED
    BY <2>1, <2>2, <2>4
<1>8. CountFresh'
  BY <1>1 DEF CountFresh
<1>9. LeftIsDrained'
  BY <1>1 DEF LeftIsDrained, Left
<1> QED
  BY <1>3, <1>5, <1>6, <1>7, <1>8, <1>9

\* The steps of a worker from its receive to its next one, and its search
\* for work, keep the invariant.
LEMMA WorkTask ==
  ASSUME TypeOK, TaskInv, NEW w \in Worker, WorkerStep(w)
  PROVE  TaskInv'
<1> USE DEF TaskInv
<1>0. UNCHANGED <<sent, reqClosed, tearDown, dPc, dReq, closed, lPc, remaining>>
  BY WorkerFrame DEF clientVars, dispVars, listenVars
<1>1. CASE TakeOwn(w)
  BY <1>0, <1>1, ReceiveTask DEF TakeOwn, PcStep
<1>2. CASE StealRecv(w)
  <2>1. victim[w] \in Worker
    BY DEF TypeOK
  <2> QED
    BY <1>0, <1>2, <2>1, ReceiveTask DEF StealRecv, PcStep
<1>3. CASE Quit(w)
  <2>1. /\ wPc[w] # "exited" /\ tearDown /\ UNCHANGED <<queue, result>>
        /\ wPc' = [wPc EXCEPT ![w] = "finish"]
        /\ wReq' = [wReq EXCEPT ![w] = NoRequest]
        /\ wCount' = [wCount EXCEPT ![w] = 0]
    BY <1>3 DEF Quit, chanVars
  <2>2. wCount'[w] = 0 /\ \A v \in Worker : v # w => wCount'[v] = wCount[v]
    BY <2>1 DEF TypeOK
  <2> QED
    BY <1>0, <2>1, <2>2, ReleaseTask
<1>4. CASE StartSteal(w) \/ StealLoad(w) \/ StealNothing(w) \/ StealDrained(w)
  <2>1. PICK pc \in Left : wPc' = [wPc EXCEPT ![w] = pc] /\ pc # "exited"
    BY <1>4 DEF StartSteal, StealLoad, StealNothing, StealDrained, Left
  <2>2. /\ wPc[w] \notin InAHand /\ wPc[w] # "exited"
        /\ UNCHANGED <<queue, wReq, wCount, result>>
        /\ wPc[w] \in Left \/ (queue[w] = << >> /\ closed[w])
    BY <1>4 DEF StartSteal, StealLoad, StealNothing, StealDrained, chanVars, InAHand, Left
  <2>3. /\ Counted' /\ EndsInOrder'
        /\ \A v \in Worker : wPc'[v] = IF v = w THEN pc ELSE wPc[v]
    BY <1>0, <2>1, <2>2, PcStepCounted DEF PcStep
  <2>4. QueuedOnce'
    BY <1>0, <2>2 DEF QueuedOnce
  <2>8. CountFresh'
    <3>1. wCount[w] = 0
      BY <2>2 DEF CountFresh, InAHand
    <3> QED
      BY <2>2, <2>3, <3>1 DEF CountFresh
  <2>5. HeldOnce'
    BY <1>0, <2>1, <2>2, <2>3 DEF HeldOnce, InAHand, Left
  <2>6. NothingLost'
    BY <1>0, <2>2 DEF NothingLost, Holders, Queued
  <2>7. LeftIsDrained'
    BY <1>0, <2>2, <2>3 DEF LeftIsDrained
  <2> QED
    BY <2>3, <2>4, <2>5, <2>6, <2>7, <2>8
<1>5. CASE StartWork(w) \/ WorkRetries(w) \/ ReportError(w)
  <2>1. /\ UNCHANGED <<queue, wReq, result>>
        /\ wPc[w] \in InAHand
        /\ \A v \in Worker : v # w => wCount'[v] = wCount[v]
    BY <1>5 DEF StartWork, WorkRetries, ReportError, chanVars, InAHand, TypeOK
  <2>2. PICK pc \in InAHand :
          /\ wPc' = [wPc EXCEPT ![w] = pc]
          /\ \/ wPc[w] \in {"loop", "running"} /\ pc \in {"loop", "running"}
             \/ wPc[w] = "error" /\ pc = "handled" /\ wCount' = wCount
    <3>1. CASE StartWork(w)
      BY <3>1 DEF StartWork, InAHand
    <3>2. CASE WorkRetries(w)
      BY <3>2 DEF WorkRetries, InAHand
    <3>3. CASE ReportError(w)
      BY <3>3 DEF ReportError, InAHand
    <3> QED
      BY <1>5, <3>1, <3>2, <3>3
  <2>3. /\ Counted' /\ EndsInOrder'
        /\ \A v \in Worker : wPc'[v] = IF v = w THEN pc ELSE wPc[v]
    <3>1. wPc[w] # "exited" /\ pc # "exited"
      BY <2>1 DEF InAHand
    <3> QED
      BY <1>0, <2>2, <3>1, PcStepCounted DEF PcStep
  <2>4. QueuedOnce'
    BY <1>0, <2>1 DEF QueuedOnce
  <2>5. CountFresh'
    BY <2>1, <2>2, <2>3 DEF CountFresh
  <2>6. HeldOnce'
    BY <1>0, <2>1, <2>2, <2>3 DEF HeldOnce, InAHand
  <2>7. NothingLost'
    BY <1>0, <2>1 DEF NothingLost, Holders, Queued
  <2>8. LeftIsDrained'
    BY <1>0, <2>1, <2>2, <2>3 DEF LeftIsDrained, InAHand, Left
  <2> QED
    BY <2>3, <2>4, <2>5, <2>6, <2>7, <2>8
<1>6. CASE WorkSucceeds(w) \/ WorkFails(w)
  <2>1. PICK q \in Request : q = wReq[w]
    BY <1>6 DEF WorkSucceeds, WorkFails, HeldOnce, InAHand, TypeOK
  <2>2. PICK pc \in {"error", "handled"}, e \in {"ok", "failed"} :
          wPc' = [wPc EXCEPT ![w] = pc] /\ result' = [result EXCEPT ![q] = e]
    BY <1>6, <2>1 DEF WorkSucceeds, WorkFails
  <2>3. /\ wPc[w] = "running" /\ UNCHANGED <<queue, wReq>>
        /\ wCount' = [wCount EXCEPT ![w] = 0]
    BY <1>6 DEF WorkSucceeds, WorkFails, chanVars
  <2>4. \A v \in Worker : wCount'[v] = IF v = w THEN 0 ELSE wCount[v]
    BY <2>3 DEF TypeOK
  <2>5. \A r \in Request : result'[r] = IF r = q THEN e ELSE result[r]
    BY <2>2 DEF TypeOK
  <2>6. /\ Counted' /\ EndsInOrder'
        /\ \A v \in Worker : wPc'[v] = IF v = w THEN pc ELSE wPc[v]
    BY <1>0, <2>2, <2>3, PcStepCounted DEF PcStep
  <2>7. q <= sent /\ q # NoRequest /\ \A v \in Worker : wReq[v] = q => v = w
    BY <2>1, <2>3 DEF HeldOnce, InAHand
  <2>8. QueuedOnce'
    <3>1. \A v \in Worker : \A r \in Members(queue[v]) : r \in Request /\ r # q
      BY <2>1, RequestFacts DEF QueuedOnce, TypeOK
    <3> QED
      BY <1>0, <2>3, <2>5, <3>1 DEF QueuedOnce
  <2>9. HeldOnce'
    <3>1. dReq # NoRequest => dReq \in Request /\ dReq # q
      BY <2>1 DEF HeldOnce, TypeOK
    <3>2. \A v \in Worker : wPc[v] \in InAHand => wReq[v] \in Request
      BY DEF HeldOnce, TypeOK
    <3> QED
      BY <1>0, <2>1, <2>2, <2>3, <2>5, <2>6, <2>7, <3>1, <3>2 DEF HeldOnce, InAHand
  <2>10. NothingLost'
    <3>1. \A r : Holders(r)' = Holders(r) /\ Queued(r)' = Queued(r)
      BY <2>3 DEF Holders, Queued
    <3>2. \A r \in 1 .. sent : r \in Request
      BY BalancerAssumption DEF TypeOK, Request
    <3>3. ~(q > sent)
      BY <2>7 DEF TypeOK, Request
    <3> QED
      BY <1>0, <2>5, <3>1, <3>2, <3>3 DEF NothingLost
  <2>11. CountFresh'
    BY <2>2, <2>4, <2>6 DEF CountFresh
  <2>12. LeftIsDrained'
    BY <1>0, <2>2, <2>3, <2>6 DEF LeftIsDrained, Left
  <2> QED
    BY <2>6, <2>8, <2>9, <2>10, <2>11, <2>12
<1> QED
  BY <1>1, <1>2, <1>3, <1>4, <1>5, <1>6 DEF WorkerStep, WorkerLocal

\* The listener hears of a request that has been handled, or of a worker
\* that returns; it signals the end with the last of them.
LEMMA ListenTask ==
  ASSUME TypeOK, TaskInv, NEW w \in Worker, RequestHandled(w) \/ WorkerFinished(w)
  PROVE  TaskInv'
<1> USE DEF TaskInv
<1>1. CASE RequestHandled(w)
  <2>1. /\ wPc[w] = "handled" /\ lPc' = "lock"
        /\ wPc' = [wPc EXCEPT ![w] = "select"]
        /\ wReq' = [wReq EXCEPT ![w] = NoRequest]
        /\ UNCHANGED <<sent, reqClosed, tearDown, dPc, dReq, closed, queue, remaining, result, wCount>>
    BY <1>1 DEF RequestHandled, clientVars, dispVars, chanVars
  <2>2. wCount[w] = 0
    BY <2>1 DEF CountFresh
  <2> QED
    BY <2>1, <2>2, ReleaseTask
<1>2. CASE WorkerFinished(w)
  <2>1. /\ lPc = "select" /\ wPc[w] = "finish" /\ remaining' = remaining - 1
        /\ lPc' = IF remaining = 1 THEN "signal" ELSE "select"
        /\ wPc' = [wPc EXCEPT ![w] = "exited"]
        /\ UNCHANGED <<sent, reqClosed, tearDown, dPc, dReq, closed, queue, result, wReq, wCount>>
    BY <1>2 DEF WorkerFinished, clientVars, dispVars, chanVars
  <2>2. \A v \in Worker : wPc'[v] = IF v = w THEN "exited" ELSE wPc[v]
    BY <2>1 DEF TypeOK
  <2>3. Alive' = Alive \ {w} /\ w \in Alive
    BY <2>1, <2>2 DEF Alive
  <2>4. IsFiniteSet(Alive)
    <3>1. IsFiniteSet(Worker)
      BY FS_Interval, WorkerCountAssumption DEF Worker
    <3>2. Alive \in SUBSET Worker
      BY DEF Alive
    <3> QED
      BY <3>1, <3>2, FS_Subset
  <2>5. /\ Cardinality(Alive') = Cardinality(Alive) - 1 /\ IsFiniteSet(Alive')
        /\ Cardinality(Alive) \in Nat
    BY <2>3, <2>4, FS_RemoveElement, FS_CardinalityType
  <2>6. Counted'
    <3>1. remaining' = Cardinality(Alive')
      BY <2>1, <2>5 DEF Counted
    <3>2. ASSUME lPc' \in {"signal", "done"} PROVE Alive' = {}
      <4>1. Cardinality(Alive') = 0
        BY <2>1, <2>5, <3>2 DEF Counted
      <4> QED
        BY <2>5, <4>1, FS_EmptySet
    <3> QED
      BY <3>1, <3>2 DEF Counted
  <2>7. QueuedOnce' /\ EndsInOrder'
    BY <2>1 DEF QueuedOnce, EndsInOrder, Closing
  <2>8. HeldOnce' /\ CountFresh'
    BY <2>1, <2>2 DEF HeldOnce, InAHand, CountFresh
  <2>9. NothingLost'
    BY <2>1 DEF NothingLost, Holders, Queued
  <2>10. LeftIsDrained'
    BY <2>1, <2>2 DEF LeftIsDrained, Left
  <2> QED
    BY <2>6, <2>7, <2>8, <2>9, <2>10
<1> QED
  BY <1>1, <1>2

\* Every step keeps the invariant.
LEMMA TaskStep ==
  ASSUME TypeOK, DispatcherHolds, TaskInv, [BalancerNext]_balancerVars
  PROVE  TaskInv'
BY QuietSteps, DispatchTask, WorkTask, ListenTask
   DEF BalancerNext, Client, Dispatcher, Listener

\* The invariant holds in every behaviour of the balancer.
LEMMA TaskInvariant == BalancerSpec => [](TypeOK /\ DispatcherHolds /\ TaskInv)
<1>1. BalancerInit => TypeOK /\ DispatcherHolds /\ TaskInv
  BY TypeInit, TaskInit
<1>2. TypeOK /\ DispatcherHolds /\ TaskInv /\ [BalancerNext]_balancerVars
      => (TypeOK /\ DispatcherHolds /\ TaskInv)'
  BY TypeStep, TaskStep
<1> QED
  BY <1>1, <1>2, PTL DEF BalancerSpec

\* What is true when the end is signalled follows from the invariant.
LEMMA EndIsClean ==
  ASSUME TypeOK, DispatcherHolds, TaskInv
  PROVE  FinishedMeansResolved
<1> SUFFICES ASSUME lPc \in {"signal", "done"}
             PROVE  /\ \A w \in Worker : wPc[w] = "exited"
                    /\ tearDown \/ \A r \in 1 .. sent : result[r] # "none"
  BY DEF FinishedMeansResolved
<1>1. \A w \in Worker : wPc[w] = "exited"
  BY DEF TaskInv, Counted, Alive
<1>2. ASSUME ~tearDown, NEW r \in 1 .. sent, result[r] = "none" PROVE FALSE
  <2>1. \A w \in Worker : closed[w] /\ queue[w] = << >> /\ wReq[w] = NoRequest
    BY <1>1, <1>2 DEF TaskInv, LeftIsDrained, Left, HeldOnce, InAHand
  <2>2. Closing
    BY <2>1, WorkerCountAssumption DEF TaskInv, EndsInOrder, Worker
  <2>3. dReq = NoRequest /\ r # NoRequest
    BY <2>2 DEF DispatcherHolds, Closing, NoRequest
  <2>4. Holders(r) = {} /\ Queued(r) = {}
    BY <2>1, <2>3 DEF Holders, Queued
  <2> QED
    BY <1>2, <2>3, <2>4 DEF TaskInv, NothingLost
<1> QED
  BY <1>1, <1>2

\* When the balancer signals that all workers have finished, every one has
\* returned and, unless they were torn down, every request that was sent has
\* been run to its end: no request is left in a queue, although the workers
\* look for what is left without the lock, in a heap that is being changed.
THEOREM EndMeansResolved == BalancerSpec => []FinishedMeansResolved
<1>1. TypeOK /\ DispatcherHolds /\ TaskInv => FinishedMeansResolved
  BY EndIsClean
<1> QED
  BY <1>1, TaskInvariant, PTL

-----------------------------------------------------------------------------
(* The refinement.  Where a request is determines what TaskPool sees of    *)
(* it; a step of the balancer moves at most one request.                   *)

Waits(r)   == dReq = r \/ \E w \in Worker : r \in Members(queue[w])
Nowhere(r) == ~Waits(r) /\ \A w \in Worker : wReq[w] # r

\* The state and the tries of a task, by the place of its request.
Placement ==
  \A r \in Request :
    /\ \A w \in Worker : wReq[w] = r =>
         /\ TaskTries(r) = wCount[w]
         /\ wPc[w] = "loop" => TaskState(r) = "waiting"
         /\ wPc[w] = "running" => TaskState(r) = "running"
         /\ wPc[w] \notin {"loop", "running"} => TaskState(r) = result[r]
    /\ Waits(r) => TaskTries(r) = 0 /\ TaskState(r) = "waiting"
    /\ Nowhere(r) =>
         /\ TaskTries(r) = 0
         /\ result[r] # "none" => TaskState(r) = result[r]
         /\ result[r] = "none" => TaskState(r) = IF r <= sent THEN "dropped" ELSE "unsent"

\* A request is in one place, and the place says what TaskPool sees.
LEMMA PlacesTell ==
  ASSUME TypeOK, TaskInv
  PROVE  Placement
<1> USE DEF TaskInv
<1> SUFFICES ASSUME NEW r \in Request
             PROVE  /\ \A w \in Worker : wReq[w] = r =>
                         /\ TaskTries(r) = wCount[w]
                         /\ wPc[w] = "loop" => TaskState(r) = "waiting"
                         /\ wPc[w] = "running" => TaskState(r) = "running"
                         /\ wPc[w] \notin {"loop", "running"} => TaskState(r) = result[r]
                    /\ Waits(r) => TaskTries(r) = 0 /\ TaskState(r) = "waiting"
                    /\ Nowhere(r) =>
                         /\ TaskTries(r) = 0
                         /\ result[r] # "none" => TaskState(r) = result[r]
                         /\ result[r] = "none" =>
                              TaskState(r) = IF r <= sent THEN "dropped" ELSE "unsent"
  BY DEF Placement
<1>0. r # NoRequest /\ Queued(r) = {w \in Worker : r \in Members(queue[w])}
  BY RequestFacts, QueuedMembers
<1>1. ASSUME NEW w \in Worker, wReq[w] = r
      PROVE  /\ TaskTries(r) = wCount[w]
             /\ wPc[w] = "loop" => TaskState(r) = "waiting"
             /\ wPc[w] = "running" => TaskState(r) = "running"
             /\ wPc[w] \notin {"loop", "running"} => TaskState(r) = result[r]
  <2>1. Holders(r) = {w}
    BY <1>0, <1>1 DEF Holders, HeldOnce
  <2>2. TaskTries(r) = wCount[w]
    BY <2>1 DEF TaskTries
  <2>3. RunBy(r) = IF wPc[w] = "running" THEN {w} ELSE {}
    BY <2>1 DEF RunBy
  <2>4. /\ wPc[w] \in InAHand
        /\ wPc[w] \in {"loop", "running"} => result[r] = "none"
        /\ wPc[w] \in {"error", "handled"} => result[r] # "none"
    BY <1>0, <1>1 DEF HeldOnce
  <2> QED
    BY <2>1, <2>2, <2>3, <2>4 DEF TaskState, InAHand
<1>2. ASSUME Waits(r) PROVE TaskTries(r) = 0 /\ TaskState(r) = "waiting"
  <2>1. Holders(r) = {} /\ result[r] = "none"
    BY <1>0, <1>2 DEF Waits, Holders, HeldOnce, QueuedOnce
  <2>2. RunBy(r) = {} /\ (dReq = r \/ Queued(r) # {})
    BY <1>0, <1>2, <2>1 DEF RunBy, Waits
  <2> QED
    BY <2>1, <2>2 DEF TaskTries, TaskState
<1>3. ASSUME Nowhere(r)
      PROVE  /\ TaskTries(r) = 0
             /\ result[r] # "none" => TaskState(r) = result[r]
             /\ result[r] = "none" => TaskState(r) = IF r <= sent THEN "dropped" ELSE "unsent"
  <2>1. Holders(r) = {} /\ RunBy(r) = {} /\ Queued(r) = {} /\ dReq # r
    BY <1>0, <1>3 DEF Nowhere, Waits, Holders, RunBy
  <2> QED
    BY <2>1 DEF TaskTries, TaskState
<1> QED
  BY <1>1, <1>2, <1>3

\* A step that leaves a request where it is does not change its task.
LEMMA SameTask ==
  ASSUME Placement, Placement', NEW r \in Request, result'[r] = result[r],
         Waits(r)' <=> Waits(r),
         \A w \in Worker : wReq'[w] = r <=> wReq[w] = r,
         \A w \in Worker : wReq[w] = r =>
           wPc'[w] = wPc[w] /\ wCount'[w] = wCount[w],
         r <= sent' <=> r <= sent
  PROVE  TaskState(r)' = TaskState(r) /\ TaskTries(r)' = TaskTries(r)
<1>1. CASE \E w \in Worker : wReq[w] = r
  <2>1. PICK w \in Worker : wReq[w] = r
    BY <1>1
  <2> QED
    BY <2>1 DEF Placement
<1>2. CASE Waits(r)
  BY <1>2 DEF Placement
<1>3. CASE Nowhere(r)
  <2>1. Nowhere(r)'
    BY <1>3 DEF Nowhere
  <2> QED
    BY <1>3, <2>1 DEF Placement
<1> QED
  BY <1>1, <1>2, <1>3 DEF Nowhere

\* A step in which one task moves is a Move of TaskPool.
LEMMA OneMoves ==
  ASSUME NEW q \in Request, NEW from, NEW to, NEW n,
         \A r \in Request \ {q} : TaskState(r)' = TaskState(r) /\ TaskTries(r)' = TaskTries(r),
         TaskState(q) = from, TaskState(q)' = to, TaskTries(q)' = n,
         UNCHANGED <<reqClosed, tearDown, panicked>>,
         (lPc' = "done") = (lPc = "done")
  PROVE  /\ Promise!Move(q, from, to)
         /\ [r \in Request |-> TaskTries(r)]'
            = [[r \in Request |-> TaskTries(r)] EXCEPT ![q] = n]
         /\ n = TaskTries(q) => UNCHANGED [r \in Request |-> TaskTries(r)]
<1>1. [r \in Request |-> TaskState(r)]' = [[r \in Request |-> TaskState(r)] EXCEPT ![q] = to]
  OBVIOUS
<1>2. Promise!Move(q, from, to)
  BY <1>1 DEF Promise!Move
<1>3. [r \in Request |-> TaskTries(r)]' = [[r \in Request |-> TaskTries(r)] EXCEPT ![q] = n]
  OBVIOUS
<1>4. n = TaskTries(q) => UNCHANGED [r \in Request |-> TaskTries(r)]
  OBVIOUS
<1> QED
  BY <1>2, <1>3, <1>4

\* A step in which none moves is none for the reader of TaskPool.
LEMMA NoneMoves ==
  ASSUME \A r \in Request : TaskState(r)' = TaskState(r) /\ TaskTries(r)' = TaskTries(r),
         UNCHANGED <<reqClosed, tearDown, panicked>>,
         (lPc' = "done") = (lPc = "done")
  PROVE  UNCHANGED Promise!vars
BY DEF Promise!vars

\* A step that leaves every request where it is changes no task.
LEMMA QuietTasks ==
  ASSUME Placement, Placement',
         UNCHANGED <<sent, dReq, queue, wPc, wReq, wCount, result>>
  PROVE  \A r \in Request : TaskState(r)' = TaskState(r) /\ TaskTries(r)' = TaskTries(r)
<1>1. \A r : Waits(r)' <=> Waits(r)
  BY DEF Waits
<1> QED
  BY <1>1, SameTask

\* The running tasks are those in the hands of the workers that run one.
LEMMA RunningTasks ==
  ASSUME TypeOK, TaskInv, Placement, NEW r \in Request, TaskState(r) = "running"
  PROVE  \E w \in Worker : wReq[w] = r /\ wPc[w] = "running"
<1>1. result[r] \in {"none", "ok", "failed"}
  BY DEF TypeOK
<1>2. ~Waits(r) /\ ~Nowhere(r)
  BY <1>1 DEF Placement
<1>3. PICK w \in Worker : wReq[w] = r
  BY <1>2 DEF Nowhere
<1>4. wPc[w] = "running"
  BY <1>1, <1>3 DEF Placement
<1> QED
  BY <1>3, <1>4

\* While a worker is not running a task, fewer than Parallel of them run.
LEMMA RunnersBounded ==
  ASSUME TypeOK, TaskInv, Placement, NEW w \in Worker, wPc[w] # "running"
  PROVE  Cardinality(Promise!In("running")) < WorkerCount
<1> DEFINE S == Promise!In("running")
           f == [r \in S |-> CHOOSE v \in Worker : wReq[v] = r /\ wPc[v] = "running"]
<1>1. \A r \in S : r \in Request /\ TaskState(r) = "running"
  BY DEF Promise!In
<1>2. \A r \in S : f[r] \in Worker /\ wReq[f[r]] = r /\ wPc[f[r]] = "running"
  BY <1>1, RunningTasks
<1>3. f \in Injection(S, Worker \ {w})
  BY <1>2 DEF Injection, IsInjective
<1>4. IsFiniteSet(Worker) /\ Cardinality(Worker) = WorkerCount
  BY FS_Interval, WorkerCountAssumption DEF Worker
<1>5. IsFiniteSet(Worker \ {w}) /\ Cardinality(Worker \ {w}) = WorkerCount - 1
  BY <1>4, FS_RemoveElement
<1>6. IsFiniteSet(S) /\ Cardinality(S) <= WorkerCount - 1
  <2> HIDE DEF S, f
  <2> QED
    BY <1>3, <1>5, FS_Injection
<1>7. Cardinality(S) \in Nat
  <2> HIDE DEF S
  <2> QED
    BY <1>6, FS_CardinalityType
<1> QED
  BY <1>6, <1>7, WorkerCountAssumption

\* The steps that move no request: the client's ends of the channels, the
\* signal of the end and the second close of a queue are the only ones that
\* the reader of TaskPool sees.
LEMMA QuietSimulates ==
  ASSUME TypeOK, DispatcherHolds, TaskInv, Placement, Placement', ~panicked,
         \/ CloseRequests \/ TearDownWorkers
         \/ RecvClosed \/ PollLoad \/ PollRead \/ DispatchLock \/ DispatchFix
         \/ CloseNext \/ CloseDone \/ CompletedLock \/ CompletedFix
         \/ AllWorkersFinished
  PROVE  Promise!Next \/ UNCHANGED Promise!vars
<1>1. UNCHANGED <<sent, dReq, queue, wPc, wReq, wCount, result>>
  BY QuietSteps
<1>2. \A r \in Request : TaskState(r)' = TaskState(r) /\ TaskTries(r)' = TaskTries(r)
  BY <1>1, QuietTasks
<1>3. /\ [r \in Request |-> TaskState(r)]' = [r \in Request |-> TaskState(r)]
      /\ [r \in Request |-> TaskTries(r)]' = [r \in Request |-> TaskTries(r)]
  BY <1>2
<1>4. CASE CloseRequests
  <2>1. Promise!Close
    BY <1>3, <1>4 DEF CloseRequests, listenVars, Promise!Close
  <2> QED
    BY <2>1 DEF Promise!Next
<1>5. CASE TearDownWorkers
  <2>1. Promise!Cancel
    BY <1>3, <1>5 DEF TearDownWorkers, listenVars, Promise!Cancel
  <2> QED
    BY <2>1 DEF Promise!Next
<1>6. CASE RecvClosed \/ PollLoad \/ PollRead \/ CloseDone \/ DispatchLock \/ DispatchFix
  BY <1>2, <1>6, NoneMoves DEF RecvClosed, PollLoad, PollRead, CloseDone, DispatchLock, DispatchFix,
     clientVars, listenVars
<1>7. CASE CompletedLock \/ CompletedFix
  BY <1>2, <1>7, NoneMoves DEF CompletedLock, CompletedFix, clientVars
<1>8. CASE CloseNext
  <2>1. UNCHANGED <<reqClosed, tearDown, lPc>> /\ reqClosed
    BY <1>8 DEF CloseNext, clientVars, listenVars, TaskInv, EndsInOrder, Closing
  <2>2. CASE panicked' = panicked
    BY <1>2, <2>1, <2>2, NoneMoves
  <2>3. CASE panicked' # panicked
    <3>1. panicked' = TRUE
      <4>1. slots[dIdx] \in Worker
        BY <1>8, WorkerCountAssumption DEF CloseNext, TypeOK, PoolTypeOK, Position
      <4> QED
        BY <1>8, <2>3, <4>1 DEF CloseNext, TypeOK
    <3>2. Promise!Crash
      BY <1>3, <2>1, <3>1 DEF Promise!Crash
    <3> QED
      BY <3>2 DEF Promise!Next
  <2> QED
    BY <2>2, <2>3
<1>9. CASE AllWorkersFinished
  <2>1. /\ lPc = "signal" /\ lPc' = "done"
        /\ UNCHANGED <<reqClosed, tearDown, panicked>>
    BY <1>9 DEF AllWorkersFinished, clientVars
  <2>2. /\ \A w \in Worker : wPc[w] = "exited"
        /\ tearDown \/ \A r \in 1 .. sent : result[r] # "none"
    BY <2>1, EndIsClean DEF FinishedMeansResolved
  <2>3. reqClosed
    <3>1. 0 \in Worker
      BY WorkerCountAssumption DEF Worker
    <3> QED
      BY <2>2, <3>1 DEF TaskInv, LeftIsDrained, Left, EndsInOrder
  <2>4. Promise!In("running") = {}
    BY <2>2, RunningTasks DEF Promise!In
  <2>5. Promise!In("waiting") = {} \/ tearDown
    <3> SUFFICES ASSUME ~tearDown, NEW r \in Request, TaskState(r) = "waiting"
                 PROVE  FALSE
      BY DEF Promise!In
    <3>1. result[r] \in {"none", "ok", "failed"} /\ r \in Nat /\ r >= 1 /\ sent \in Nat
      BY BalancerAssumption DEF TypeOK, Request
    <3>2. \A w \in Worker : wReq[w] # r
      BY <2>2, RequestFacts DEF TaskInv, HeldOnce, InAHand
    <3>3. Waits(r)
      BY <3>1, <3>2 DEF Placement, Nowhere
    <3>4. r <= sent /\ result[r] = "none"
      BY <3>3, RequestFacts DEF Waits, TaskInv, HeldOnce, QueuedOnce
    <3> QED
      BY <2>2, <3>1, <3>4
  <2>6. Promise!Announce
    BY <1>3, <2>1, <2>3, <2>4, <2>5 DEF Promise!Announce
  <2> QED
    BY <2>6 DEF Promise!Next
<1> QED
  BY <1>4, <1>5, <1>6, <1>7, <1>8, <1>9

\* The dispatcher submits a task, and the queue that it puts the request in
\* is nobody's business.
LEMMA DispatchSimulates ==
  ASSUME TypeOK, DispatcherHolds, TaskInv, Placement, TaskInv', Placement', ~panicked,
         SendRequest \/ DispatchSend
  PROVE  Promise!Next \/ UNCHANGED Promise!vars
<1>1. CASE SendRequest
  <2>1. PICK q \in Request : q = sent + 1
    BY <1>1, BalancerAssumption DEF SendRequest, TypeOK, Request
  <2>2. /\ dReq = NoRequest /\ dReq' = q /\ sent' = q /\ ~reqClosed /\ sent \in Nat /\ q = sent + 1
        /\ UNCHANGED <<queue, wPc, wReq, wCount, result, reqClosed, tearDown, panicked, lPc>>
    BY <1>1, <2>1 DEF SendRequest, DispatcherHolds, chanVars, listenVars, workVars, TypeOK
  <2>3. \A r \in Request \ {q} : TaskState(r)' = TaskState(r) /\ TaskTries(r)' = TaskTries(r)
    <3>1. TAKE r \in Request \ {q}
    <3>2. Waits(r)' <=> Waits(r)
      BY <2>2, RequestFacts DEF Waits
    <3>3. r <= sent' <=> r <= sent
      BY <2>2, RequestFacts
    <3> QED
      BY <2>2, <3>2, <3>3, SameTask
  <2>4. TaskState(q) = "unsent" /\ TaskTries(q) = 0
    <3>1. ~(q <= sent) /\ q > sent
      BY <2>2
    <3>2. Nowhere(q)
      BY <2>2, <3>1, RequestFacts DEF Nowhere, Waits, TaskInv, QueuedOnce, HeldOnce
    <3>3. result[q] = "none"
      BY <3>1 DEF TaskInv, NothingLost
    <3> QED
      BY <3>1, <3>2, <3>3 DEF Placement
  <2>5. TaskState(q)' = "waiting" /\ TaskTries(q)' = 0
    <3>1. Waits(q)'
      BY <2>2 DEF Waits
    <3> QED
      BY <3>1 DEF Placement
  <2>6. /\ Promise!Move(q, "unsent", "waiting")
        /\ UNCHANGED [r \in Request |-> TaskTries(r)]
    BY <2>2, <2>3, <2>4, <2>5, OneMoves
  <2>7. Promise!Submit(q)
    BY <2>2, <2>6 DEF Promise!Submit
  <2> QED
    BY <2>7 DEF Promise!Next
<1>2. CASE DispatchSend
  <2>1. PICK d \in Worker : d = dWorker
    BY DEF TypeOK
  <2>2. PICK q \in Request : q = dReq
    BY <1>2 DEF DispatchSend, DispatcherHolds, TypeOK
  <2>3. /\ queue' = [queue EXCEPT ![d] = Append(@, q)] /\ dReq' = NoRequest
        /\ UNCHANGED <<sent, wPc, wReq, wCount, result, reqClosed, tearDown, panicked, lPc>>
    BY <1>2, <2>1, <2>2 DEF DispatchSend, clientVars, listenVars, workVars
  <2>4. queue[d] \in Seq(Request) /\ NoRepeat(queue[d]) /\ q \notin Members(queue[d])
    BY <2>2 DEF TypeOK, TaskInv, QueuedOnce
  <2>5. queue'[d] = Append(queue[d], q) /\ \A w \in Worker : w # d => queue'[w] = queue[w]
    BY <2>3 DEF TypeOK
  <2>6. \A r : r \in Members(queue'[d]) <=> r \in Members(queue[d]) \/ r = q
    BY <2>4, <2>5, AppendMembers
  <2>7. \A r \in Request : Waits(r)' <=> Waits(r)
    BY <2>2, <2>3, <2>5, <2>6, RequestFacts DEF Waits
  <2>8. \A r \in Request : TaskState(r)' = TaskState(r) /\ TaskTries(r)' = TaskTries(r)
    BY <2>3, <2>7, SameTask
  <2> QED
    BY <2>3, <2>8, NoneMoves
<1> QED
  BY <1>1, <1>2

\* A step of one worker leaves alone the tasks that it neither holds nor
\* takes.
LEMMA OtherTasks ==
  ASSUME TypeOK, Placement, Placement', NEW w \in Worker, NEW r \in Request,
         wReq[w] # r, wReq'[w] # r, result'[r] = result[r], Waits(r)' <=> Waits(r),
         sent' = sent,
         \A v \in Worker : v # w =>
           wReq'[v] = wReq[v] /\ wPc'[v] = wPc[v] /\ wCount'[v] = wCount[v]
  PROVE  TaskState(r)' = TaskState(r) /\ TaskTries(r)' = TaskTries(r)
<1>1. \A v \in Worker : wReq'[v] = r <=> wReq[v] = r
  OBVIOUS
<1>2. \A v \in Worker : wReq[v] = r => wPc'[v] = wPc[v] /\ wCount'[v] = wCount[v]
  OBVIOUS
<1> QED
  BY <1>1, <1>2, SameTask

\* A receive, from the worker's own queue or another's, is no step of a task.
LEMMA ReceiveSimulates ==
  ASSUME TypeOK, TaskInv, Placement, Placement',
         NEW w \in Worker, NEW x \in Worker,
         wPc[w] \in {"select", "steal"}, PcStep(w, "loop"), queue[x] # << >>,
         wReq' = [wReq EXCEPT ![w] = Head(queue[x])],
         queue' = [queue EXCEPT ![x] = Tail(@)],
         UNCHANGED <<wCount, result, panicked>>
  PROVE  UNCHANGED Promise!vars
<1> USE DEF TaskInv
<1>1. PICK q \in Request : q = Head(queue[x])
  BY DEF TypeOK
<1>2. queue[x] \in Seq(Request) /\ NoRepeat(queue[x])
  BY DEF TypeOK, QueuedOnce
<1>3. queue'[x] = Tail(queue[x]) /\ \A v \in Worker : v # x => queue'[v] = queue[v]
  BY DEF TypeOK
<1>4. /\ q \in Members(queue[x])
      /\ \A r : r \in Members(queue'[x]) <=> r \in Members(queue[x]) /\ r # q
  BY <1>1, <1>2, <1>3, TailMembers
<1>5. wReq[w] = NoRequest /\ wCount[w] = 0
  BY DEF HeldOnce, InAHand, CountFresh
<1>6. /\ wReq'[w] = q /\ wPc'[w] = "loop"
      /\ \A v \in Worker : v # w => wReq'[v] = wReq[v] /\ wPc'[v] = wPc[v]
  BY <1>1 DEF TypeOK, PcStep
<1>7. ASSUME NEW r \in Request, r # q
      PROVE  TaskState(r)' = TaskState(r) /\ TaskTries(r)' = TaskTries(r)
  <2>1. Waits(r)' <=> Waits(r)
    BY <1>3, <1>4, <1>7 DEF Waits, PcStep
  <2> QED
    BY <1>5, <1>6, <1>7, <2>1, OtherTasks, RequestFacts DEF PcStep
<1>8. TaskState(q) = "waiting" /\ TaskTries(q) = 0
  BY <1>4 DEF Placement, Waits
<1>9. TaskState(q)' = "waiting" /\ TaskTries(q)' = 0
  BY <1>5, <1>6 DEF Placement
<1> QED
  BY <1>7, <1>8, <1>9, NoneMoves DEF PcStep

\* The steps of a worker: it starts, repeats and resolves the one task that
\* it holds, and drops it only when the workers are torn down.
LEMMA WorkSimulates ==
  ASSUME TypeOK, TaskInv, Placement, TaskInv', Placement', ~panicked,
         NEW w \in Worker, WorkerStep(w)
  PROVE  Promise!Next \/ UNCHANGED Promise!vars
<1> DEFINE Same(r) == TaskState(r)' = TaskState(r) /\ TaskTries(r)' = TaskTries(r)
<1>0. UNCHANGED <<sent, reqClosed, tearDown, dPc, dReq, closed, lPc, remaining, panicked>>
  BY WorkerFrame DEF clientVars, dispVars, listenVars
<1>1. CASE TakeOwn(w)
  BY <1>0, <1>1, ReceiveSimulates DEF TakeOwn, PcStep
<1>2. CASE StealRecv(w)
  <2>1. victim[w] \in Worker
    BY DEF TypeOK
  <2> QED
    BY <1>0, <1>2, <2>1, ReceiveSimulates DEF StealRecv, PcStep
<1>3. ASSUME queue' = queue PROVE \A r : Waits(r)' <=> Waits(r)
  BY <1>0, <1>3 DEF Waits
<1>4. CASE StartSteal(w) \/ StealLoad(w) \/ StealNothing(w) \/ StealDrained(w)
  <2>1. /\ wPc[w] \notin InAHand /\ UNCHANGED <<queue, wReq, wCount, result>>
        /\ \A v \in Worker : v # w => wPc'[v] = wPc[v]
    BY <1>4 DEF StartSteal, StealLoad, StealNothing, StealDrained, chanVars, InAHand, TypeOK
  <2>2. wReq[w] = NoRequest
    BY <2>1 DEF TaskInv, HeldOnce
  <2>3. \A r \in Request : Same(r)
    BY <1>0, <1>3, <2>1, <2>2, OtherTasks, RequestFacts
  <2> QED
    BY <1>0, <2>3, NoneMoves
<1>5. ASSUME wPc[w] \in InAHand
      PROVE  wReq[w] \in Request /\ wReq[w] # NoRequest
  BY <1>5 DEF TaskInv, HeldOnce, TypeOK
<1>6. CASE StartWork(w)
  <2>1. PICK q \in Request : q = wReq[w]
    BY <1>5, <1>6 DEF StartWork, InAHand
  <2>2. /\ wPc[w] = "loop" /\ ~tearDown /\ UNCHANGED <<queue, wReq, wCount, result>>
        /\ wPc'[w] = "running" /\ \A v \in Worker : v # w => wPc'[v] = wPc[v]
    BY <1>6 DEF StartWork, chanVars, TypeOK
  <2>3. \A r \in Request \ {q} : Same(r)
    BY <1>0, <1>3, <2>1, <2>2, OtherTasks
  <2>4. TaskState(q) = "waiting" /\ TaskState(q)' = "running" /\ TaskTries(q)' = TaskTries(q)
    BY <2>1, <2>2 DEF Placement
  <2>5. Promise!Move(q, "waiting", "running") /\ UNCHANGED [r \in Request |-> TaskTries(r)]
    BY <1>0, <2>3, <2>4, OneMoves
  <2>6. Cardinality(Promise!In("running")) < WorkerCount
    BY <2>2, RunnersBounded
  <2>7. Promise!Cardinality(Promise!In("running")) = Cardinality(Promise!In("running"))
    BY DEF Cardinality, Promise!Cardinality
  <2>8. Promise!Start(q)
    BY <2>2, <2>5, <2>6, <2>7 DEF Promise!Start
  <2> QED
    BY <2>8 DEF Promise!Next
<1>7. CASE WorkRetries(w)
  <2>1. PICK q \in Request : q = wReq[w]
    BY <1>5, <1>7 DEF WorkRetries, InAHand
  <2>2. /\ wPc[w] = "running" /\ UNCHANGED <<queue, wReq, result>>
        /\ wCount[w] < MaxRetryCount /\ wCount'[w] = wCount[w] + 1 /\ wPc'[w] = "loop"
        /\ \A v \in Worker : v # w => wPc'[v] = wPc[v] /\ wCount'[v] = wCount[v]
    BY <1>7 DEF WorkRetries, chanVars, TypeOK
  <2>3. \A r \in Request \ {q} : Same(r)
    BY <1>0, <1>3, <2>1, <2>2, OtherTasks
  <2>4. /\ TaskState(q) = "running" /\ TaskState(q)' = "waiting"
        /\ TaskTries(q) = wCount[w] /\ TaskTries(q)' = wCount[w] + 1
    BY <2>1, <2>2 DEF Placement
  <2>5. /\ Promise!Move(q, "running", "waiting")
        /\ [r \in Request |-> TaskTries(r)]'
           = [[r \in Request |-> TaskTries(r)] EXCEPT ![q] = wCount[w] + 1]
    BY <1>0, <2>3, <2>4, OneMoves
  <2>6. Promise!Retry(q)
    BY <2>2, <2>4, <2>5 DEF Promise!Retry
  <2> QED
    BY <2>6 DEF Promise!Next
<1>8. CASE WorkSucceeds(w) \/ WorkFails(w)
  <2>1. PICK q \in Request : q = wReq[w]
    BY <1>5, <1>8 DEF WorkSucceeds, WorkFails, InAHand
  <2>2. PICK pc \in {"error", "handled"}, e \in {"ok", "failed"} :
          wPc' = [wPc EXCEPT ![w] = pc] /\ result' = [result EXCEPT ![q] = e]
    BY <1>8, <2>1 DEF WorkSucceeds, WorkFails
  <2>3. /\ wPc[w] = "running" /\ UNCHANGED <<queue, wReq>>
        /\ wCount' = [wCount EXCEPT ![w] = 0]
    BY <1>8 DEF WorkSucceeds, WorkFails, chanVars
  <2>4. /\ wPc'[w] = pc /\ wCount'[w] = 0 /\ result'[q] = e
        /\ \A v \in Worker : v # w => wPc'[v] = wPc[v] /\ wCount'[v] = wCount[v]
        /\ \A r \in Request : r # q => result'[r] = result[r]
    BY <2>2, <2>3 DEF TypeOK
  <2>5. \A r \in Request \ {q} : Same(r)
    BY <1>0, <1>3, <2>1, <2>3, <2>4, OtherTasks
  <2>6. TaskState(q) = "running" /\ TaskState(q)' = e /\ TaskTries(q)' = 0
    BY <2>1, <2>3, <2>4 DEF Placement
  <2>7. /\ Promise!Move(q, "running", e)
        /\ [r \in Request |-> TaskTries(r)]' = [[r \in Request |-> TaskTries(r)] EXCEPT ![q] = 0]
    BY <1>0, <2>5, <2>6, OneMoves
  <2>8. Promise!Resolve(q)
    BY <2>7 DEF Promise!Resolve
  <2> QED
    BY <2>8 DEF Promise!Next
<1>9. CASE ReportError(w)
  <2>1. PICK q \in Request : q = wReq[w]
    BY <1>5, <1>9 DEF ReportError, InAHand
  <2>2. /\ wPc[w] = "error" /\ UNCHANGED <<queue, wReq, wCount, result>>
        /\ wPc'[w] = "handled" /\ \A v \in Worker : v # w => wPc'[v] = wPc[v]
    BY <1>9 DEF ReportError, chanVars, TypeOK
  <2>3. \A r \in Request \ {q} : Same(r)
    BY <1>0, <1>3, <2>1, <2>2, OtherTasks
  <2>4. Same(q)
    BY <2>1, <2>2 DEF Placement
  <2> QED
    BY <1>0, <2>3, <2>4, NoneMoves
<1>10. CASE Quit(w)
  <2>1. /\ wPc[w] \in {"select", "loop", "error", "handled"} /\ tearDown /\ UNCHANGED <<queue, result>>
        /\ wReq'[w] = NoRequest
        /\ \A v \in Worker : v # w => wPc'[v] = wPc[v] /\ wReq'[v] = wReq[v] /\ wCount'[v] = wCount[v]
    BY <1>10 DEF Quit, chanVars, TypeOK
  <2>2. \A r \in Request : r # wReq[w] => Same(r)
    BY <1>0, <1>3, <2>1, OtherTasks, RequestFacts
  <2>3. CASE wPc[w] = "select"
    <3>1. wReq[w] = NoRequest
      BY <2>3 DEF TaskInv, HeldOnce, InAHand
    <3>2. \A r \in Request : Same(r)
      BY <2>2, <3>1, RequestFacts
    <3> QED
      BY <1>0, <3>2, NoneMoves
  <2>4. CASE wPc[w] # "select"
    <3>1. PICK q \in Request : q = wReq[w]
      BY <1>5, <2>1, <2>4 DEF InAHand
    <3>2. /\ q <= sent /\ \A v \in Worker : v # w => wReq[v] # q
          /\ dReq # q /\ \A v \in Worker : q \notin Members(queue[v])
      BY <3>1, RequestFacts DEF TaskInv, HeldOnce, QueuedOnce
    <3>3. Nowhere(q)'
      BY <1>0, <2>1, <3>2, RequestFacts DEF Nowhere, Waits
    <3>4. CASE wPc[w] = "loop"
      <4>1. result[q] = "none"
        BY <3>1, <3>4 DEF TaskInv, HeldOnce
      <4>2. TaskState(q) = "waiting" /\ TaskState(q)' = "dropped" /\ TaskTries(q)' = 0
        BY <1>0, <2>1, <3>1, <3>2, <3>3, <3>4, <4>1 DEF Placement
      <4>3. /\ Promise!Move(q, "waiting", "dropped")
            /\ [r \in Request |-> TaskTries(r)]' = [[r \in Request |-> TaskTries(r)] EXCEPT ![q] = 0]
        BY <1>0, <2>2, <3>1, <4>2, OneMoves
      <4>4. Promise!Drop(q)
        BY <2>1, <4>3 DEF Promise!Drop
      <4> QED
        BY <4>4 DEF Promise!Next
    <3>5. CASE wPc[w] # "loop"
      <4>1. result[q] # "none" /\ wCount[w] = 0
        BY <2>1, <2>4, <3>1, <3>5 DEF TaskInv, HeldOnce, CountFresh
      <4>2. Same(q)
        BY <2>1, <2>4, <3>1, <3>3, <3>5, <4>1 DEF Placement
      <4> QED
        BY <1>0, <2>2, <3>1, <4>2, NoneMoves
    <3> QED
      BY <3>4, <3>5
  <2> QED
    BY <2>3, <2>4
<1> QED
  BY <1>1, <1>2, <1>4, <1>6, <1>7, <1>8, <1>9, <1>10 DEF WorkerStep, WorkerLocal

\* What the listener hears is no step of a task.
LEMMA ListenSimulates ==
  ASSUME TypeOK, TaskInv, Placement, TaskInv', Placement',
         NEW w \in Worker, RequestHandled(w) \/ WorkerFinished(w)
  PROVE  UNCHANGED Promise!vars
<1>1. /\ UNCHANGED <<sent, dReq, queue, result, wCount, reqClosed, tearDown, panicked>>
      /\ (lPc' = "done") = (lPc = "done")
      /\ \A v \in Worker : v # w => wPc'[v] = wPc[v] /\ wReq'[v] = wReq[v]
  BY DEF RequestHandled, WorkerFinished, clientVars, dispVars, chanVars, TypeOK
<1>2. \A r : Waits(r)' <=> Waits(r)
  BY <1>1 DEF Waits
<1>3. wReq'[w] = NoRequest
  <2>1. CASE RequestHandled(w)
    BY <2>1 DEF RequestHandled, TypeOK
  <2>2. CASE WorkerFinished(w)
    BY <2>2 DEF WorkerFinished, TaskInv, HeldOnce, InAHand
  <2> QED
    BY <2>1, <2>2
<1>4. \A r \in Request : r # wReq[w] =>
        TaskState(r)' = TaskState(r) /\ TaskTries(r)' = TaskTries(r)
  BY <1>1, <1>2, <1>3, OtherTasks, RequestFacts
<1>5. ASSUME NEW q \in Request, q = wReq[w]
      PROVE  TaskState(q)' = TaskState(q) /\ TaskTries(q)' = TaskTries(q)
  <2>1. wPc[w] = "handled"
    BY <1>5, RequestFacts DEF RequestHandled, WorkerFinished, TaskInv, HeldOnce, InAHand
  <2>2. result[q] # "none" /\ wCount[w] = 0
    BY <1>5, <2>1 DEF TaskInv, HeldOnce, CountFresh
  <2>3. /\ \A v \in Worker : v # w => wReq[v] # q
        /\ dReq # q /\ \A v \in Worker : q \notin Members(queue[v])
    BY <1>5, RequestFacts DEF TaskInv, HeldOnce, QueuedOnce
  <2>4. Nowhere(q)'
    BY <1>1, <1>3, <2>3, RequestFacts DEF Nowhere, Waits
  <2> QED
    BY <1>1, <1>5, <2>1, <2>2, <2>4 DEF Placement
<1> QED
  BY <1>1, <1>4, <1>5, NoneMoves

\* Every step of the balancer is a step of TaskPool or none.
LEMMA StepSimulates ==
  ASSUME TypeOK, DispatcherHolds, TaskInv, Placement, TaskInv', Placement',
         [BalancerNext]_balancerVars
  PROVE  [Promise!Next]_Promise!vars
<1>1. CASE UNCHANGED balancerVars
  <2>1. UNCHANGED <<sent, dReq, queue, wPc, wReq, wCount, result, reqClosed, tearDown, panicked, lPc>>
    BY <1>1 DEF balancerVars, clientVars, dispVars, chanVars, listenVars, workVars
  <2> QED
    BY <2>1, QuietTasks, NoneMoves
<1>2. CASE BalancerNext
  BY <1>2, QuietSimulates, DispatchSimulates, WorkSimulates, ListenSimulates
     DEF BalancerNext, Client, Dispatcher, Listener
<1> QED
  BY <1>1, <1>2

\* Before the first request no task has been submitted.
LEMMA InitSimulates ==
  ASSUME BalancerInit, TypeOK, TaskInv, Placement
  PROVE  Promise!Init
<1>1. ASSUME NEW r \in Request PROVE TaskState(r) = "unsent" /\ TaskTries(r) = 0
  <2>1. r \in Nat /\ r # NoRequest /\ sent = 0 /\ ~(r <= sent)
    BY RequestFacts DEF BalancerInit, NoRequest
  <2>2. \A w \in Worker : Members(queue[w]) = {}
    BY DEF BalancerInit, Members
  <2>3. Nowhere(r) /\ result[r] = "none"
    BY <2>1, <2>2 DEF Nowhere, Waits, BalancerInit
  <2> QED
    BY <2>1, <2>3 DEF Placement
<1> QED
  BY <1>1 DEF Promise!Init, BalancerInit

\* The balancer does what TaskPool promises to its client: a request is run
\* by one worker at a time, at most MaxRetryCount times again, until it is
\* resolved; none is lost or dropped unless the workers are torn down, none
\* is started after that, and the end is announced when all are resolved.
THEOREM BalancerImplementsTaskPool == BalancerSpec => ImplementsTaskPool
<1>1. TypeOK /\ TaskInv => Placement
  BY PlacesTell
<1>2. BalancerInit /\ TypeOK /\ TaskInv /\ Placement => Promise!Init
  BY InitSimulates
<1>3. /\ TypeOK /\ DispatcherHolds /\ TaskInv /\ Placement
      /\ (TaskInv /\ Placement)'
      /\ [BalancerNext]_balancerVars
      => [Promise!Next]_Promise!vars
  BY StepSimulates
<1> QED
  BY <1>1, <1>2, <1>3, TaskInvariant, PTL DEF BalancerSpec, ImplementsTaskPool, Promise!Spec

-----------------------------------------------------------------------------
(* Upload.                                                                 *)

Ended == {"close", "result", "returned"}
InError == {wReq[w] : w \in {v \in Worker : wPc[v] = "error"}}

\* Upload closes the tracker when the balancer has signalled the end.
EndInv ==
  /\ uPc \in Ended => lPc = "done"
  /\ bytesClosed => uPc \in {"result", "returned"}
  /\ ret # "none" => uPc = "returned"

\* Without an error of the stream every range is sent, and nobody is torn
\* down.
SentInv ==
  /\ gNext \in Nat
  /\ gNext = IF uPc = "send" THEN sent + 2 ELSE sent + 1
  /\ gPc = "data" => gNext <= NumRequests
  /\ gPc = "closed" => gNext > NumRequests
  /\ tearDown \/ uPc = "teardown" \/ gPc = "done" => err = TRUE
  /\ uPc \in {"wait"} \cup Ended => err = TRUE \/ sent = NumRequests
  /\ ret = "nil" => err # TRUE

\* A block that failed is in the hand of a worker that has not reported it,
\* or it is the one that the listener has not recorded yet.
FailedInv ==
  err # TRUE /\ allWorkSucceeded = TRUE =>
    /\ ePc = "recv" => Failed \subseteq InError
    /\ \E x \in Request \cup {NoRequest} : Failed \subseteq InError \cup {x}

UploadInv == EndInv /\ SentInv /\ FailedInv /\ NilMissesAtMostOne

-----------------------------------------------------------------------------
(* The balancer inside Upload.                                             *)

\* Upload starts with a balancer that has just been made.
LEMMA UploadStarts ==
  ASSUME UploadInit
  PROVE  BalancerInit
BY DEF UploadInit

\* Every step of Upload is a step of the balancer, or leaves it alone.
LEMMA UploadStepIsBalancers ==
  ASSUME [UploadNext]_vars
  PROVE  [BalancerNext]_balancerVars
<1>1. CASE UNCHANGED vars
  BY <1>1 DEF vars
<1>2. CASE ReadRange \/ CloseData \/ RecvData \/ CloseProgress \/ Return \/ ErrorSet \/ CountStep
  BY <1>2 DEF ReadRange, CloseData, RecvData, CloseProgress, Return, ErrorSet, CountStep
<1>3. CASE ~panicked /\ (SendWork \/ RecvDataClosed \/ RecvReadError \/ TearDown \/ WaitFinished)
  BY <1>3 DEF SendWork, RecvDataClosed, RecvReadError, TearDown, WaitFinished, BalancerNext, Client
<1>4. ASSUME NEW w \in Worker, ~panicked, BlockWritten(w) \/ ErrorRecv(w) \/ WorkerLocal(w)
      PROVE  BalancerNext
  <2>1. WorkerStep(w)
    BY <1>4 DEF BlockWritten, ErrorRecv, WorkerStep
  <2> QED
    BY <1>4, <2>1 DEF BalancerNext
<1>5. CASE ~panicked /\ (Dispatcher \/ Listener)
  BY <1>5 DEF BalancerNext
<1>6. ASSUME NEW w \in Worker, WriteRange(w) PROVE UNCHANGED balancerVars
  BY <1>6 DEF WriteRange
<1> QED
  BY <1>1, <1>2, <1>3, <1>4, <1>5, <1>6 DEF UploadNext, UploadCore, WorkStep, Main

\* So the balancer's invariant holds in Upload.
LEMMA BalancerInUpload == UploadSpec => [](TypeOK /\ DispatcherHolds /\ TaskInv)
<1>1. UploadInit => TypeOK /\ DispatcherHolds /\ TaskInv
  BY UploadStarts, TypeInit, TaskInit
<1>2. TypeOK /\ DispatcherHolds /\ TaskInv /\ [UploadNext]_vars
      => (TypeOK /\ DispatcherHolds /\ TaskInv)'
  BY UploadStepIsBalancers, TypeStep, TaskStep
<1> QED
  BY <1>1, <1>2, PTL DEF UploadSpec

-----------------------------------------------------------------------------
(* The end of Upload.                                                      *)

\* What the goroutines of the balancer leave to Upload and its client.
LEMMA GoroutineFrame ==
  ASSUME UploadCore
  PROVE  \/ ReadRange \/ CloseData \/ Main \/ ErrorSet
         \/ /\ UNCHANGED <<clientVars, gPc, gNext, uPc, err, allWorkSucceeded, ret, bytesClosed>>
            /\ lPc = "done" => lPc' = "done"
<1>1. ASSUME NEW w \in Worker, BlockWritten(w) \/ ErrorRecv(w) \/ (WorkerLocal(w) /\ Idle)
      PROVE  UNCHANGED <<clientVars, gPc, gNext, uPc, err, allWorkSucceeded, ret, bytesClosed, lPc>>
  <2>1. WorkerStep(w)
    BY <1>1 DEF BlockWritten, ErrorRecv, WorkerStep
  <2>2. UNCHANGED <<clientVars, lPc>>
    BY <2>1, WorkerFrame DEF listenVars
  <2> QED
    BY <1>1, <2>2 DEF BlockWritten, ErrorRecv, Idle, Report, uploadVars, progressVars
<1>2. CASE Dispatcher /\ Idle
  <2>1. UNCHANGED <<clientVars, lPc>>
    BY <1>2 DEF Dispatcher, RecvClosed, PollLoad, PollRead, DispatchLock, DispatchFix, DispatchSend, CloseNext,
       CloseDone, listenVars
  <2> QED
    BY <1>2, <2>1 DEF Idle, uploadVars, progressVars
<1>3. CASE Listener /\ Idle
  <2>1. UNCHANGED clientVars /\ lPc # "done"
    BY <1>3 DEF Listener, RequestHandled, CompletedLock, CompletedFix, WorkerFinished
  <2> QED
    BY <1>3, <2>1 DEF Idle, uploadVars, progressVars
<1>4. ASSUME NEW w \in Worker, WriteRange(w)
      PROVE  UNCHANGED <<clientVars, gPc, gNext, uPc, err, allWorkSucceeded, ret, bytesClosed, lPc>>
  BY <1>4 DEF WriteRange, balancerVars, listenVars, uploadVars, progressVars
<1> QED
  BY <1>1, <1>2, <1>3, <1>4 DEF UploadCore, WorkStep

\* The tracker is closed after the end; without an error all is sent.
LEMMA EndStep ==
  ASSUME TypeOK, EndInv, SentInv, [UploadNext]_vars
  PROVE  EndInv' /\ SentInv'
<1> USE DEF EndInv, SentInv, Ended
<1>0. sent \in Nat /\ NumRequests \in Nat /\ sent <= NumRequests
  BY BalancerAssumption DEF TypeOK
<1>1. CASE UNCHANGED vars
  BY <1>1 DEF vars, balancerVars, clientVars, listenVars, progressVars, uploadVars
<1>2. CASE ReadRange \/ CloseData \/ ErrorSet
  <2>1. /\ UNCHANGED <<sent, tearDown, lPc, bytesClosed, gNext, uPc, err, ret>>
        /\ gPc' # gPc => gPc = "read"
        /\ gPc' = "data" /\ gPc' # gPc => gNext <= NumRequests
        /\ gPc' = "closed" /\ gPc' # gPc => gNext > NumRequests
        /\ gPc' = "done" => gPc = "done"
    BY <1>2 DEF ReadRange, CloseData, ErrorSet, balancerVars, clientVars, listenVars, progressVars
  <2>2. EndInv'
    BY <2>1
  <2> QED
    BY <1>0, <2>1, <2>2
<1>3. CASE RecvData
  <2>1. /\ UNCHANGED <<sent, tearDown, lPc, bytesClosed, err, ret>>
        /\ uPc = "select" /\ uPc' = "send" /\ gPc = "data" /\ gPc' = "read" /\ gNext' = gNext + 1
    BY <1>3 DEF RecvData, balancerVars, clientVars, listenVars, progressVars
  <2>2. EndInv'
    BY <2>1
  <2>3. gNext' \in Nat /\ gNext' = sent' + 2
    BY <1>0, <2>1
  <2>4. (tearDown \/ uPc = "teardown" \/ gPc = "done" => err = TRUE)'
    BY <2>1
  <2> QED
    BY <2>1, <2>2, <2>3, <2>4
<1>4. CASE SendWork
  <2>1. /\ UNCHANGED <<tearDown, lPc, bytesClosed, err, ret, gPc, gNext>>
        /\ uPc = "send" /\ uPc' = "select" /\ sent' = sent + 1
    BY <1>4 DEF SendWork, SendRequest, listenVars, progressVars
  <2>2. EndInv'
    BY <2>1
  <2>3. gNext' \in Nat /\ gNext' = sent' + 1
    BY <1>0, <2>1
  <2>4. (tearDown \/ uPc = "teardown" \/ gPc = "done" => err = TRUE)'
    BY <2>1
  <2>5. (gPc = "data" => gNext <= NumRequests)' /\ (gPc = "closed" => gNext > NumRequests)'
    BY <2>1
  <2> QED
    BY <2>1, <2>2, <2>3, <2>4, <2>5
<1>5. CASE RecvDataClosed
  <2>1. /\ UNCHANGED <<sent, tearDown, lPc, bytesClosed, err, ret, gPc, gNext>>
        /\ uPc = "select" /\ uPc' = "wait" /\ gPc = "closed"
    BY <1>5 DEF RecvDataClosed, CloseRequests, listenVars, progressVars
  <2>2. EndInv'
    BY <2>1
  <2>3. sent = NumRequests
    BY <1>0, <2>1
  <2>4. gNext' \in Nat /\ gNext' = sent' + 1
    BY <1>0, <2>1
  <2>5. (tearDown \/ uPc = "teardown" \/ gPc = "done" => err = TRUE)'
    BY <2>1
  <2>6. (gPc = "data" => gNext <= NumRequests)' /\ (gPc = "closed" => gNext > NumRequests)'
    BY <2>1
  <2> QED
    BY <2>1, <2>2, <2>3, <2>4, <2>5, <2>6
<1>6. CASE RecvReadError
  BY <1>0, <1>6 DEF RecvReadError, CloseRequests, listenVars, progressVars
<1>7. CASE TearDown
  BY <1>0, <1>7 DEF TearDown, TearDownWorkers, listenVars, progressVars
<1>8. CASE WaitFinished
  BY <1>0, <1>8 DEF WaitFinished, AllWorkersFinished, clientVars, progressVars
<1>9. CASE CloseProgress
  BY <1>0, <1>9 DEF CloseProgress, Close, balancerVars, clientVars, listenVars
<1>10. CASE Return
  BY <1>0, <1>10 DEF Return, balancerVars, clientVars, listenVars, progressVars
<1>11. CASE /\ UNCHANGED <<clientVars, gPc, gNext, uPc, err, allWorkSucceeded, ret, bytesClosed>>
            /\ lPc = "done" => lPc' = "done"
  BY <1>0, <1>11 DEF clientVars
<1>12. CASE CountStep
  <2>1. UNCHANGED <<sent, tearDown, lPc, bytesClosed, uploadVars>>
    BY <1>12 DEF CountStep, Receiver, Receive, ReceiveClosed, balancerVars, clientVars, listenVars
  <2> QED
    BY <1>0, <2>1 DEF uploadVars
<1> QED
  BY <1>1, <1>2, <1>3, <1>4, <1>5, <1>6, <1>7, <1>8, <1>9, <1>10, <1>11, <1>12, GoroutineFrame
     DEF UploadNext, Main

-----------------------------------------------------------------------------
(* The blocks that failed.                                                 *)

\* Nothing changes as long as no block fails and no error is reported.
LEMMA FailedFrame ==
  ASSUME FailedInv, Failed' \subseteq Failed, InError \subseteq InError',
         UNCHANGED <<err, allWorkSucceeded, ePc>>
  PROVE  FailedInv'
BY DEF FailedInv

\* A step of one worker that has no error to report.
LEMMA OneWorker ==
  ASSUME TypeOK, NEW w \in Worker, wPc[w] # "error", NEW p, NEW r,
         wPc' = [wPc EXCEPT ![w] = p], wReq' = [wReq EXCEPT ![w] = r]
  PROVE  InError \subseteq InError'
<1> SUFFICES ASSUME NEW v \in Worker, wPc[v] = "error"
             PROVE  wPc'[v] = "error" /\ wReq'[v] = wReq[v]
  BY DEF InError
<1> QED
  BY DEF TypeOK

\* A step of a worker that reports no error fails at most the block that it
\* has in its hand, which is then in error.
LEMMA FailedWorker ==
  ASSUME TypeOK, HeldOnce, NEW w \in Worker, WorkerLocal(w), ~tearDown, FailedInv,
         UNCHANGED <<err, allWorkSucceeded, ePc>>
  PROVE  FailedInv'
<1> USE DEF TypeOK
<1>1. CASE WorkFails(w)
  <2>1. /\ wPc[w] = "running" /\ wReq' = wReq /\ wPc' = [wPc EXCEPT ![w] = "error"]
        /\ result' = [result EXCEPT ![wReq[w]] = "failed"]
    BY <1>1 DEF WorkFails
  <2>2. InError \subseteq InError'
    <3>1. wReq' = [wReq EXCEPT ![w] = wReq[w]]
      BY <2>1
    <3> QED
      BY <2>1, <3>1, OneWorker
  <2>3. wReq[w] \in InError'
    BY <2>1 DEF InError
  <2>4. Failed' \subseteq Failed \cup {wReq[w]}
    BY <2>1 DEF Failed
  <2> QED
    BY <2>2, <2>3, <2>4 DEF FailedInv
<1>2. CASE ~WorkFails(w)
  <2>1. result' = result
    BY <1>2 DEF WorkerLocal, TakeOwn, StartSteal, StealLoad, StealNothing, StealRecv, StealDrained, StartWork,
       WorkRetries, Quit, workVars
  <2>2. InError \subseteq InError'
    <3>1. wPc[w] # "error"
      BY <1>2 DEF WorkerLocal, TakeOwn, StartSteal, StealLoad, StealNothing, StealRecv, StealDrained, StartWork,
         WorkRetries, Quit
    <3>2. \A v \in Worker \ {w} : wPc'[v] = wPc[v] /\ wReq'[v] = wReq[v]
      BY <1>2 DEF WorkerLocal, TakeOwn, StartSteal, StealLoad, StealNothing, StealRecv, StealDrained, StartWork,
         WorkRetries, Quit
    <3> QED
      BY <3>1, <3>2 DEF InError
  <2>3. Failed' = Failed
    BY <2>1 DEF Failed
  <2> QED
    BY <2>2, <2>3, FailedFrame
<1> QED
  BY <1>1, <1>2

\* Every step keeps it.
LEMMA FailedStep ==
  ASSUME TypeOK, TaskInv, SentInv, FailedInv, [UploadNext]_vars
  PROVE  FailedInv'
<1>0. CASE err' = TRUE
  BY <1>0 DEF FailedInv
<1>1. ASSUME UNCHANGED <<workVars, err, allWorkSucceeded, ePc>> PROVE FailedInv'
  BY <1>1 DEF workVars, FailedInv, Failed, InError
<1>2. CASE UNCHANGED vars
  BY <1>1, <1>2 DEF vars, balancerVars, uploadVars
<1>3. CASE ReadRange \/ CloseData \/ RecvData \/ CloseProgress \/ Return \/ CountStep
  BY <1>1, <1>3 DEF ReadRange, CloseData, RecvData, CloseProgress, Return, CountStep, balancerVars, uploadVars
<1>4. CASE SendWork \/ RecvDataClosed \/ TearDown \/ WaitFinished
  BY <1>1, <1>4 DEF SendWork, RecvDataClosed, TearDown, WaitFinished, SendRequest, CloseRequests,
     TearDownWorkers, AllWorkersFinished
<1>5. CASE RecvReadError
  BY <1>0, <1>5 DEF RecvReadError
<1>6. CASE ErrorSet
  BY <1>6 DEF ErrorSet, FailedInv
<1>7. CASE Dispatcher /\ Idle
  BY <1>1, <1>7 DEF Idle, uploadVars, Dispatcher, RecvClosed, PollLoad, PollRead, DispatchLock, DispatchFix,
     DispatchSend, CloseNext, CloseDone
<1>8. CASE Listener /\ Idle
  <2>1. UNCHANGED <<err, allWorkSucceeded, ePc>>
    BY <1>8 DEF Idle, uploadVars
  <2>2. CASE CompletedLock \/ CompletedFix
    BY <1>1, <2>1, <2>2 DEF CompletedLock, CompletedFix
  <2>3. ASSUME NEW w \in Worker, RequestHandled(w) \/ WorkerFinished(w) PROVE FailedInv'
    <3>1. wPc[w] # "error" /\ result' = result
      BY <2>3 DEF RequestHandled, WorkerFinished
    <3>2. \A v \in Worker \ {w} : wPc'[v] = wPc[v] /\ wReq'[v] = wReq[v]
      BY <2>3 DEF RequestHandled, WorkerFinished, TypeOK
    <3>3. InError \subseteq InError' /\ Failed' = Failed
      BY <3>1, <3>2 DEF InError, Failed
    <3> QED
      BY <2>1, <3>3, FailedFrame
  <2> QED
    BY <1>8, <2>2, <2>3 DEF Listener
<1>9. ASSUME NEW w \in Worker, WorkerLocal(w) /\ Idle PROVE FailedInv'
  <2>1. UNCHANGED <<err, allWorkSucceeded, ePc>>
    BY <1>9 DEF Idle, uploadVars
  <2>2. CASE tearDown
    BY <1>0, <2>1, <2>2 DEF SentInv
  <2>3. CASE ~tearDown
    BY <1>9, <2>1, <2>3, FailedWorker DEF TaskInv
  <2> QED
    BY <2>2, <2>3
<1>10. ASSUME NEW w \in Worker, BlockWritten(w) PROVE FailedInv'
  <2>1. /\ wPc[w] = "running" /\ wReq' = wReq /\ wPc' = [wPc EXCEPT ![w] = "handled"]
        /\ result' = [result EXCEPT ![wReq[w]] = "ok"]
        /\ UNCHANGED <<err, allWorkSucceeded, ePc>>
    BY <1>10 DEF BlockWritten, WorkSucceeds, uploadVars
  <2>2. InError \subseteq InError'
    BY <2>1 DEF InError, TypeOK
  <2>3. Failed' \subseteq Failed
    BY <2>1 DEF Failed, TypeOK
  <2> QED
    BY <2>1, <2>2, <2>3, FailedFrame
<1>11. ASSUME NEW w \in Worker, ErrorRecv(w) PROVE FailedInv'
  <2>1. /\ ePc = "recv" /\ ePc' = "set" /\ UNCHANGED <<err, allWorkSucceeded, wReq, result>>
        /\ wPc' = [wPc EXCEPT ![w] = "handled"]
    BY <1>11 DEF ErrorRecv, ReportError
  <2>2. InError \subseteq InError' \cup {wReq[w]} /\ Failed' = Failed /\ wReq[w] \in Request \cup {NoRequest}
    BY <2>1 DEF InError, Failed, TypeOK
  <2> QED
    BY <2>1, <2>2 DEF FailedInv
<1>12. ASSUME NEW w \in Worker, WriteRange(w) PROVE FailedInv'
  BY <1>1, <1>12 DEF WriteRange, balancerVars, uploadVars
<1> QED
  BY <1>2, <1>3, <1>4, <1>5, <1>6, <1>7, <1>8, <1>9, <1>10, <1>11, <1>12
     DEF UploadNext, UploadCore, WorkStep, Main

-----------------------------------------------------------------------------
(* What nil means.                                                         *)

\* Once the balancer has signalled its end no worker is left: none holds an
\* error, and the works have ended.
LEMMA AfterTheEnd ==
  ASSUME TypeOK, DispatcherHolds, TaskInv, EndInv, SentInv, FailedInv, uPc \in Ended,
         err # TRUE, allWorkSucceeded = TRUE
  PROVE  /\ \A r \in Request : result[r] # "none"
         /\ Cardinality(Failed) <= 1
<1>1. FinishedMeansResolved /\ lPc = "done"
  BY EndIsClean DEF EndInv
<1>2. (\A w \in Worker : wPc[w] = "exited") /\ ~tearDown /\ sent = NumRequests
  BY <1>1 DEF FinishedMeansResolved, SentInv
<1>3. \A r \in Request : result[r] # "none"
  BY <1>1, <1>2 DEF FinishedMeansResolved, Request
<1>4. InError = {}
  BY <1>2 DEF InError
<1>5. PICK x \in Request \cup {NoRequest} : Failed \subseteq {x}
  BY <1>4 DEF FailedInv
<1>6. Cardinality({x}) = 1 /\ IsFiniteSet({x})
  BY FS_Singleton
<1>7. Cardinality(Failed) <= 1
  BY <1>5, <1>6, FS_Subset
<1> QED
  BY <1>3, <1>7

\* After the end no work is run, so what is true when Upload returns nil
\* stays so.
LEMMA NilStep ==
  ASSUME TypeOK, DispatcherHolds, TaskInv, EndInv, SentInv, FailedInv, NilMissesAtMostOne, [UploadNext]_vars
  PROVE  NilMissesAtMostOne'
<1>1. CASE ret' = "nil" /\ ret = "nil"
  <2>1. \A w \in Worker : wPc[w] = "exited"
    <3>1. lPc = "done"
      BY <1>1 DEF EndInv, Ended
    <3> QED
      BY <3>1, EndIsClean DEF FinishedMeansResolved
  <2>2. result' = result
    <3>1. [BalancerNext]_balancerVars
      BY UploadStepIsBalancers
    <3>2. ASSUME NEW w \in Worker, WorkerStep(w) PROVE FALSE
      BY <2>1, <3>2 DEF WorkerStep, WorkerLocal, TakeOwn, StartSteal, StealLoad, StealNothing, StealRecv,
         StealDrained, StartWork, WorkSucceeds, WorkRetries, WorkFails, ReportError, Quit
    <3>3. CASE Client
      BY <3>3 DEF Client, SendRequest, CloseRequests, TearDownWorkers, workVars
    <3>4. CASE Dispatcher
      BY <3>4 DEF Dispatcher, RecvClosed, PollLoad, PollRead, DispatchLock, DispatchFix, DispatchSend,
         CloseNext, CloseDone, workVars
    <3>5. CASE Listener \/ AllWorkersFinished
      BY <3>5 DEF Listener, AllWorkersFinished, RequestHandled, WorkerFinished, CompletedLock, CompletedFix,
         workVars
    <3> QED
      BY <3>1, <3>2, <3>3, <3>4, <3>5 DEF BalancerNext, balancerVars, workVars
  <2>3. Failed' = Failed
    BY <2>2 DEF Failed
  <2> QED
    BY <1>1, <2>2, <2>3 DEF NilMissesAtMostOne
<1>2. CASE ret' = "nil" /\ ret # "nil"
  <2>1. Return
    BY <1>2, GoroutineFrame DEF UploadNext, Main, ReadRange, CloseData, RecvData, SendWork, RecvDataClosed,
       RecvReadError, TearDown, WaitFinished, CloseProgress, ErrorSet, CountStep, vars, uploadVars
  <2>2. uPc = "result" /\ allWorkSucceeded = TRUE /\ err # TRUE /\ result' = result
    BY <1>2, <2>1 DEF Return, balancerVars, workVars
  <2>3. /\ \A r \in Request : result[r] # "none"
        /\ Cardinality(Failed) <= 1
    BY <2>2, AfterTheEnd DEF Ended
  <2>4. Failed' = Failed
    BY <2>2 DEF Failed
  <2> QED
    BY <2>2, <2>3, <2>4 DEF NilMissesAtMostOne
<1> QED
  BY <1>1, <1>2 DEF NilMissesAtMostOne

\* Nothing is sent, closed or failed at the start.
LEMMA UploadInvInit ==
  ASSUME UploadInit
  PROVE  UploadInv
<1>1. Failed = {}
  BY DEF UploadInit, BalancerInit, Failed
<1>2. EndInv /\ SentInv
  BY BalancerAssumption DEF UploadInit, BalancerInit, ProgressInit, EndInv, SentInv, Ended
<1>3. FailedInv
  BY <1>1 DEF FailedInv
<1>4. NilMissesAtMostOne
  BY DEF UploadInit, NilMissesAtMostOne
<1> QED
  BY <1>2, <1>3, <1>4 DEF UploadInv

\* The places of Upload fit those of the balancer in every state.
LEMMA UploadInvariant ==
  UploadSpec => [](TypeOK /\ DispatcherHolds /\ TaskInv /\ UploadInv)
<1>1. UploadInit => UploadInv
  BY UploadInvInit
<1>2. TypeOK /\ DispatcherHolds /\ TaskInv /\ UploadInv /\ [UploadNext]_vars => UploadInv'
  BY EndStep, FailedStep, NilStep DEF UploadInv
<1> QED
  BY <1>1, <1>2, BalancerInUpload, PTL DEF UploadSpec

\* ReportBytesProcessedCount sends on a channel that Close closes, and a send
\* on a closed channel panics: Upload closes it only when every worker has
\* returned, whatever was retried, stolen or torn down.
THEOREM ClosedAfterTheWorkers == UploadSpec => []NoReportAfterClose
<1>1. TypeOK /\ DispatcherHolds /\ TaskInv /\ UploadInv => NoReportAfterClose
  <2> SUFFICES ASSUME TypeOK, DispatcherHolds, TaskInv, UploadInv, bytesClosed
               PROVE  \A w \in Worker : wPc[w] = "exited"
    BY DEF NoReportAfterClose
  <2>1. lPc = "done"
    BY DEF UploadInv, EndInv, Ended
  <2> QED
    BY <2>1, EndIsClean DEF FinishedMeansResolved
<1> QED
  BY <1>1, UploadInvariant, PTL

\* An Upload that returns nil has run the work of every range of the disk to
\* its end, and at most one block of all of them has failed: the one whose
\* error the listener has received and not recorded yet.
THEOREM NilMissesOneBlock == UploadSpec => []NilMissesAtMostOne
<1>1. UploadInv => NilMissesAtMostOne
  BY DEF UploadInv
<1> QED
  BY <1>1, UploadInvariant, PTL

-----------------------------------------------------------------------------
(* The bytes of the blocks.                                                *)

Written == {r \in Request : result[r] = "ok"}

\* The tracker counts in numbers, and what it has counted is what was
\* written.
CountInv ==
  /\ bytesChan \in Seq(Nat)
  /\ bytesProcessed \in Nat
  /\ bytesProcessed + SumOf(bytesChan) = Bytes(Written)

\* A worker that is about to report still runs the work of its block, which
\* is in the blob, as is every block that was reported.
BlobInv ==
  /\ stored \subseteq Request
  /\ reporting \subseteq Worker
  /\ \A w \in reporting : wPc[w] = "running" /\ wReq[w] \in stored
  /\ Written \subseteq stored

\* The bytes of some of the blocks, and of one more.
LEMMA BytesFacts ==
  ASSUME NEW blocks \in SUBSET Request
  PROVE  /\ Bytes(blocks) \in Nat
         /\ Bytes({}) = 0
         /\ \A b \in Request \ blocks :
              Length[b] \in Nat /\ Bytes(blocks \cup {b}) = Bytes(blocks) + Length[b]
<1>1. NumRequests \in Nat /\ Block = 1 .. NumRequests /\ Request = 1 .. NumRequests
  BY BalancerAssumption, UploadAssumption DEF Request
<1>2. Length \in [1 .. NumRequests -> Nat]
  BY <1>1, ProgressAssumption
<1> QED
  BY <1>1, <1>2, SumOver DEF Bytes

\* The end of a work is the only step that changes a result.
LEMMA ResultFrame ==
  ASSUME TypeOK, HeldOnce, [UploadNext]_vars,
         \A w \in Worker : ~BlockWritten(w)
  PROVE  Written' = Written
<1>1. CASE result' = result
  BY <1>1 DEF Written
<1>2. CASE UNCHANGED vars
  BY <1>1, <1>2 DEF vars, balancerVars, workVars
<1>3. CASE ReadRange \/ CloseData \/ RecvData \/ CloseProgress \/ Return \/ ErrorSet \/ CountStep
  BY <1>1, <1>3 DEF ReadRange, CloseData, RecvData, CloseProgress, Return, ErrorSet, CountStep,
     balancerVars, workVars
<1>4. CASE SendWork \/ RecvDataClosed \/ RecvReadError \/ TearDown \/ WaitFinished
  BY <1>1, <1>4 DEF SendWork, RecvDataClosed, RecvReadError, TearDown, WaitFinished, SendRequest,
     CloseRequests, TearDownWorkers, AllWorkersFinished, workVars
<1>5. CASE Dispatcher \/ Listener
  BY <1>1, <1>5 DEF Dispatcher, RecvClosed, PollLoad, PollRead, DispatchLock, DispatchFix, DispatchSend,
     CloseNext, CloseDone, Listener, RequestHandled, WorkerFinished, CompletedLock, CompletedFix, workVars
<1>6. ASSUME NEW w \in Worker, ErrorRecv(w) \/ WorkerLocal(w) PROVE Written' = Written
  <2>1. CASE WorkFails(w)
    <3>1. wPc[w] = "running" /\ result' = [result EXCEPT ![wReq[w]] = "failed"] /\ result[wReq[w]] = "none"
      BY <2>1 DEF WorkFails, HeldOnce
    <3> QED
      BY <3>1 DEF Written, TypeOK
  <2>2. CASE ~WorkFails(w)
    BY <1>1, <1>6, <2>2 DEF ErrorRecv, ReportError, WorkerLocal, TakeOwn, StartSteal, StealLoad, StealNothing,
       StealRecv, StealDrained, StartWork, WorkRetries, Quit, workVars
  <2> QED
    BY <2>1, <2>2
<1>7. ASSUME NEW w \in Worker, WriteRange(w) PROVE Written' = Written
  BY <1>1, <1>7 DEF WriteRange, balancerVars, workVars
<1> QED
  BY <1>2, <1>3, <1>4, <1>5, <1>6, <1>7 DEF UploadNext, UploadCore, WorkStep, Main

\* The channel and the sum change only when a block is written and when the
\* receiver takes a count.
LEMMA TrackerFrame ==
  ASSUME [UploadNext]_vars, \A w \in Worker : ~BlockWritten(w), ~Receive
  PROVE  UNCHANGED <<bytesChan, bytesProcessed>>
<1>1. CASE UNCHANGED progressVars
  BY <1>1 DEF progressVars
<1>2. CASE UNCHANGED vars
  BY <1>1, <1>2 DEF vars
<1>3. CASE ReadRange \/ CloseData \/ RecvData \/ Return \/ ErrorSet
  BY <1>1, <1>3 DEF ReadRange, CloseData, RecvData, Return, ErrorSet
<1>4. CASE SendWork \/ RecvDataClosed \/ RecvReadError \/ TearDown \/ WaitFinished
  BY <1>1, <1>4 DEF SendWork, RecvDataClosed, RecvReadError, TearDown, WaitFinished
<1>5. CASE CloseProgress
  BY <1>5 DEF CloseProgress, Close
<1>6. CASE CountStep
  BY <1>6 DEF CountStep, Receiver, ReceiveClosed
<1>7. CASE Idle
  BY <1>1, <1>7 DEF Idle
<1>8. ASSUME NEW w \in Worker, ErrorRecv(w) PROVE UNCHANGED <<bytesChan, bytesProcessed>>
  BY <1>1, <1>8 DEF ErrorRecv
<1>9. ASSUME NEW w \in Worker, WriteRange(w) PROVE UNCHANGED <<bytesChan, bytesProcessed>>
  BY <1>1, <1>9 DEF WriteRange
<1> QED
  BY <1>2, <1>3, <1>4, <1>5, <1>6, <1>7, <1>8, <1>9 DEF UploadNext, UploadCore, WorkStep, Main

\* Every step keeps the count.
LEMMA CountKept ==
  ASSUME TypeOK, HeldOnce, CountInv, [UploadNext]_vars
  PROVE  CountInv'
<1>0. bytesProcessed + SumOf(bytesChan) = Bytes(Written) /\ Written \in SUBSET Request
  BY DEF CountInv, Written
<1>a. SUFFICES /\ bytesChan' \in Seq(Nat) /\ bytesProcessed' \in Nat
               /\ bytesProcessed' + SumOf(bytesChan') = Bytes(Written')
  BY DEF CountInv
<1>1. ASSUME NEW w \in Worker, BlockWritten(w)
      PROVE  /\ bytesChan' \in Seq(Nat) /\ bytesProcessed' \in Nat
             /\ bytesProcessed' + SumOf(bytesChan') = Bytes(Written')
  <2> DEFINE r == wReq[w]
  <2>1. /\ wPc[w] = "running" /\ result' = [result EXCEPT ![r] = "ok"]
        /\ bytesChan' = Append(bytesChan, Length[r]) /\ bytesProcessed' = bytesProcessed
    BY <1>1 DEF BlockWritten, WorkSucceeds, Report
  <2>2. r \in Request /\ result[r] = "none"
    BY <2>1 DEF HeldOnce, InAHand, TypeOK
  <2>3. Written' = Written \cup {r} /\ r \notin Written
    BY <2>1, <2>2 DEF Written, TypeOK
  <2> HIDE DEF r
  <2>4. Length[r] \in Nat /\ Bytes(Written) \in Nat /\ Bytes(Written') = Bytes(Written) + Length[r]
    BY <1>0, <2>2, <2>3, BytesFacts
  <2>5. SumOf(bytesChan) \in Nat /\ SumOf(bytesChan') = SumOf(bytesChan) + Length[r]
    BY <2>1, <2>4, SumAppend DEF CountInv
  <2>6. bytesChan' \in Seq(Nat)
    BY <2>1, <2>4 DEF CountInv
  <2> QED
    BY <1>0, <2>1, <2>4, <2>5, <2>6 DEF CountInv
<1>2. CASE (\A w \in Worker : ~BlockWritten(w)) /\ Receive
  <2>1. Written' = Written
    BY <1>2, ResultFrame
  <2>2. bytesChan \in Seq(Nat) /\ bytesChan # << >> /\ bytesProcessed \in Nat
    BY <1>2 DEF CountInv, Receive
  <2>3. Head(bytesChan) \in Nat /\ Tail(bytesChan) \in Seq(Nat)
    BY <2>2
  <2>4. SumOf(bytesChan) = Head(bytesChan) + SumOf(Tail(bytesChan)) /\ SumOf(Tail(bytesChan)) \in Nat
    BY <2>2, <2>3, SumTail, SumAppend
  <2>5. bytesProcessed' = bytesProcessed + Head(bytesChan) /\ bytesChan' = Tail(bytesChan)
    BY <1>2 DEF Receive
  <2> QED
    BY <1>0, <2>1, <2>2, <2>3, <2>4, <2>5
<1>3. CASE (\A w \in Worker : ~BlockWritten(w)) /\ ~Receive
  BY <1>0, <1>3, ResultFrame, TrackerFrame DEF CountInv
<1> QED
  BY <1>1, <1>2, <1>3

\* A worker that is about to report is left alone by every step but its own
\* report.
LEMMA ReporterFrame ==
  ASSUME TypeOK, BlobInv, [UploadNext]_vars, NEW v \in reporting,
         \A w \in Worker : ~BlockWritten(w)
  PROVE  wPc'[v] = wPc[v] /\ wReq'[v] = wReq[v]
<1>0. v \in Worker /\ wPc[v] = "running"
  BY DEF BlobInv
<1>1. CASE UNCHANGED workVars
  BY <1>1 DEF workVars
<1>2. CASE UNCHANGED balancerVars
  BY <1>1, <1>2 DEF balancerVars
<1>3. CASE ReadRange \/ CloseData \/ RecvData \/ CloseProgress \/ Return \/ ErrorSet \/ CountStep
  BY <1>2, <1>3 DEF ReadRange, CloseData, RecvData, CloseProgress, Return, ErrorSet, CountStep
<1>4. CASE SendWork \/ RecvDataClosed \/ RecvReadError \/ TearDown \/ WaitFinished
  BY <1>1, <1>4 DEF SendWork, RecvDataClosed, RecvReadError, TearDown, WaitFinished, SendRequest,
     CloseRequests, TearDownWorkers, AllWorkersFinished
<1>5. CASE Dispatcher
  BY <1>1, <1>5 DEF Dispatcher, RecvClosed, PollLoad, PollRead, DispatchLock, DispatchFix, DispatchSend,
     CloseNext, CloseDone
<1>6. CASE Listener
  <2>1. CASE CompletedLock \/ CompletedFix
    BY <1>1, <2>1 DEF CompletedLock, CompletedFix
  <2>2. ASSUME NEW w \in Worker, RequestHandled(w) \/ WorkerFinished(w)
        PROVE  wPc'[v] = wPc[v] /\ wReq'[v] = wReq[v]
    <3>1. w # v
      BY <1>0, <2>2 DEF RequestHandled, WorkerFinished
    <3> QED
      BY <1>0, <2>2, <3>1 DEF RequestHandled, WorkerFinished, TypeOK
  <2> QED
    BY <1>6, <2>1, <2>2 DEF Listener
<1>7. ASSUME NEW w \in Worker, ErrorRecv(w) PROVE wPc'[v] = wPc[v] /\ wReq'[v] = wReq[v]
  <2>1. w # v
    BY <1>0, <1>7 DEF ErrorRecv, ReportError
  <2> QED
    BY <1>0, <1>7, <2>1 DEF ErrorRecv, ReportError, TypeOK
<1>8. ASSUME NEW w \in Worker, w \notin reporting, WorkerLocal(w)
      PROVE  wPc'[v] = wPc[v] /\ wReq'[v] = wReq[v]
  <2>1. w # v
    BY <1>8
  <2>2. (\E p : wPc' = [wPc EXCEPT ![w] = p]) /\ (wReq' = wReq \/ \E r : wReq' = [wReq EXCEPT ![w] = r])
    BY <1>8 DEF WorkerLocal, TakeOwn, StartSteal, StealLoad, StealNothing, StealRecv, StealDrained, StartWork,
       WorkRetries, WorkFails, Quit
  <2> QED
    BY <1>0, <2>1, <2>2 DEF TypeOK
<1>9. ASSUME NEW w \in Worker, WriteRange(w) PROVE wPc'[v] = wPc[v] /\ wReq'[v] = wReq[v]
  BY <1>2, <1>9 DEF WriteRange
<1> QED
  BY <1>2, <1>3, <1>4, <1>5, <1>6, <1>7, <1>8, <1>9 DEF UploadNext, UploadCore, WorkStep, Main, vars

\* Only WriteRange and the report change the blob and the reporters.
LEMMA BlobFrame ==
  ASSUME [UploadNext]_vars,
         \A w \in Worker : ~BlockWritten(w) /\ ~WriteRange(w)
  PROVE  stored' = stored /\ reporting' = reporting
BY DEF UploadNext, UploadCore, WorkStep, Main, vars, Idle, ReadRange, CloseData, RecvData, SendWork,
   RecvDataClosed, RecvReadError, TearDown, WaitFinished, CloseProgress, Return, ErrorSet, ErrorRecv, CountStep,
   blobVars

\* Every step keeps what is known of the blob.
LEMMA BlobKept ==
  ASSUME TypeOK, HeldOnce, BlobInv, [UploadNext]_vars
  PROVE  BlobInv'
<1>1. ASSUME NEW w \in Worker, BlockWritten(w) PROVE BlobInv'
  <2>1. /\ w \in reporting /\ stored' = stored /\ reporting' = reporting \ {w}
        /\ wReq' = wReq /\ wPc' = [wPc EXCEPT ![w] = "handled"]
        /\ result' = [result EXCEPT ![wReq[w]] = "ok"]
    BY <1>1 DEF BlockWritten, WorkSucceeds
  <2>2. Written' \subseteq Written \cup {wReq[w]}
    BY <2>1 DEF Written, TypeOK
  <2>3. \A v \in reporting' : wPc'[v] = wPc[v] /\ wReq'[v] = wReq[v]
    BY <2>1 DEF BlobInv, TypeOK
  <2> QED
    BY <2>1, <2>2, <2>3 DEF BlobInv
<1>2. ASSUME NEW w \in Worker, WriteRange(w), \A v \in Worker : ~BlockWritten(v) PROVE BlobInv'
  <2>1. /\ wPc[w] = "running" /\ stored' = stored \cup {wReq[w]}
        /\ reporting' \subseteq reporting \cup {w}
        /\ UNCHANGED <<wPc, wReq>>
    BY <1>2 DEF WriteRange, balancerVars, workVars
  <2>2. wReq[w] \in Request
    BY <2>1 DEF HeldOnce, InAHand, TypeOK
  <2>3. Written' = Written
    BY <1>2, ResultFrame
  <2> QED
    BY <2>1, <2>2, <2>3 DEF BlobInv
<1>3. CASE \A w \in Worker : ~BlockWritten(w) /\ ~WriteRange(w)
  <2>1. Written' = Written /\ stored' = stored /\ reporting' = reporting
    BY <1>3, ResultFrame, BlobFrame
  <2>2. \A v \in reporting : wPc'[v] = wPc[v] /\ wReq'[v] = wReq[v]
    BY <1>3, ReporterFrame
  <2> QED
    BY <2>1, <2>2 DEF BlobInv
<1> QED
  BY <1>1, <1>2, <1>3

\* So it holds in Upload.
LEMMA BlobInUpload == UploadSpec => []BlobInv
<1>1. UploadInit => BlobInv
  BY DEF UploadInit, BalancerInit, BlobInv, Written
<1>2. TypeOK /\ TaskInv /\ BlobInv /\ [UploadNext]_vars => BlobInv'
  BY BlobKept DEF TaskInv
<1> QED
  BY <1>1, <1>2, BalancerInUpload, PTL DEF UploadSpec

\* The bytes of a block are reported once, by the worker whose WriteRange has
\* returned nil, and by no other: whatever was retried, stolen or torn down,
\* the progress is the bytes of blocks that are in the blob.
THEOREM WrittenIsCountedOnce == UploadSpec => []WrittenBytesCounted
<1>1. UploadInit => CountInv
  <2> SUFFICES ASSUME UploadInit PROVE CountInv
    OBVIOUS
  <2>1. bytesChan = << >> /\ bytesProcessed = 0 /\ Written = {}
    BY DEF UploadInit, BalancerInit, ProgressInit, Written
  <2>2. << >> \in Seq(Nat) /\ 0 \in Nat
    OBVIOUS
  <2>3. SumOf(<< >>) = 0
    BY <2>2, SumAppend
  <2>4. Bytes({}) = 0
    BY BytesFacts
  <2> QED
    BY <2>1, <2>2, <2>3, <2>4 DEF CountInv
<1>2. TypeOK /\ TaskInv /\ CountInv /\ [UploadNext]_vars => CountInv'
  BY CountKept DEF TaskInv
<1>3. CountInv /\ BlobInv => WrittenBytesCounted
  BY DEF CountInv, BlobInv, WrittenBytesCounted, Written
<1> QED
  BY <1>1, <1>2, <1>3, BalancerInUpload, BlobInUpload, PTL DEF UploadSpec

-----------------------------------------------------------------------------
\* What Upload has of the balancer is what TaskPool promises: each block is
\* written by one worker at a time and tried again at most MaxRetryCount
\* times, none is lost or started after the tear-down, and Upload is told of
\* the end when every block is resolved.
THEOREM UploadUsesATaskPool == UploadSpec => ImplementsTaskPool
<1>1. TypeOK /\ TaskInv => Placement
  BY PlacesTell
<1>2. UploadInit /\ TypeOK /\ TaskInv /\ Placement => Promise!Init
  BY UploadStarts, InitSimulates
<1>3. /\ TypeOK /\ DispatcherHolds /\ TaskInv /\ Placement
      /\ (TaskInv /\ Placement)'
      /\ [UploadNext]_vars
      => [Promise!Next]_Promise!vars
  BY UploadStepIsBalancers, StepSimulates
<1> QED
  BY <1>1, <1>2, <1>3, BalancerInUpload, PTL DEF UploadSpec, ImplementsTaskPool, Promise!Spec

-----------------------------------------------------------------------------
\* The tracker's types in Upload, whose sender and consumer stand still.
LEMMA TrackerTypes ==
  ASSUME TypeOK, HeldOnce, ProgressTypeOK, [UploadNext]_vars
  PROVE  ProgressTypeOK'
<1> USE DEF ProgressTypeOK
<1>1. CASE UNCHANGED progressVars
  BY <1>1 DEF progressVars
<1>2. ASSUME NEW w \in Worker, BlockWritten(w) PROVE ProgressTypeOK'
  <2>1. wReq[w] \in Request
    BY <1>2 DEF BlockWritten, WorkSucceeds, HeldOnce, InAHand, TypeOK
  <2>2. Length[wReq[w]] \in Nat
    BY <2>1, UploadAssumption, ProgressAssumption
  <2>3. Append(bytesChan, Length[wReq[w]]) \in Seq(Nat)
    BY <2>2
  <2> QED
    BY <1>2, <2>3 DEF BlockWritten, Report, recordVars
<1>3. CASE Receive
  <2>1. Head(bytesChan) \in Nat /\ Tail(bytesChan) \in Seq(Nat)
    BY <1>3 DEF Receive
  <2> QED
    BY <1>3, <2>1 DEF Receive, recordVars
<1>4. CASE ReceiveClosed
  BY <1>4 DEF ReceiveClosed, recordVars
<1>5. CASE CloseProgress
  BY <1>5 DEF CloseProgress, Close, recordVars
<1> QED
  BY <1>1, <1>2, <1>3, <1>4, <1>5 DEF UploadNext, UploadCore, WorkStep, Main, CountStep, Receiver, vars, Idle,
     ReadRange, CloseData, RecvData, SendWork, RecvDataClosed, RecvReadError, TearDown, WaitFinished, Return,
     ErrorSet, WriteRange, ErrorRecv

\* The places of Upload's own goroutines.
Places ==
  /\ gPc \in {"read", "data", "error", "closed", "done"}
  /\ gNext \in 1 .. NumRequests + 1
  /\ uPc \in {"select", "send", "teardown", "wait", "close", "result", "returned"}
  /\ err \in BOOLEAN
  /\ ePc \in {"recv", "set"}
  /\ allWorkSucceeded \in BOOLEAN
  /\ ret \in {"none", "nil", "read error", "incomplete"}

\* Every step keeps them: there is a range to read whenever one was read.
LEMMA PlacesStep ==
  ASSUME SentInv, Places, [UploadNext]_vars
  PROVE  Places'
<1> USE DEF Places
<1>0. NumRequests \in Nat
  BY BalancerAssumption
<1>1. CASE UNCHANGED uploadVars
  BY <1>1 DEF uploadVars
<1>2. CASE ReadRange \/ CloseData \/ ErrorSet
  BY <1>2 DEF ReadRange, CloseData, ErrorSet
<1>3. CASE RecvData
  <2>1. gPc = "data" /\ gNext' = gNext + 1
    BY <1>3 DEF RecvData
  <2>2. gNext <= NumRequests
    BY <2>1 DEF SentInv
  <2>3. gNext \in 1 .. NumRequests + 1
    OBVIOUS
  <2>4. gNext' \in 1 .. NumRequests + 1
    <3> HIDE DEF Places
    <3>1. \A n \in 1 .. NumRequests + 1 : n <= NumRequests => n + 1 \in 1 .. NumRequests + 1
      BY <1>0
    <3> QED
      BY <2>1, <2>2, <2>3, <3>1
  <2> QED
    BY <1>3, <2>4 DEF RecvData
<1>4. CASE SendWork \/ RecvDataClosed \/ RecvReadError \/ TearDown \/ WaitFinished \/ CloseProgress
  BY <1>4 DEF SendWork, RecvDataClosed, RecvReadError, TearDown, WaitFinished, CloseProgress
<1>5. CASE Return
  BY <1>5 DEF Return
<1>6. ASSUME NEW w \in Worker, ErrorRecv(w) PROVE Places'
  BY <1>6 DEF ErrorRecv
<1> QED
  BY <1>1, <1>2, <1>3, <1>4, <1>5, <1>6
     DEF UploadNext, UploadCore, WorkStep, Main, CountStep, vars, Idle, WriteRange, BlockWritten

\* Every variable of Upload, of its balancer and of its tracker keeps its
\* type; the goroutine of GetDataWithRanges reads no range past the last.
THEOREM UploadTypeCorrect == UploadSpec => []UploadTypeOK
<1>1. UploadInit => ProgressTypeOK /\ Places
  <2> SUFFICES ASSUME UploadInit PROVE ProgressTypeOK /\ Places
    OBVIOUS
  <2>1. bytesChan \in Seq(Nat)
    BY DEF UploadInit, ProgressInit
  <2>2. bytesClosed \in BOOLEAN
    BY DEF UploadInit, ProgressInit
  <2>3. ProgressTypeOK
    BY <2>1, <2>2 DEF UploadInit, ProgressInit, ProgressTypeOK
  <2>4. gNext \in 1 .. NumRequests + 1
    BY BalancerAssumption DEF UploadInit
  <2>5. err \in BOOLEAN /\ allWorkSucceeded \in BOOLEAN
    BY DEF UploadInit
  <2>6. Places
    BY <2>4, <2>5 DEF UploadInit, Places
  <2> QED
    BY <2>3, <2>6
<1>2. TypeOK /\ TaskInv /\ UploadInv /\ ProgressTypeOK /\ Places /\ [UploadNext]_vars
      => (ProgressTypeOK /\ Places)'
  BY TrackerTypes, PlacesStep DEF TaskInv, UploadInv
<1>3. TypeOK /\ ProgressTypeOK /\ Places /\ BlobInv => UploadTypeOK
  BY DEF Places, BlobInv, UploadTypeOK
<1> QED
  BY <1>1, <1>2, <1>3, UploadInvariant, BlobInUpload, PTL DEF UploadSpec

=============================================================================
