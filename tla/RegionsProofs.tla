--------------------------- MODULE RegionsProofs ---------------------------
(***************************************************************************)
(* The lists of regions that the clients of an account share are as new as *)
(* the caches promise, for any number of clients, any expiry and any       *)
(* longest request; and Huawei's clients keep their regions apart for as   *)
(* long as they do not meet in fetchRegions.                               *)
(***************************************************************************)
EXTENDS MCRegions, SequenceTheorems, TLAPS

Time    == Nat \cup {None}
Outside == {"idle", "returned", "failed", "panicked"}
Inside  == {"test", "request", "answer", "storeTime", "load", "filter", "client", "ecs"}

\* Who is in fetchRegions called it at most one request ago, and a list was
\* given within the call that asked for it.
Clocks ==
  /\ now \in Nat
  /\ pc \in [Clients -> Outside \cup Inside]
  /\ began \in [Clients -> Time]
  /\ got \in [Clients -> Time]
  /\ \A c \in Clients :
       /\ pc[c] \in Inside => began[c] \in Nat /\ began[c] <= now /\ now <= began[c] + CallTime
       /\ pc[c] \in {"answer", "storeTime"} => got[c] \in Nat /\ began[c] <= got[c] /\ got[c] <= now
       /\ pc[c] = "test" => now = began[c]

\* There is a list, and it is as new as one stored at time t.
ListFrom(t) ==
  /\ t <= now
  /\ describeRegionResult # None
  /\ describeRegionResult >= t - CallTime

\* Every time that is or was in the cache is the time of a list, although
\* list and time are stored one after the other by several clients.
AwsInv ==
  provider = "aws" =>
    /\ describeRegionResult \in Time
    /\ describeRegionResultCacheAt \in Time
    /\ cacheTime \in [Clients -> Time]
    /\ iregions \in [Clients -> Time]
    /\ describeRegionResultCacheAt # None => ListFrom(describeRegionResultCacheAt)
    /\ \A c \in Clients :
         /\ cacheTime[c] # None => ListFrom(cacheTime[c])
         /\ pc[c] = "storeTime" => ListFrom(now)
         /\ pc[c] = "load" => /\ describeRegionResult # None
                              /\ describeRegionResult >= began[c] - describeRegionExpireHours - CallTime

\* The cached list expires Expire after it was given, or later, and who is
\* about to load it finds one.
HuaweiInv ==
  provider = "huawei" =>
    /\ cache \in [at : Time, slice : Nat, expireAt : Int]
    /\ cache.at # None => cache.at + Expire <= cache.expireAt /\ Expire <= cache.expireAt
    /\ \A c \in Clients : pc[c] = "load" => cache.at # None

-----------------------------------------------------------------------------
(* Who writes to which list.                                               *)

Entry == [client : Clients \cup {Nobody}, ecsClient : Clients \cup {Nobody}]
List  == [Region -> Entry]

\* A client without regions fetches them first; one without a project then
\* works on their slice itself.
SliceOf(c) ==
  /\ pc[c] \notin {"test", "storeTime", "panicked"}
  /\ regions[c].slice <= Len(memory)
  /\ regions[c].at # None <=> regions[c].slice >= 1
  /\ pc[c] \in {"filter", "client", "ecs", "returned"} => regions[c].slice >= 1
  /\ pc[c] \in {"request", "answer", "load"} => regions[c].slice = 0
  /\ filted[c] \in {0, regions[c].slice}
  /\ c \in Projects => filted[c] = 0
  /\ pc[c] \in {"client", "ecs", "returned"} /\ c \notin Projects => filted[c] >= 1

\* The slices that are pointed to exist.
Slices ==
  provider = "huawei" =>
    /\ memory \in Seq(List)
    /\ copy \in [Clients -> List]
    /\ i \in [Clients -> Region]
    /\ regions \in [Clients -> [at : Time, slice : Nat]]
    /\ filted \in [Clients -> Nat]
    /\ cache.slice <= Len(memory)
    /\ cache.at # None => cache.slice >= 1
    /\ overlapped \in BOOLEAN
    /\ \A c \in Clients : SliceOf(c)

\* No other client writes to l.
OnlyBy(c, l) == \A r \in Region : l[r].ecsClient \in {Nobody, c}
Done(c, r) == filtedRegions(c)[r] = [client |-> c, ecsClient |-> c]

\* As long as nobody meets and nothing expires: the list that a client is
\* about to load is a new one, nobody else writes to its lists, and it works
\* on them from the first region to the last.
OwnOf(c) ==
  /\ pc[c] = "load" =>
       /\ memory[cache.slice] = Fresh
       /\ \A d \in Clients : regions[d].slice # cache.slice
  /\ regions[c].slice >= 1 => OnlyBy(c, memory[regions[c].slice])
  /\ OnlyBy(c, copy[c])
  /\ pc[c] \in {"client", "ecs"} => \A r \in Region : r < i[c] => Done(c, r)
  /\ pc[c] = "ecs" => Element(c).client = c
  /\ pc[c] = "returned" => \A r \in Region : Done(c, r)

Alone    == \A c, d \in Clients : pc[c] \in Inside /\ pc[d] \in Inside => c = d
Disjoint == \A c, d \in Clients : regions[c].slice = regions[d].slice /\ regions[c].slice >= 1 => c = d

Own   == Alone /\ Disjoint /\ \A c \in Clients : OwnOf(c)
Apart == provider = "huawei" /\ ~overlapped /\ now < Expire
OwnInv == Apart => Own

-----------------------------------------------------------------------------
(* The clocks.                                                             *)

\* What a step does to the clients: time passes for all of them, or one of
\* them moves and calls, asks, is answered or returns.
ClientMoves(c) ==
  /\ now' = now
  /\ \/ \E p \in Inside \ {"answer", "storeTime"} : Begin(c, p)
     \/ Answered(c)
     \/ \E p \in {"returned", "failed"} : Leave(c, p)
     \/ /\ pc[c] \in Inside
        /\ UNCHANGED <<began, got>>
        /\ \/ pc[c] = "answer" /\ Goto(c, "storeTime")
           \/ \E p \in {"panicked", "request", "load", "filter", "client", "ecs"} : Goto(c, p)

\* Every step of fetchRegions of aws.go is such a move.
LEMMA AwsMoves ==
  ASSUME NEW c \in Clients, AwsStep(c)
  PROVE  ClientMoves(c)
<1> USE DEF ClientMoves, Inside
<1>1. CASE LoadCacheAt(c)
  BY <1>1 DEF LoadCacheAt, Begin
<1>2. CASE TestCache(c)
  BY <1>2 DEF TestCache
<1>3. CASE StoreResult(c) \/ StoreCacheAt(c)
  BY <1>3 DEF StoreResult, StoreCacheAt
<1>4. CASE LoadResult(c)
  BY <1>4 DEF LoadResult
<1>5. CASE Answered(c) \/ RequestFails(c)
  BY <1>5 DEF Answered, RequestFails
<1> QED
  BY <1>1, <1>2, <1>3, <1>4, <1>5 DEF AwsStep

\* So is every step of fetchRegions of huawei.go.
LEMMA HuaweiMoves ==
  ASSUME NEW c \in Clients, HuaweiStep(c)
  PROVE  ClientMoves(c)
<1> USE DEF ClientMoves, Inside
<1>1. CASE LoadCache(c)
  BY <1>1 DEF LoadCache, Begin
<1>2. CASE StoreCache(c) \/ UseCache(c) \/ Filter(c) \/ SetClient(c)
  BY <1>2 DEF StoreCache, UseCache, Filter, SetClient
<1>3. CASE FilterFails(c) \/ GetECSClientFails(c)
  BY <1>3 DEF FilterFails, GetECSClientFails
<1>4. CASE GetECSClient(c)
  BY <1>4 DEF GetECSClient
<1>5. CASE Answered(c) \/ RequestFails(c)
  BY <1>5 DEF Answered, RequestFails
<1> QED
  BY <1>1, <1>2, <1>3, <1>4, <1>5 DEF HuaweiStep

\* A client's move keeps the clocks of all.
LEMMA MoveClocks ==
  ASSUME Clocks, NEW c \in Clients, ClientMoves(c)
  PROVE  Clocks'
<1> USE DEF Clocks, Time
<1>0. now' = now /\ CallTime \in Nat
  BY RegionAssumption DEF ClientMoves
<1>1. ASSUME NEW p \in Inside \ {"answer", "storeTime"}, Begin(c, p) PROVE Clocks'
  BY <1>0, <1>1 DEF Begin, Goto, Inside
<1>2. CASE Answered(c)
  BY <1>0, <1>2 DEF Answered, Goto, Inside
<1>3. ASSUME NEW p \in {"returned", "failed"}, Leave(c, p) PROVE Clocks'
  BY <1>0, <1>3 DEF Leave, Goto, Inside, Outside
<1>4. ASSUME pc[c] \in Inside, UNCHANGED <<began, got>>, pc[c] = "answer", Goto(c, "storeTime")
      PROVE  Clocks'
  BY <1>0, <1>4 DEF Goto, Inside
<1>5. ASSUME pc[c] \in Inside, UNCHANGED <<began, got>>,
             NEW p \in {"panicked", "request", "load", "filter", "client", "ecs"}, Goto(c, p)
      PROVE  Clocks'
  BY <1>0, <1>5 DEF Goto, Inside, Outside
<1> QED
  BY <1>1, <1>2, <1>3, <1>4, <1>5 DEF ClientMoves

\* Time passes only for those whose request has time left.
LEMMA TimeClocks ==
  ASSUME Clocks, TimePasses
  PROVE  Clocks'
BY RegionAssumption DEF Clocks, TimePasses, Inside, Time

\* Every step keeps the clocks.
LEMMA ClocksStep ==
  ASSUME Clocks, [Next]_vars
  PROVE  Clocks'
<1>1. CASE UNCHANGED vars
  BY <1>1 DEF vars, clientVars, Clocks
<1> QED
  BY <1>1, AwsMoves, HuaweiMoves, MoveClocks, TimeClocks DEF Next

-----------------------------------------------------------------------------
(* aws.go.                                                                 *)

\* What holds of a list stays true as time passes and lists are stored.
LEMMA ListStays ==
  ASSUME Clocks, AwsInv, provider = "aws", NEW t \in Time, ListFrom(t), now' \in Nat, now <= now',
         \/ describeRegionResult' = describeRegionResult
         \/ describeRegionResult' \in Nat /\ describeRegionResult' >= now - CallTime
  PROVE  ListFrom(t)'
BY RegionAssumption DEF Clocks, ListFrom, Time, None, AwsInv

\* A step that touches neither the cache nor the place of a client in it.
LEMMA AwsQuiet ==
  ASSUME Clocks, AwsInv, Clocks', UNCHANGED <<provider, awsVars>>, now <= now',
         \A d \in Clients : pc'[d] \in {"storeTime", "load"} =>
           pc'[d] = pc[d] /\ began'[d] = began[d] /\ now' = now
  PROVE  AwsInv'
<1> SUFFICES ASSUME provider = "aws" PROVE AwsInv'
  BY DEF AwsInv
<1>1. now \in Nat /\ now' \in Nat
  BY DEF Clocks
<1>2. UNCHANGED awsVars
  OBVIOUS
<1> QED
  BY <1>1, RegionAssumption DEF AwsInv, ListFrom, awsVars, Time, None, Clocks

\* Every step of a client keeps the times of the cache true.
LEMMA AwsClientStep ==
  ASSUME Clocks, AwsInv, Clocks', provider = "aws", provider' = provider, NEW c \in Clients, AwsStep(c)
  PROVE  AwsInv'
<1> USE DEF Time
<1>0. /\ now \in Nat /\ now' = now /\ CallTime \in Nat /\ describeRegionExpireHours \in Nat /\ None = -1
      /\ \A d \in Clients : pc[d] \in Inside => began[d] \in Nat /\ began[d] <= now
  BY AwsMoves, RegionAssumption, AwsRegionAssumption DEF ClientMoves, Clocks, None
<1>1. CASE LoadCacheAt(c)
  BY <1>0, <1>1 DEF LoadCacheAt, Begin, Goto, AwsInv, ListFrom, Clocks
<1>2. CASE TestCache(c)
  <2>1. UNCHANGED <<began, awsVars>> /\ pc[c] = "test" /\ began[c] = now
    BY <1>2 DEF TestCache, Clocks
  <2>2. ASSUME pc'[c] = "load"
        PROVE  describeRegionResult # None /\ describeRegionResult >= now - describeRegionExpireHours - CallTime
    <3>1. describeRegionResult # None /\ cacheTime[c] # None /\ now <= cacheTime[c] + describeRegionExpireHours
      BY <1>0, <1>2, <2>2 DEF TestCache, Goto, Expired, Clocks, AwsInv
    <3> QED
      BY <1>0, <3>1 DEF AwsInv, ListFrom
  <2>3. pc'[c] # "storeTime" /\ \A d \in Clients \ {c} : pc'[d] = pc[d]
    BY <1>2 DEF TestCache, Goto, Clocks
  <2> QED
    BY <1>0, <2>1, <2>2, <2>3 DEF AwsInv, ListFrom, awsVars
<1>3. CASE StoreResult(c)
  <2>1. /\ describeRegionResult' = got[c] /\ got[c] \in Nat /\ got[c] >= now - CallTime
        /\ UNCHANGED <<began, describeRegionResultCacheAt, cacheTime, iregions>>
        /\ pc' = [pc EXCEPT ![c] = "storeTime"]
    BY <1>0, <1>3 DEF StoreResult, Goto, Clocks, Inside
  <2>2. \A t \in Time : ListFrom(t) => ListFrom(t)'
    BY <1>0, <2>1, ListStays
  <2>3. ListFrom(now)'
    BY <1>0, <2>1 DEF ListFrom
  <2>4. ASSUME NEW d \in Clients, pc'[d] = "load"
        PROVE  /\ describeRegionResult' # None
               /\ describeRegionResult' >= began'[d] - describeRegionExpireHours - CallTime
    <3>1. pc[d] = "load" /\ began[d] \in Nat /\ began[d] <= now
      BY <1>0, <2>1, <2>4 DEF Clocks, Inside
    <3> QED
      BY <1>0, <2>1, <3>1
  <2> QED
    BY <1>0, <2>1, <2>2, <2>3, <2>4 DEF AwsInv
<1>4. CASE StoreCacheAt(c)
  <2>1. /\ UNCHANGED <<began, describeRegionResult, cacheTime, iregions>> /\ describeRegionResultCacheAt' = now
        /\ pc[c] = "storeTime" /\ pc' = [pc EXCEPT ![c] = "load"] /\ ListFrom(now)
        /\ began[c] <= now /\ began[c] \in Nat
    BY <1>0, <1>4 DEF StoreCacheAt, Goto, AwsInv, Inside
  <2>2. describeRegionResult >= began[c] - describeRegionExpireHours - CallTime
    BY <1>0, <2>1 DEF ListFrom, AwsInv
  <2> QED
    BY <1>0, <2>1, <2>2 DEF AwsInv, ListFrom, Clocks
<1>5. CASE LoadResult(c)
  BY <1>0, <1>5 DEF LoadResult, Leave, Goto, AwsInv, ListFrom, Clocks
<1>6. CASE (Answered(c) \/ RequestFails(c)) /\ UNCHANGED awsVars
  <2>1. \A d \in Clients : pc'[d] \in {"storeTime", "load"} => pc'[d] = pc[d] /\ began'[d] = began[d]
    BY <1>6 DEF Answered, RequestFails, Leave, Goto, Clocks
  <2> QED
    BY <1>0, <1>6, <2>1, AwsQuiet
<1> QED
  BY <1>1, <1>2, <1>3, <1>4, <1>5, <1>6 DEF AwsStep

\* Every step keeps the times of the cache true.
LEMMA AwsInvStep ==
  ASSUME Clocks, AwsInv, [Next]_vars
  PROVE  AwsInv'
<1>0. Clocks'
  BY ClocksStep
<1>1. CASE UNCHANGED vars
  BY <1>1 DEF vars, clientVars, awsVars, AwsInv, ListFrom
<1>2. CASE TimePasses /\ UNCHANGED <<provider, awsVars>>
  <2>1. now <= now' /\ \A d \in Clients : pc'[d] \notin {"storeTime", "load"}
    BY <1>2 DEF TimePasses, Clocks
  <2> QED
    BY <1>0, <1>2, <2>1, AwsQuiet
<1>3. ASSUME provider = "aws", provider' = provider, NEW c \in Clients, AwsStep(c) PROVE AwsInv'
  BY <1>0, <1>3, AwsClientStep
<1>4. CASE provider = "huawei" /\ provider' = provider
  BY <1>4 DEF AwsInv
<1> QED
  BY <1>1, <1>2, <1>3, <1>4 DEF Next

\* At the start nobody has called and nothing is cached.
LEMMA ClocksInit ==
  ASSUME Init
  PROVE  Clocks /\ AwsInv
BY RegionAssumption DEF Init, ClientsInit, AwsInit, Clocks, AwsInv, ListFrom, Time, None, Outside, Inside

\* So the times are true in every state.
LEMMA AwsInvariant == Spec => [](Clocks /\ AwsInv)
<1>1. Init => Clocks /\ AwsInv
  BY ClocksInit
<1>2. Clocks /\ AwsInv /\ [Next]_vars => (Clocks /\ AwsInv)'
  BY ClocksStep, AwsInvStep
<1> QED
  BY <1>1, <1>2, PTL DEF Spec

\* fetchRegions (aws.go) returns no list that is older than the expiry and the
\* time of one request, measured at the call, however the loads and stores
\* of several clients mix; and none returns without a list.
THEOREM ListsAreFresh == Spec => FreshEnough
<1>1. ASSUME Clocks, AwsInv, [Next]_vars
      PROVE  [\A c \in Clients : pc[c] = "load" /\ pc'[c] = "returned" =>
                /\ iregions'[c] # None
                /\ iregions'[c] >= began[c] - describeRegionExpireHours - CallTime]_<<pc, iregions>>
  <2> SUFFICES ASSUME ~UNCHANGED <<pc, iregions>>, NEW c \in Clients, pc[c] = "load", pc'[c] = "returned"
               PROVE  /\ iregions'[c] # None
                      /\ iregions'[c] >= began[c] - describeRegionExpireHours - CallTime
    OBVIOUS
  <2>1. Next
    BY <1>1 DEF vars, clientVars, awsVars
  <2>2. ~(provider = "huawei" /\ \E d \in Clients : HuaweiStep(d))
    <3> SUFFICES ASSUME NEW d \in Clients, HuaweiStep(d) PROVE pc'[c] # "returned"
      BY <1>1
    <3> QED
      BY <1>1 DEF HuaweiStep, LoadCache, StoreCache, UseCache, Filter, FilterFails, SetClient, GetECSClient,
         GetECSClientFails, Answered, RequestFails, Begin, Leave, Goto, Clocks
  <2>3. pc' # pc
    BY <1>1 DEF Clocks
  <2>4. PICK d \in Clients : AwsStep(d) /\ provider = "aws"
    BY <2>1, <2>2, <2>3 DEF Next, TimePasses
  <2>5. LoadResult(c)
    BY <1>1, <2>4 DEF AwsStep, LoadCacheAt, TestCache, StoreResult, StoreCacheAt, LoadResult, Answered,
       RequestFails, Begin, Leave, Goto, Clocks
  <2>6. iregions'[c] = describeRegionResult
    BY <1>1, <2>4, <2>5 DEF LoadResult, AwsInv
  <2> QED
    BY <1>1, <2>4, <2>6 DEF AwsInv
<1> QED
  BY <1>1, AwsInvariant, PTL DEF Spec, FreshEnough

\* The client c is not, and will not be, in a call that began before the
\* first time was stored.
Safe(c) ==
  /\ describeRegionResultCacheAt # None
  /\ pc[c] # "panicked"
  /\ pc[c] = "test" => cacheTime[c] # None

\* Times are never removed from the cache, so no client gets into danger.
LEMMA SafeStays ==
  ASSUME Clocks, AwsInv, NEW c \in Clients, Safe(c), [Next]_vars
  PROVE  Safe(c)'
<1> USE DEF Safe
<1>1. CASE UNCHANGED vars
  BY <1>1 DEF vars, clientVars, awsVars
<1>2. CASE TimePasses /\ UNCHANGED awsVars
  BY <1>2 DEF TimePasses, awsVars
<1>3. ASSUME NEW d \in Clients, HuaweiStep(d), UNCHANGED awsVars PROVE Safe(c)'
  <2>1. pc'[c] = pc[c] \/ pc'[c] \notin {"test", "panicked"}
    BY <1>3 DEF HuaweiStep, LoadCache, StoreCache, UseCache, Filter, FilterFails, SetClient, GetECSClient,
       GetECSClientFails, Answered, RequestFails, Begin, Leave, Goto, Clocks
  <2> QED
    BY <1>3, <2>1 DEF awsVars
<1>4. ASSUME NEW d \in Clients, AwsStep(d), provider = "aws" PROVE Safe(c)'
  <2>0. now \in Nat /\ None \notin Nat
    BY DEF Clocks, None
  <2>1. CASE LoadCacheAt(d)
    BY <1>4, <2>1 DEF LoadCacheAt, Begin, Goto, Clocks, AwsInv
  <2>2. CASE TestCache(d)
    BY <1>4, <2>2 DEF TestCache, Goto, Clocks, AwsInv, awsVars
  <2>3. CASE StoreResult(d) \/ StoreCacheAt(d)
    BY <1>4, <2>0, <2>3 DEF StoreResult, StoreCacheAt, Goto, Clocks, AwsInv
  <2>4. CASE LoadResult(d)
    BY <1>4, <2>4 DEF LoadResult, Leave, Goto, Clocks, AwsInv
  <2>5. CASE (Answered(d) \/ RequestFails(d)) /\ UNCHANGED awsVars
    BY <1>4, <2>5 DEF Answered, RequestFails, Leave, Goto, Clocks, awsVars
  <2> QED
    BY <1>4, <2>1, <2>2, <2>3, <2>4, <2>5 DEF AwsStep
<1> QED
  BY <1>1, <1>2, <1>3, <1>4 DEF Next

\* The type assertion of fetchRegions (aws.go) can fail only in a call that
\* began before the first list and its time were both stored: a client that
\* is elsewhere once they are stored never panics.
THEOREM PanicsOnlyAtFirst == Spec => PanicOnlyAtFirst
<1>1. ASSUME NEW c \in Clients
      PROVE  Spec => [](describeRegionResultCacheAt # None /\ pc[c] \notin {"test", "panicked"}
                          => [](pc[c] # "panicked"))
  <2>1. describeRegionResultCacheAt # None /\ pc[c] \notin {"test", "panicked"} => Safe(c)
    BY DEF Safe
  <2>2. Clocks /\ AwsInv /\ Safe(c) /\ [Next]_vars => Safe(c)'
    BY SafeStays
  <2>3. Safe(c) => pc[c] # "panicked"
    BY DEF Safe
  <2> QED
    BY <2>1, <2>2, <2>3, AwsInvariant, PTL DEF Spec
<1> QED
  BY <1>1 DEF PanicOnlyAtFirst

-----------------------------------------------------------------------------
(* huawei.go: the age of a list.                                           *)

\* A step that leaves the cache alone, and brings nobody to its load.
LEMMA HuaweiQuiet ==
  ASSUME HuaweiInv, UNCHANGED <<provider, cache>>,
         \A d \in Clients : pc'[d] = "load" => pc[d] = "load"
  PROVE  HuaweiInv'
BY DEF HuaweiInv

\* Every step of a client keeps a cached list for who is about to load it.
LEMMA HuaweiClientStep ==
  ASSUME Clocks, HuaweiInv, provider = "huawei", provider' = provider, NEW c \in Clients, HuaweiStep(c)
  PROVE  HuaweiInv'
<1>0. now \in Nat /\ Expire \in Nat /\ None = -1
  BY HuaweiAssumption DEF Clocks, None
<1>1. CASE LoadCache(c)
  <2>1. UNCHANGED cache /\ \A d \in Clients \ {c} : pc'[d] = pc[d]
    BY <1>1 DEF LoadCache, Begin, Goto, Clocks
  <2>2. pc'[c] = "load" => cache.at # None
    BY <1>1 DEF LoadCache, Refetch, Begin, Goto, Clocks
  <2> QED
    BY <2>1, <2>2 DEF HuaweiInv
<1>2. CASE StoreCache(c)
  <2>1. cache' = [at |-> got[c], slice |-> Len(memory) + 1, expireAt |-> now + Expire] /\ pc[c] = "answer"
    BY <1>2 DEF StoreCache
  <2>2. got[c] \in Nat /\ got[c] <= now
    BY <1>0, <2>1 DEF Clocks, Inside
  <2>3. cache'.at = got[c] /\ cache'.expireAt = now + Expire /\ cache'.slice = Len(memory) + 1
    BY <2>1
  <2> QED
    BY <1>0, <2>1, <2>2, <2>3 DEF HuaweiInv, Time
<1>3. CASE UseCache(c) \/ Filter(c) \/ FilterFails(c) \/ SetClient(c) \/ GetECSClient(c) \/ GetECSClientFails(c)
           \/ ((Answered(c) \/ RequestFails(c)) /\ UNCHANGED huaweiVars)
  <2>1. /\ UNCHANGED cache
        /\ \A d \in Clients : pc'[d] = "load" => pc[d] = "load"
    BY <1>3 DEF UseCache, Filter, FilterFails, SetClient, GetECSClient, GetECSClientFails, Answered,
       RequestFails, Leave, Goto, Clocks, huaweiVars
  <2> QED
    BY <2>1, HuaweiQuiet
<1> QED
  BY <1>1, <1>2, <1>3 DEF HuaweiStep

\* So does every step.
LEMMA HuaweiInvStep ==
  ASSUME Clocks, HuaweiInv, [Next]_vars
  PROVE  HuaweiInv'
<1>1. CASE UNCHANGED vars
  BY <1>1 DEF vars, clientVars, huaweiVars, HuaweiInv
<1>2. CASE TimePasses /\ UNCHANGED <<provider, huaweiVars>>
  BY <1>2, HuaweiQuiet DEF TimePasses, huaweiVars
<1>3. ASSUME provider = "huawei", provider' = provider, NEW c \in Clients, HuaweiStep(c) PROVE HuaweiInv'
  BY <1>3, HuaweiClientStep
<1>4. CASE provider = "aws" /\ provider' = provider
  BY <1>4 DEF HuaweiInv
<1> QED
  BY <1>1, <1>2, <1>3, <1>4 DEF Next

\* So it is in every state.
LEMMA HuaweiInvariant == Spec => [](Clocks /\ HuaweiInv)
<1>1. Init => Clocks /\ HuaweiInv
  <2> SUFFICES ASSUME Init PROVE HuaweiInv
    BY ClocksInit
  <2>1. cache.at = None /\ cache.slice = 0 /\ cache.expireAt = None /\ cache \in [at : Time, slice : Nat, expireAt : Int]
    BY DEF Init, HuaweiInit, Time, None
  <2>2. \A c \in Clients : pc[c] = "idle"
    BY DEF Init, ClientsInit
  <2> QED
    BY <2>1, <2>2 DEF HuaweiInv
<1>2. Clocks /\ HuaweiInv /\ [Next]_vars => (Clocks /\ HuaweiInv)'
  BY ClocksStep, HuaweiInvStep
<1> QED
  BY <1>1, <1>2, PTL DEF Spec

-----------------------------------------------------------------------------
(* huawei.go: the slices.                                                  *)

\* A write to the element at hand changes the list that the client works on,
\* at this element, and nothing else.
LEMMA WriteElement ==
  ASSUME Slices, provider = "huawei", NEW c \in Clients, pc[c] \in {"client", "ecs"},
         NEW e \in Entry, SetElement(c, e), filted' = filted
  PROVE  /\ memory' \in Seq(List) /\ Len(memory') = Len(memory)
         /\ copy' \in [Clients -> List]
         /\ filtedRegions(c) \in List
         /\ filtedRegions(c)' = [filtedRegions(c) EXCEPT ![i[c]] = e]
         /\ \A s \in 1 .. Len(memory) : s # filted[c] => memory'[s] = memory[s]
         /\ \A d \in Clients \ {c} : copy'[d] = copy[d]
         /\ filted[c] = 0 => memory' = memory
         /\ filted[c] # 0 => copy' = copy
<1>1. /\ memory \in Seq(List) /\ copy \in [Clients -> List] /\ i[c] \in Region /\ filted[c] \in 0 .. Len(memory)
      /\ Len(memory) \in Nat
  BY DEF Slices, SliceOf
<1>2. CASE filted[c] = 0
  <2>1. copy' = [copy EXCEPT ![c][i[c]] = e] /\ memory' = memory
    BY <1>2 DEF SetElement
  <2>2. copy'[c] = [copy[c] EXCEPT ![i[c]] = e] /\ \A d \in Clients \ {c} : copy'[d] = copy[d]
    BY <1>1, <2>1
  <2>3. copy' \in [Clients -> List]
    BY <1>1, <2>1 DEF List
  <2>4. filtedRegions(c) = copy[c] /\ filtedRegions(c)' = copy'[c]
    BY <1>2 DEF filtedRegions
  <2> QED
    BY <1>1, <1>2, <2>1, <2>2, <2>3, <2>4
<1>3. CASE filted[c] # 0
  <2>1. memory' = [memory EXCEPT ![filted[c]][i[c]] = e] /\ copy' = copy
    BY <1>3 DEF SetElement
  <2>2. filted[c] \in 1 .. Len(memory)
    BY <1>1, <1>3
  <2>3. memory[filted[c]] \in List
    BY <1>1, <2>2
  <2>4. [memory[filted[c]] EXCEPT ![i[c]] = e] \in List
    BY <1>1, <2>3 DEF List
  <2>5. memory' = [memory EXCEPT ![filted[c]] = [memory[filted[c]] EXCEPT ![i[c]] = e]]
    BY <2>1
  <2>6. /\ memory' \in Seq(List) /\ Len(memory') = Len(memory)
        /\ memory'[filted[c]] = [memory[filted[c]] EXCEPT ![i[c]] = e]
        /\ \A s \in 1 .. Len(memory) : s # filted[c] => memory'[s] = memory[s]
    BY <1>1, <2>2, <2>4, <2>5
  <2>7. filtedRegions(c) = memory[filted[c]] /\ filtedRegions(c)' = memory'[filted[c]]
    BY <1>3 DEF filtedRegions
  <2> QED
    BY <1>1, <1>3, <2>1, <2>3, <2>6, <2>7
<1> QED
  BY <1>2, <1>3

\* What the loop writes is an element of a list.
LEMMA ElementType ==
  ASSUME Slices, provider = "huawei", NEW c \in Clients, pc[c] \in {"client", "ecs"}
  PROVE  /\ filtedRegions(c) \in List /\ Element(c) \in Entry
         /\ [Element(c) EXCEPT !.client = c] \in Entry
         /\ [Element(c) EXCEPT !.ecsClient = IF @ = Nobody THEN Element(c).client ELSE @] \in Entry
<1>1. /\ memory \in Seq(List) /\ copy \in [Clients -> List] /\ i[c] \in Region /\ filted[c] \in 0 .. Len(memory)
      /\ Len(memory) \in Nat
  BY DEF Slices, SliceOf
<1>2. filtedRegions(c) \in List
  BY <1>1 DEF filtedRegions
<1>3. Element(c) \in Entry
  BY <1>1, <1>2 DEF Element, List
<1> QED
  BY <1>2, <1>3 DEF Entry

\* Every step of a client keeps the slices.
LEMMA SlicesClientStep ==
  ASSUME Clocks, HuaweiInv, Slices, provider = "huawei", provider' = provider, NEW c \in Clients, HuaweiStep(c)
  PROVE  Slices'
<1>0. /\ memory \in Seq(List) /\ copy \in [Clients -> List] /\ i \in [Clients -> Region]
      /\ regions \in [Clients -> [at : Time, slice : Nat]] /\ filted \in [Clients -> Nat]
      /\ cache.slice <= Len(memory) /\ (cache.at # None => cache.slice >= 1)
      /\ overlapped \in BOOLEAN /\ (\A d \in Clients : SliceOf(d)) /\ Len(memory) \in Nat
      /\ cache \in [at : Time, slice : Nat, expireAt : Int] /\ pc \in [Clients -> Outside \cup Inside]
  BY DEF Slices, HuaweiInv, Clocks
<1>1. CASE LoadCache(c)
  <2>1. /\ UNCHANGED <<cache, memory, regions, filted, copy, i>> /\ overlapped' \in BOOLEAN
        /\ \A d \in Clients \ {c} : pc'[d] = pc[d]
    BY <1>0, <1>1 DEF LoadCache, Begin, Goto
  <2>2. /\ pc'[c] \in {"request", "load"} => regions[c] = NoList
        /\ pc'[c] = "filter" => regions[c] # NoList
        /\ pc'[c] \in {"request", "load", "filter"}
    BY <1>0, <1>1 DEF LoadCache, Begin, Goto
  <2>3. regions[c] = NoList <=> regions[c].slice = 0
    <3>1. regions[c] \in [at : Time, slice : Nat] /\ SliceOf(c)
      BY <1>0
    <3>2. regions[c] = [at |-> regions[c].at, slice |-> regions[c].slice] /\ regions[c].slice \in Nat
      BY <3>1
    <3> QED
      BY <3>1, <3>2 DEF NoList, SliceOf
  <2>4. regions[c].slice \in Nat
    BY <1>0
  <2>5. SliceOf(c)'
    BY <1>0, <2>1, <2>2, <2>3, <2>4 DEF SliceOf
  <2>6. \A d \in Clients \ {c} : SliceOf(d)'
    BY <1>0, <2>1 DEF SliceOf
  <2> QED
    BY <1>0, <2>1, <2>5, <2>6 DEF Slices
<1>2. CASE StoreCache(c)
  <2>1. /\ pc[c] = "answer" /\ memory' = Append(memory, Fresh)
        /\ cache'.at = got[c] /\ cache'.slice = Len(memory) + 1
        /\ pc' = [pc EXCEPT ![c] = "load"] /\ UNCHANGED <<regions, filted, copy, i, overlapped>>
    BY <1>2 DEF StoreCache, Goto
  <2>2. Fresh \in List
    BY DEF Fresh, List, Entry
  <2>3. memory' \in Seq(List) /\ Len(memory') = Len(memory) + 1
    BY <1>0, <2>1, <2>2
  <2>4. \A d \in Clients : SliceOf(d)'
    BY <1>0, <2>1, <2>3 DEF SliceOf
  <2> QED
    BY <1>0, <2>1, <2>3, <2>4 DEF Slices
<1>3. CASE UseCache(c)
  <2>1. /\ pc[c] = "load" /\ UNCHANGED <<cache, memory, filted, copy, i, overlapped>>
        /\ regions' = [regions EXCEPT ![c] = [at |-> cache.at, slice |-> cache.slice]]
        /\ pc' = [pc EXCEPT ![c] = "filter"]
    BY <1>3 DEF UseCache, Goto
  <2>2. cache.at # None /\ cache.at \in Time /\ cache.slice \in Nat
    BY <1>0, <2>1 DEF HuaweiInv
  <2>3. regions' \in [Clients -> [at : Time, slice : Nat]] /\ regions'[c].at = cache.at /\ regions'[c].slice = cache.slice
    BY <1>0, <2>1, <2>2
  <2>4. SliceOf(c)'
    BY <1>0, <2>1, <2>2, <2>3 DEF SliceOf
  <2>5. \A d \in Clients \ {c} : SliceOf(d)'
    BY <1>0, <2>1 DEF SliceOf
  <2> QED
    BY <1>0, <2>1, <2>3, <2>4, <2>5 DEF Slices
<1>4. CASE Filter(c)
  <2>1. /\ pc[c] = "filter" /\ UNCHANGED <<cache, memory, regions, overlapped>>
        /\ i' = [i EXCEPT ![c] = 1] /\ pc' = [pc EXCEPT ![c] = "client"]
    BY <1>4 DEF Filter, Goto
  <2>2. regions[c].slice \in 1 .. Len(memory)
    BY <1>0, <2>1 DEF SliceOf
  <2>3. memory[regions[c].slice] \in List
    BY <1>0, <2>2
  <2>4. i' \in [Clients -> Region]
    BY <1>0, <2>1, HuaweiAssumption DEF Region
  <2>5. CASE c \in Projects
    <3>1. copy' = [copy EXCEPT ![c] = memory[regions[c].slice]] /\ filted' = filted
      BY <1>4, <2>5 DEF Filter
    <3>2. \A d \in Clients : SliceOf(d)'
      BY <1>0, <2>1, <2>2, <2>5, <3>1 DEF SliceOf
    <3> QED
      BY <1>0, <2>1, <2>3, <2>4, <3>1, <3>2 DEF Slices
  <2>6. CASE c \notin Projects
    <3>1. filted' = [filted EXCEPT ![c] = regions[c].slice] /\ copy' = copy
      BY <1>4, <2>6 DEF Filter
    <3>2. \A d \in Clients : SliceOf(d)'
      BY <1>0, <2>1, <2>2, <2>6, <3>1 DEF SliceOf
    <3> QED
      BY <1>0, <2>1, <2>2, <2>4, <3>1, <3>2 DEF Slices
  <2> QED
    BY <2>5, <2>6
<1>5. CASE FilterFails(c) \/ GetECSClientFails(c) \/ ((Answered(c) \/ RequestFails(c)) /\ UNCHANGED huaweiVars)
  <2>1. UNCHANGED huaweiVars
    BY <1>5 DEF FilterFails, GetECSClientFails
  <2>2. /\ pc'[c] = "failed" \/ (pc[c] = "request" /\ pc'[c] = "answer")
        /\ \A d \in Clients \ {c} : pc'[d] = pc[d]
    BY <1>0, <1>5 DEF FilterFails, GetECSClientFails, Answered, RequestFails, Leave, Goto
  <2>3. \A d \in Clients : SliceOf(d)'
    BY <1>0, <2>1, <2>2 DEF SliceOf, huaweiVars
  <2> QED
    BY <1>0, <2>1, <2>3 DEF Slices, huaweiVars
<1>6. CASE SetClient(c) \/ GetECSClient(c)
  <2>1. PICK e \in Entry : SetElement(c, e)
    BY <1>6, ElementType DEF SetClient, GetECSClient
  <2>2. /\ pc[c] \in {"client", "ecs"} /\ pc'[c] \in {"client", "ecs", "returned"}
        /\ UNCHANGED <<cache, regions, filted, overlapped>> /\ \A d \in Clients \ {c} : pc'[d] = pc[d]
    BY <1>0, <1>6 DEF SetClient, GetECSClient, Leave, Goto
  <2>3. i' \in [Clients -> Region]
    <3>1. i' = i \/ (i[c] # N /\ i' = [i EXCEPT ![c] = i[c] + 1])
      BY <1>6 DEF SetClient, GetECSClient
    <3>2. i[c] \in 1 .. N /\ N \in Nat
      BY <1>0, HuaweiAssumption DEF Region
    <3>3. i[c] # N => i[c] + 1 \in Region
      BY <3>2 DEF Region
    <3> QED
      BY <1>0, <3>1, <3>3
  <2>4. memory' \in Seq(List) /\ Len(memory') = Len(memory) /\ copy' \in [Clients -> List]
    BY <2>1, <2>2, WriteElement
  <2>5. \A d \in Clients : SliceOf(d)'
    BY <1>0, <2>2, <2>4 DEF SliceOf
  <2> QED
    BY <1>0, <2>2, <2>3, <2>4, <2>5 DEF Slices
<1> QED
  BY <1>1, <1>2, <1>3, <1>4, <1>5, <1>6 DEF HuaweiStep

\* Every step keeps the slices.
LEMMA SlicesStep ==
  ASSUME Clocks, HuaweiInv, Slices, [Next]_vars
  PROVE  Slices'
<1>1. CASE UNCHANGED vars
  BY <1>1 DEF vars, clientVars, huaweiVars, Slices, SliceOf
<1>2. CASE TimePasses /\ UNCHANGED <<provider, huaweiVars>>
  BY <1>2 DEF TimePasses, huaweiVars, Slices, SliceOf
<1>3. ASSUME provider = "huawei", provider' = provider, NEW c \in Clients, HuaweiStep(c) PROVE Slices'
  BY <1>3, SlicesClientStep
<1>4. CASE provider = "aws" /\ provider' = provider
  BY <1>4 DEF Slices
<1> QED
  BY <1>1, <1>2, <1>3, <1>4 DEF Next

-----------------------------------------------------------------------------
(* huawei.go: whose slice it is.                                           *)

\* While c takes a step, everybody else is outside and finds its lists as it
\* left them.
LEMMA OthersKeep ==
  ASSUME Own, NEW d \in Clients, pc[d] \notin Inside, pc'[d] = pc[d], regions'[d] = regions[d],
         filted'[d] = filted[d], copy'[d] = copy[d], filted[d] \in {0, regions[d].slice}, regions[d].slice \in Nat,
         regions[d].slice >= 1 => memory'[regions[d].slice] = memory[regions[d].slice]
  PROVE  OwnOf(d)'
<1>1. OwnOf(d)
  BY DEF Own
<1>2. filtedRegions(d)' = filtedRegions(d)
  BY DEF filtedRegions
<1>3. pc'[d] \notin {"load", "client", "ecs"}
  BY DEF Inside
<1> QED
  BY <1>1, <1>2, <1>3 DEF OwnOf, OnlyBy, Done

\* A write of c to the element at hand leaves the API clients of its lists
\* its own.
LEMMA OwnWrite ==
  ASSUME Slices, provider = "huawei", Own, NEW c \in Clients, pc[c] \in {"client", "ecs"},
         NEW e \in Entry, e.ecsClient \in {Nobody, c}, SetElement(c, e), UNCHANGED <<filted, regions>>
  PROVE  /\ regions'[c].slice >= 1 => OnlyBy(c, memory'[regions'[c].slice])
         /\ OnlyBy(c, copy'[c])
         /\ \A r \in Region : r # i[c] => (Done(c, r)' <=> Done(c, r))
         /\ filtedRegions(c)'[i[c]] = e
         /\ \A d \in Clients \ {c} :
              regions[d].slice >= 1 => memory'[regions[d].slice] = memory[regions[d].slice]
<1>1. /\ i[c] \in Region /\ SliceOf(c) /\ regions[c].slice \in Nat /\ filted[c] \in Nat /\ Len(memory) \in Nat
      /\ \A d \in Clients : SliceOf(d) /\ regions[d].slice \in Nat
  BY DEF Slices
<1>2. /\ filtedRegions(c) \in List
      /\ filtedRegions(c)' = [filtedRegions(c) EXCEPT ![i[c]] = e]
      /\ \A s \in 1 .. Len(memory) : s # filted[c] => memory'[s] = memory[s]
      /\ filted[c] = 0 => memory' = memory
      /\ filted[c] # 0 => copy' = copy
  BY WriteElement
<1>3. OwnOf(c)
  BY DEF Own
<1>4. /\ filtedRegions(c)'[i[c]] = e
      /\ \A r \in Region : r # i[c] => filtedRegions(c)'[r] = filtedRegions(c)[r]
  BY <1>1, <1>2 DEF List
<1>5. CASE filted[c] = 0
  <2>1. filtedRegions(c) = copy[c] /\ filtedRegions(c)' = copy'[c]
    BY <1>5 DEF filtedRegions
  <2>2. OnlyBy(c, copy'[c])
    BY <1>1, <1>3, <1>4, <2>1 DEF OnlyBy, OwnOf
  <2> QED
    BY <1>1, <1>2, <1>3, <1>4, <1>5, <2>2 DEF OwnOf, Done
<1>6. CASE filted[c] # 0
  <2>1. filted[c] = regions[c].slice /\ filted[c] >= 1
    BY <1>1, <1>6 DEF SliceOf
  <2>2. filtedRegions(c) = memory[regions[c].slice] /\ filtedRegions(c)' = memory'[regions'[c].slice]
    BY <1>6, <2>1 DEF filtedRegions
  <2>3. OnlyBy(c, memory'[regions'[c].slice])
    BY <1>1, <1>3, <1>4, <2>1, <2>2 DEF OnlyBy, OwnOf
  <2>4. \A d \in Clients \ {c} :
          regions[d].slice >= 1 => regions[d].slice # filted[c] /\ regions[d].slice \in 1 .. Len(memory)
    BY <1>1, <2>1 DEF Own, Disjoint, SliceOf
  <2>5. \A d \in Clients \ {c} :
          regions[d].slice >= 1 => memory'[regions[d].slice] = memory[regions[d].slice]
    BY <1>2, <2>4
  <2> QED
    BY <1>2, <1>3, <1>4, <1>6, <2>3, <2>5 DEF OwnOf, Done
<1> QED
  BY <1>5, <1>6

\* Every step of a client keeps the lists apart.
LEMMA OwnClientStep ==
  ASSUME Clocks, HuaweiInv, Slices, Slices', Apart, Own, ~overlapped', provider' = provider,
         NEW c \in Clients, HuaweiStep(c)
  PROVE  Own'
<1>0. /\ provider = "huawei" /\ now \in Nat /\ now < Expire /\ Expire \in Nat /\ Len(memory) \in Nat
      /\ pc \in [Clients -> Outside \cup Inside] /\ regions \in [Clients -> [at : Time, slice : Nat]]
      /\ filted \in [Clients -> Nat] /\ copy \in [Clients -> List] /\ memory \in Seq(List)
      /\ i \in [Clients -> Region] /\ (\A d \in Clients : SliceOf(d) /\ OwnOf(d))
      /\ \A d \in Clients : regions[d].slice \in Nat
  BY HuaweiAssumption DEF Clocks, Slices, Apart, Own
<1>1. \A d \in Clients \ {c} : pc[d] \notin Inside /\ pc'[d] = pc[d]
  <2>1. \A d \in Clients \ {c} : pc'[d] = pc[d]
    BY <1>0, HuaweiMoves DEF ClientMoves, Begin, Answered, Leave, Goto
  <2>2. CASE LoadCache(c)
    BY <2>1, <2>2 DEF LoadCache, Inside
  <2>3. CASE ~LoadCache(c)
    <3>1. pc[c] \in Inside
      BY <2>3 DEF HuaweiStep, StoreCache, UseCache, Filter, FilterFails, SetClient, GetECSClient,
         GetECSClientFails, Answered, RequestFails, Inside
    <3> QED
      BY <2>1, <3>1 DEF Own, Alone
  <2> QED
    BY <2>2, <2>3
<1>2. Alone'
  BY <1>1 DEF Alone
<1>3. CASE LoadCache(c)
  <2>1. UNCHANGED <<cache, memory, regions, filted, copy, i>>
    BY <1>3 DEF LoadCache
  <2>2. Refetch
    BY <1>0 DEF Refetch, HuaweiInv
  <2>3. pc'[c] \in {"request", "filter"}
    BY <1>0, <1>3, <2>2 DEF LoadCache, Begin, Goto
  <2>4. OwnOf(c)'
    BY <1>0, <2>1, <2>3 DEF OwnOf, OnlyBy
  <2>5. \A d \in Clients \ {c} : OwnOf(d)'
    BY <1>0, <1>1, <2>1, OthersKeep DEF SliceOf
  <2>6. Disjoint'
    BY <2>1 DEF Own, Disjoint
  <2> QED
    BY <1>2, <2>4, <2>5, <2>6 DEF Own
<1>4. CASE StoreCache(c)
  <2>1. /\ pc[c] = "answer" /\ memory' = Append(memory, Fresh) /\ cache'.slice = Len(memory) + 1
        /\ pc'[c] = "load" /\ UNCHANGED <<regions, filted, copy, i>>
    BY <1>0, <1>4 DEF StoreCache, Goto
  <2>2. memory'[Len(memory) + 1] = Fresh /\ \A s \in 1 .. Len(memory) : memory'[s] = memory[s]
    BY <1>0, <2>1
  <2>3. \A d \in Clients : regions[d].slice <= Len(memory)
    BY <1>0 DEF SliceOf
  <2>4. \A d \in Clients : regions[d].slice >= 1 => memory'[regions[d].slice] = memory[regions[d].slice]
    BY <1>0, <2>2, <2>3
  <2>5. OwnOf(c)'
    <3>1. \A d \in Clients : regions'[d].slice # cache'.slice
      BY <1>0, <2>1, <2>3
    <3>2. OnlyBy(c, copy'[c]) /\ (regions'[c].slice >= 1 => OnlyBy(c, memory'[regions'[c].slice]))
      BY <1>0, <2>1, <2>4 DEF OwnOf
    <3> QED
      BY <2>1, <2>2, <3>1, <3>2 DEF OwnOf
  <2>6. \A d \in Clients \ {c} : OwnOf(d)'
    BY <1>0, <1>1, <2>1, <2>4, OthersKeep DEF SliceOf
  <2>7. Disjoint'
    BY <2>1 DEF Own, Disjoint
  <2> QED
    BY <1>2, <2>5, <2>6, <2>7 DEF Own
<1>5. CASE UseCache(c)
  <2>1. /\ pc[c] = "load" /\ pc'[c] = "filter" /\ UNCHANGED <<cache, memory, filted, copy, i>>
        /\ regions' = [regions EXCEPT ![c] = [at |-> cache.at, slice |-> cache.slice]]
    BY <1>0, <1>5 DEF UseCache, Goto
  <2>2. regions'[c].slice = cache.slice /\ \A d \in Clients \ {c} : regions'[d] = regions[d]
    BY <1>0, <2>1
  <2>3. memory[cache.slice] = Fresh /\ \A d \in Clients : regions[d].slice # cache.slice
    BY <1>0, <2>1 DEF OwnOf
  <2>4. OwnOf(c)'
    <3>1. OnlyBy(c, memory'[regions'[c].slice])
      BY <2>1, <2>2, <2>3 DEF OnlyBy, Fresh
    <3>2. OnlyBy(c, copy'[c])
      BY <1>0, <2>1 DEF OwnOf
    <3> QED
      BY <2>1, <3>1, <3>2 DEF OwnOf
  <2>5. \A d \in Clients \ {c} : OwnOf(d)'
    BY <1>0, <1>1, <2>1, <2>2, OthersKeep DEF SliceOf
  <2>6. Disjoint'
    BY <2>2, <2>3 DEF Own, Disjoint
  <2> QED
    BY <1>2, <2>4, <2>5, <2>6 DEF Own
<1>6. CASE Filter(c)
  <2>1. /\ pc[c] = "filter" /\ pc'[c] = "client" /\ i'[c] = 1 /\ UNCHANGED <<cache, memory, regions>>
        /\ copy'[c] = copy[c] \/ copy'[c] = memory[regions[c].slice]
        /\ \A d \in Clients \ {c} : copy'[d] = copy[d] /\ filted'[d] = filted[d]
    BY <1>0, <1>6 DEF Filter, Goto
  <2>2. regions[c].slice >= 1 /\ OnlyBy(c, memory[regions[c].slice]) /\ OnlyBy(c, copy[c])
    BY <1>0, <2>1 DEF SliceOf, OwnOf
  <2>3. OwnOf(c)'
    <3>1. \A r \in Region : ~(r < i'[c])
      BY <2>1 DEF Region
    <3> QED
      BY <2>1, <2>2, <3>1 DEF OwnOf
  <2>4. \A d \in Clients \ {c} : OwnOf(d)'
    BY <1>0, <1>1, <2>1, OthersKeep DEF SliceOf
  <2>5. Disjoint'
    BY <2>1 DEF Own, Disjoint
  <2> QED
    BY <1>2, <2>3, <2>4, <2>5 DEF Own
<1>7. CASE FilterFails(c) \/ GetECSClientFails(c) \/ ((Answered(c) \/ RequestFails(c)) /\ UNCHANGED huaweiVars)
  <2>1. UNCHANGED <<cache, memory, regions, filted, copy, i>> /\ pc'[c] \in {"failed", "answer"}
    BY <1>0, <1>7 DEF FilterFails, GetECSClientFails, Answered, RequestFails, Leave, Goto, huaweiVars
  <2>2. OwnOf(c)'
    BY <1>0, <2>1 DEF OwnOf, OnlyBy
  <2>3. \A d \in Clients \ {c} : OwnOf(d)'
    BY <1>0, <1>1, <2>1, OthersKeep DEF SliceOf
  <2>4. Disjoint'
    BY <2>1 DEF Own, Disjoint
  <2> QED
    BY <1>2, <2>2, <2>3, <2>4 DEF Own
<1>8. ASSUME NEW e \in Entry, e.ecsClient \in {Nobody, c}, SetElement(c, e), pc[c] \in {"client", "ecs"},
             UNCHANGED <<filted, regions>>, pc'[c] \in {"client", "ecs", "returned"},
             pc'[c] = "returned" => \A r \in Region : Done(c, r)',
             pc'[c] \in {"client", "ecs"} => \A r \in Region : r < i'[c] => Done(c, r)',
             pc'[c] = "ecs" => Element(c)'.client = c
      PROVE  Own'
  <2>1. /\ regions'[c].slice >= 1 => OnlyBy(c, memory'[regions'[c].slice])
        /\ OnlyBy(c, copy'[c])
        /\ \A d \in Clients \ {c} :
             regions[d].slice >= 1 => memory'[regions[d].slice] = memory[regions[d].slice]
    BY <1>0, <1>8, OwnWrite
  <2>2. OwnOf(c)'
    BY <1>8, <2>1 DEF OwnOf
  <2>3. \A d \in Clients \ {c} : copy'[d] = copy[d]
    BY <1>0, <1>8, WriteElement
  <2>4. \A d \in Clients \ {c} : OwnOf(d)'
    BY <1>0, <1>1, <1>8, <2>1, <2>3, OthersKeep DEF SliceOf
  <2>5. Disjoint'
    BY <1>8 DEF Own, Disjoint
  <2> QED
    BY <1>2, <2>2, <2>4, <2>5 DEF Own
<1>9. CASE SetClient(c)
  <2> DEFINE e == [Element(c) EXCEPT !.client = c]
  <2>1. /\ pc[c] = "client" /\ pc'[c] = "ecs" /\ SetElement(c, e) /\ UNCHANGED <<filted, regions, i>>
    BY <1>0, <1>9 DEF SetClient, Goto
  <2>2. filtedRegions(c) \in List /\ Element(c) \in Entry /\ e \in Entry /\ e.client = c /\ e.ecsClient = Element(c).ecsClient
    BY <1>0, <2>1, ElementType DEF Entry
  <2>3. e.ecsClient \in {Nobody, c}
    <3>1. OnlyBy(c, filtedRegions(c))
      BY <1>0, <2>1 DEF OwnOf, SliceOf, filtedRegions
    <3> QED
      BY <1>0, <2>2, <3>1 DEF OnlyBy, Element
  <2>4. /\ \A r \in Region : r # i[c] => (Done(c, r)' <=> Done(c, r))
        /\ filtedRegions(c)'[i[c]] = e
    BY <1>0, <2>1, <2>2, <2>3, OwnWrite
  <2>5. \A r \in Region : r < i'[c] => Done(c, r)'
    BY <1>0, <2>1, <2>4 DEF OwnOf, Region
  <2>6. Element(c)'.client = c
    BY <2>1, <2>2, <2>4 DEF Element
  <2> QED
    BY <1>8, <2>1, <2>2, <2>3, <2>5, <2>6
<1>10. CASE GetECSClient(c)
  <2> DEFINE e == [Element(c) EXCEPT !.ecsClient = IF @ = Nobody THEN Element(c).client ELSE @]
  <2>1. /\ pc[c] = "ecs" /\ SetElement(c, e) /\ UNCHANGED <<filted, regions>>
        /\ \/ i[c] = N /\ pc'[c] = "returned"
           \/ pc'[c] = "client" /\ i'[c] = i[c] + 1
    BY <1>0, <1>10 DEF GetECSClient, Leave, Goto
  <2>2. filtedRegions(c) \in List /\ Element(c) \in Entry /\ e \in Entry
    BY <1>0, <2>1, ElementType
  <2>3. Element(c).ecsClient \in {Nobody, c} /\ Element(c).client = c
    <3>1. OnlyBy(c, filtedRegions(c))
      BY <1>0, <2>1 DEF OwnOf, SliceOf, filtedRegions
    <3> QED
      BY <1>0, <2>1, <3>1 DEF OnlyBy, Element, OwnOf
  <2>4. e = [client |-> c, ecsClient |-> c]
    BY <2>2, <2>3 DEF Entry
  <2>5. e.ecsClient \in {Nobody, c}
    BY <2>4
  <2>6. /\ \A r \in Region : r # i[c] => (Done(c, r)' <=> Done(c, r))
        /\ filtedRegions(c)'[i[c]] = e
    BY <1>0, <2>1, <2>2, <2>5, OwnWrite
  <2>7. \A r \in Region : r <= i[c] => Done(c, r)'
    <3>1. \A r \in Region : r < i[c] => Done(c, r)
      BY <1>0, <2>1 DEF OwnOf
    <3>2. \A r \in Region : r = i[c] => Done(c, r)'
      BY <2>4, <2>6 DEF Done
    <3>3. \A r \in Region : r <= i[c] => r = i[c] \/ (r < i[c] /\ r # i[c])
      BY <1>0, HuaweiAssumption DEF Region
    <3> QED
      BY <2>6, <3>1, <3>2, <3>3
  <2>8. i[c] = N => \A r \in Region : Done(c, r)'
    BY <2>7, HuaweiAssumption DEF Region
  <2>9. i'[c] = i[c] + 1 => \A r \in Region : r < i'[c] => Done(c, r)'
    BY <1>0, <2>7, HuaweiAssumption DEF Region
  <2> QED
    BY <1>8, <2>1, <2>2, <2>5, <2>8, <2>9
<1> QED
  BY <1>3, <1>4, <1>5, <1>6, <1>7, <1>9, <1>10 DEF HuaweiStep

\* Every step keeps the lists apart, as long as nobody meets and none expires.
LEMMA OwnStep ==
  ASSUME Clocks, HuaweiInv, Slices, OwnInv, [Next]_vars
  PROVE  OwnInv'
<1> SUFFICES ASSUME Apart' PROVE Own'
  BY DEF OwnInv
<1>0. Slices' /\ Clocks'
  BY SlicesStep, ClocksStep
<1>1. CASE UNCHANGED vars
  BY <1>1 DEF vars, clientVars, huaweiVars, OwnInv, Apart, Own, Alone, Disjoint, OwnOf, OnlyBy, Done, Element,
     filtedRegions
<1>2. CASE TimePasses /\ UNCHANGED <<provider, huaweiVars>>
  <2>1. UNCHANGED <<pc, cache, memory, regions, filted, copy, i, overlapped, provider>> /\ now' = now + 1
    BY <1>2 DEF TimePasses, huaweiVars
  <2>2. Apart
    BY <2>1, HuaweiAssumption DEF Apart, Clocks
  <2> QED
    BY <2>1, <2>2 DEF OwnInv, Own, Alone, Disjoint, OwnOf, OnlyBy, Done, Element, filtedRegions
<1>3. ASSUME provider' = provider, provider = "huawei", NEW c \in Clients, HuaweiStep(c) PROVE Own'
  <2>1. now' = now
    BY <1>3, HuaweiMoves DEF ClientMoves
  <2>2. ~overlapped' => ~overlapped
    BY <1>3 DEF HuaweiStep, LoadCache, StoreCache, UseCache, Filter, FilterFails, SetClient, GetECSClient,
       GetECSClientFails, huaweiVars
  <2>3. Apart /\ ~overlapped'
    BY <1>3, <2>1, <2>2 DEF Apart
  <2> QED
    BY <1>0, <1>3, <2>3, OwnClientStep DEF OwnInv
<1>4. CASE provider = "aws" /\ provider' = provider
  BY <1>4 DEF Apart
<1> QED
  BY <1>1, <1>2, <1>3, <1>4 DEF Next

\* At the start nobody has a list.
LEMMA SlicesInit ==
  ASSUME Init
  PROVE  Slices /\ OwnInv
<1>1. /\ cache.slice = 0 /\ cache.at = None /\ memory = << >> /\ overlapped = FALSE
      /\ regions = [c \in Clients |-> NoList] /\ filted = [c \in Clients |-> 0]
      /\ copy = [c \in Clients |-> Fresh] /\ i = [c \in Clients |-> 1] /\ pc = [c \in Clients |-> "idle"]
  BY DEF Init, HuaweiInit, ClientsInit
<1>2. NoList \in [at : Time, slice : Nat] /\ NoList.slice = 0 /\ NoList.at = None
  BY DEF NoList, Time, None
<1>3. Fresh \in List /\ 1 \in Region
  BY HuaweiAssumption DEF Fresh, List, Entry, Region
<1>4. memory \in Seq(List) /\ Len(memory) = 0
  BY <1>1
<1>5. \A c \in Clients : SliceOf(c)
  BY <1>1, <1>2, <1>4 DEF SliceOf
<1>6. Slices
  <2>1. /\ regions \in [Clients -> [at : Time, slice : Nat]] /\ filted \in [Clients -> Nat]
        /\ copy \in [Clients -> List] /\ i \in [Clients -> Region]
    BY <1>1, <1>2, <1>3
  <2>2. overlapped \in BOOLEAN
    BY <1>1
  <2>3. cache.slice <= Len(memory)
    BY <1>1, <1>4
  <2> QED
    BY <1>1, <1>4, <1>5, <2>1, <2>2, <2>3 DEF Slices
<1>7. \A c \in Clients : OwnOf(c)
  BY <1>1, <1>2 DEF OwnOf, OnlyBy, Fresh
<1>8. Alone /\ Disjoint
  BY <1>1, <1>2 DEF Alone, Disjoint, Inside
<1> QED
  BY <1>6, <1>7, <1>8 DEF OwnInv, Own

\* So the slices are kept, and the lists apart, in every state.
LEMMA SlicesInvariant == Spec => [](Clocks /\ HuaweiInv /\ Slices /\ OwnInv)
<1>1. Init => Slices /\ OwnInv
  BY SlicesInit
<1>2. Clocks /\ HuaweiInv /\ Slices /\ OwnInv /\ [Next]_vars => (Slices /\ OwnInv)'
  BY SlicesStep, OwnStep
<1> QED
  BY <1>1, <1>2, HuaweiInvariant, PTL DEF Spec

\* The regions that fetchRegions (huawei.go) gives a client carry this client
\* and the API client that was made for it, although the cached slice is
\* written in place: as long as no two calls overlap and no list has expired.
THEOREM RegionsAreOwn == Spec => []OwnRegions
<1>1. OwnInv => OwnRegions
  BY DEF OwnInv, OwnRegions, Apart, Own, OwnOf, Done
<1> QED
  BY <1>1, SlicesInvariant, PTL

=============================================================================
