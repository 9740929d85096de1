----------------------------- MODULE AwsRegions -----------------------------
(***************************************************************************)
(* fetchRegions of aws/aws.go: the list and the time of its storing are in *)
(* two maps, which are loaded and stored one after the other.              *)
(***************************************************************************)
EXTENDS RegionCache

CONSTANT describeRegionExpireHours
ASSUME AwsRegionAssumption == describeRegionExpireHours \in Nat

VARIABLES
  describeRegionResult,          \* the list, None without an entry
  describeRegionResultCacheAt,   \* the time of its storing, likewise
  cacheTime,                     \* cacheTime[c]: what c has loaded of it
  iregions                       \* iregions[c]: the list that c ends up with

awsVars == <<describeRegionResult, describeRegionResultCacheAt, cacheTime, iregions>>

AwsInit ==
  /\ describeRegionResult = None
  /\ describeRegionResultCacheAt = None
  /\ cacheTime = [c \in Clients |-> None]
  /\ iregions = [c \in Clients |-> None]

LoadCacheAt(c) ==
  /\ Begin(c, "test")
  /\ cacheTime' = [cacheTime EXCEPT ![c] = describeRegionResultCacheAt]
  /\ UNCHANGED <<describeRegionResult, describeRegionResultCacheAt, iregions>>

\* Mutant: the list is kept for as long as the process lives.
ExpiredNever(c) == FALSE

Expired(c) == now > cacheTime[c] + describeRegionExpireHours

\* Mutant: who finds the list too old clears its time first.
TestCacheClears(c) ==
  /\ pc[c] = "test"
  /\ \/ /\ describeRegionResult = None \/ (cacheTime[c] # None /\ Expired(c))
        /\ Goto(c, "request")
        /\ describeRegionResultCacheAt' = None
     \/ /\ describeRegionResult # None /\ (cacheTime[c] # None => ~Expired(c))
        /\ Goto(c, IF cacheTime[c] = None THEN "panicked" ELSE "load")
        /\ UNCHANGED describeRegionResultCacheAt
  /\ UNCHANGED <<now, began, got, describeRegionResult, cacheTime, iregions>>

\* The condition: with a list and without its time, the type assertion of
\* cacheTime panics.
TestCache(c) ==
  /\ pc[c] = "test"
  /\ \/ describeRegionResult = None /\ Goto(c, "request")
     \/ /\ describeRegionResult # None
        /\ \/ cacheTime[c] = None /\ Goto(c, "panicked")
           \/ cacheTime[c] # None /\ Expired(c) /\ Goto(c, "request")
           \/ cacheTime[c] # None /\ ~Expired(c) /\ Goto(c, "load")
  /\ UNCHANGED <<now, began, got, awsVars>>

StoreResult(c) ==
  /\ pc[c] = "answer"
  /\ describeRegionResult' = got[c]
  /\ Goto(c, "storeTime")
  /\ UNCHANGED <<now, began, got, describeRegionResultCacheAt, cacheTime, iregions>>

StoreCacheAt(c) ==
  /\ pc[c] = "storeTime"
  /\ describeRegionResultCacheAt' = now
  /\ Goto(c, "load")
  /\ UNCHANGED <<now, began, got, describeRegionResult, cacheTime, iregions>>

LoadResult(c) ==
  /\ pc[c] = "load"
  /\ iregions' = [iregions EXCEPT ![c] = describeRegionResult]
  /\ Leave(c, "returned")
  /\ cacheTime' = [cacheTime EXCEPT ![c] = None]
  /\ UNCHANGED <<now, describeRegionResult, describeRegionResultCacheAt>>

AwsStep(c) ==
  \/ LoadCacheAt(c) \/ TestCache(c) \/ StoreResult(c) \/ StoreCacheAt(c) \/ LoadResult(c)
  \/ (Answered(c) \/ RequestFails(c)) /\ UNCHANGED awsVars

-----------------------------------------------------------------------------
\* However the loads and stores of several clients mix, a client never gets
\* a list that is older than the two hours and the time that one request
\* takes, and never returns without a list.
FreshEnough ==
  [][\A c \in Clients : pc[c] = "load" /\ pc'[c] = "returned" =>
       /\ iregions'[c] # None
       /\ iregions'[c] >= began[c] - describeRegionExpireHours - CallTime]_<<pc, iregions>>

\* fetchRegions panics only if it was called before the first list and its
\* time were both stored, never later.
PanicOnlyAtFirst ==
  \A c \in Clients :
    [](describeRegionResultCacheAt # None /\ pc[c] \notin {"test", "panicked"}
         => [](pc[c] # "panicked"))

=============================================================================
