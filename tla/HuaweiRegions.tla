--------------------------- MODULE HuaweiRegions ---------------------------
(***************************************************************************)
(* fetchRegions of huawei/huawei.go.  The cached list is a slice: clients  *)
(* without a project use it in place, and write their own address and a    *)
(* client for the region's API into its elements.                          *)
(***************************************************************************)
EXTENDS RegionCache, Sequences

CONSTANTS
  Expire,      \* the 24 hours of ExpireAt
  Projects,    \* the clients with a projectId, which make a list of their own
  N,           \* the number of regions in a list
  MaxSlices    \* bound: how many lists are fetched

ASSUME HuaweiAssumption ==
  Expire \in Nat /\ Projects \subseteq Clients /\ N \in Nat \ {0} /\ MaxSlices \in Nat

Region == 1 .. N
Nobody == "nobody"
NoList == [at |-> None, slice |-> 0]

VARIABLES
  cache,       \* HUAWEI_REGION_CACHES[userId]: list, and when it expires
  memory,      \* memory[s][i]: client and ecsClient of region i in slice s
  regions,     \* regions[c]: self.regions (at: None when it is nil)
  filted,      \* filted[c]: the slice filtedRegions, 0 for the own copy
  copy,        \* copy[c]: that copy
  i,           \* i[c]: the loop's variable
  overlapped   \* history: two clients were in fetchRegions at the same time

huaweiVars == <<cache, memory, regions, filted, copy, i, overlapped>>

Fresh == [r \in Region |-> [client |-> Nobody, ecsClient |-> Nobody]]

HuaweiInit ==
  /\ cache = [at |-> None, slice |-> 0, expireAt |-> None]
  /\ memory = << >>
  /\ regions = [c \in Clients |-> NoList]
  /\ filted = [c \in Clients |-> 0]
  /\ copy = [c \in Clients |-> Fresh]
  /\ i = [c \in Clients |-> 1]
  /\ overlapped = FALSE

\* The condition at line 416, which is the wrong way round: a list is fetched
\* again until it has expired, and used from then on.
Refetch == cache.at = None \/ cache.expireAt - now > 0

\* self.regions, GetUserId (a failure of which changes nothing) and the first
\* Load.
LoadCache(c) ==
  /\ \/ Refetch /\ regions[c] = NoList /\ Len(memory) < MaxSlices /\ Begin(c, "request")
     \/ ~Refetch /\ regions[c] = NoList /\ Begin(c, "load")
     \/ regions[c] # NoList /\ Begin(c, "filter")
  /\ overlapped' =
       (overlapped \/ \E d \in Clients : pc[d] \notin {"idle", "returned", "failed"})
  /\ UNCHANGED <<cache, memory, regions, filted, copy, i>>

\* Mutant: the new list is read into the slice of the old one.
StoreCacheReuses(c) ==
  /\ pc[c] = "answer"
  /\ memory' = <<Fresh>>
  /\ cache' = [at |-> got[c], slice |-> 1, expireAt |-> now + Expire]
  /\ Goto(c, "load")
  /\ UNCHANGED <<now, began, got, regions, filted, copy, i, overlapped>>

StoreCache(c) ==
  /\ pc[c] = "answer"
  /\ memory' = Append(memory, Fresh)
  /\ cache' = [at |-> got[c], slice |-> Len(memory) + 1, expireAt |-> now + Expire]
  /\ Goto(c, "load")
  /\ UNCHANGED <<now, began, got, regions, filted, copy, i, overlapped>>

\* The second Load finds what was stored last, by whomever.
UseCache(c) ==
  /\ pc[c] = "load"
  /\ regions' = [regions EXCEPT ![c] = [at |-> cache.at, slice |-> cache.slice]]
  /\ Goto(c, "filter")
  /\ UNCHANGED <<now, began, got, cache, memory, filted, copy, i, overlapped>>

\* A copy of the elements (for the project all of them match), or the slice
\* itself; GetProjectById may fail.
Filter(c) ==
  /\ pc[c] = "filter"
  /\ \/ /\ c \in Projects
        /\ copy' = [copy EXCEPT ![c] = memory[regions[c].slice]]
        /\ UNCHANGED filted
     \/ /\ c \notin Projects
        /\ filted' = [filted EXCEPT ![c] = regions[c].slice]
        /\ UNCHANGED copy
  /\ i' = [i EXCEPT ![c] = 1]
  /\ Goto(c, "client")
  /\ UNCHANGED <<now, began, got, cache, memory, regions, overlapped>>

FilterFails(c) ==
  /\ pc[c] = "filter" /\ c \in Projects
  /\ Leave(c, "failed")
  /\ UNCHANGED <<now, huaweiVars>>

filtedRegions(c) == IF filted[c] = 0 THEN copy[c] ELSE memory[filted[c]]
Element(c) == filtedRegions(c)[i[c]]
SetElement(c, e) ==
  IF filted[c] = 0
  THEN copy' = [copy EXCEPT ![c][i[c]] = e] /\ UNCHANGED memory
  ELSE memory' = [memory EXCEPT ![filted[c]][i[c]] = e] /\ UNCHANGED copy

\* filtedRegions[i].client = self
SetClient(c) ==
  /\ pc[c] = "client"
  /\ SetElement(c, [Element(c) EXCEPT !.client = c])
  /\ Goto(c, "ecs")
  /\ UNCHANGED <<now, began, got, cache, regions, filted, i, overlapped>>

\* getECSClient makes a client only if the region has none.
GetECSClient(c) ==
  /\ pc[c] = "ecs"
  /\ SetElement(c, [Element(c) EXCEPT !.ecsClient = IF @ = Nobody THEN Element(c).client ELSE @])
  /\ IF i[c] = N
     THEN Leave(c, "returned") /\ UNCHANGED i
     ELSE Goto(c, "client") /\ i' = [i EXCEPT ![c] = @ + 1] /\ UNCHANGED <<began, got>>
  /\ UNCHANGED <<now, cache, regions, filted, overlapped>>

GetECSClientFails(c) ==
  /\ pc[c] = "ecs"
  /\ Leave(c, "failed")
  /\ UNCHANGED <<now, huaweiVars>>

HuaweiStep(c) ==
  \/ LoadCache(c) \/ StoreCache(c) \/ UseCache(c) \/ Filter(c) \/ FilterFails(c)
  \/ SetClient(c) \/ GetECSClient(c) \/ GetECSClientFails(c)
  \/ (Answered(c) \/ RequestFails(c)) /\ UNCHANGED huaweiVars

-----------------------------------------------------------------------------
\* The regions of a client use this client, and the API client that was made
\* for it, although others write to the cached list: at least as long as no
\* two of them are in fetchRegions at once and no list has expired.
OwnRegions ==
  provider = "huawei" /\ ~overlapped /\ now < Expire =>
    \A c \in Clients : pc[c] = "returned" =>
      \A r \in Region : filtedRegions(c)[r] = [client |-> c, ecsClient |-> c]

=============================================================================
