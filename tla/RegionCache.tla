---------------------------- MODULE RegionCache ----------------------------
(***************************************************************************)
(* What fetchRegions of aws/aws.go and of huawei/huawei.go have in common: *)
(* the clients of one account ask the cloud for the list of regions and    *)
(* share it in package variables (sync.Map).  Every Load and Store is a    *)
(* step of its own.                                                        *)
(*                                                                         *)
(* A list is known by the time at which the cloud gave it.  Code takes no  *)
(* time, a request at most CallTime.                                       *)
(***************************************************************************)
EXTENDS Integers, FiniteSets

CONSTANTS
  Clients,
  CallTime,    \* the longest time a request takes
  MaxTime      \* bound: the end of time

ASSUME RegionAssumption == {CallTime, MaxTime} \subseteq Nat

None == -1

VARIABLES
  provider,    \* whose fetchRegions it is
  now,         \* the clock
  pc,          \* pc[c]: where the client c is
  began,       \* began[c]: when it called fetchRegions, and sent its request
  got          \* got[c]: the list that the cloud has given it

clientVars == <<provider, now, pc, began, got>>

ClientsInit ==
  /\ provider \in {"aws", "huawei"}
  /\ now = 0
  /\ pc = [c \in Clients |-> "idle"]
  /\ began = [c \in Clients |-> None]
  /\ got = [c \in Clients |-> None]

Goto(c, p) == pc' = [pc EXCEPT ![c] = p]

\* fetchRegions returns, and its variables are forgotten.
Leave(c, p) ==
  /\ Goto(c, p)
  /\ began' = [began EXCEPT ![c] = None]
  /\ got' = [got EXCEPT ![c] = None]

\* fetchRegions is called, for the first time or again.
Begin(c, p) ==
  /\ pc[c] \in {"idle", "returned", "failed"}
  /\ Goto(c, p)
  /\ began' = [began EXCEPT ![c] = now]
  /\ UNCHANGED <<now, got>>

\* The cloud answers the request at some moment while c waits for it.
Answered(c) ==
  /\ pc[c] = "request"
  /\ got' = [got EXCEPT ![c] = now]
  /\ Goto(c, "answer")
  /\ UNCHANGED <<now, began>>

\* DescribeRegions, or Regions.List, fails: so does fetchRegions.
RequestFails(c) ==
  /\ pc[c] \in {"request", "answer"}
  /\ Leave(c, "failed")
  /\ UNCHANGED now

\* Time passes only for those who wait for a request, or do nothing.
TimePasses ==
  /\ now < MaxTime
  /\ \A c \in Clients :
       \/ pc[c] \in {"idle", "returned", "failed", "panicked"}
       \/ pc[c] \in {"request", "answer"} /\ now < began[c] + CallTime
  /\ now' = now + 1
  /\ UNCHANGED <<pc, began, got>>

=============================================================================
