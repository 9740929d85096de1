------------------------------ MODULE Waiting ------------------------------
(***************************************************************************)
(* The waiting and retrying functions of cloudprovider (waitstatus.go,     *)
(* retry.go, resourcetags.go): a loop that asks the cloud, compares,       *)
(* sleeps and asks again, until a timeout or for a number of tries.  The   *)
(* cloud changes what is asked for whenever it likes, and so do other      *)
(* clients; a call takes time, and its answer is as old as the call.       *)
(*                                                                         *)
(* Time is a number of ticks.  A sleeping goroutine wakes on time, a call  *)
(* returns within CallTime, and code takes no time.                        *)
(***************************************************************************)
EXTENDS Integers, FiniteSets

CONSTANTS
  Moves,        \* Moves[s]: what can become of the status s in the cloud
  Interval,     \* the parameter interval
  Delay,        \* the parameter delay of the functions that have one
  Unit,         \* the 10 seconds of retry.go
  CallTime,     \* the longest time a call takes
  Timeouts,     \* what a caller may pass as timeout
  Tries,        \* what a caller may pass as maxTries
  MaxChanges    \* bound: how many changes the cloud makes

Status == DOMAIN Moves

ASSUME WaitingAssumption ==
  /\ "error" \notin Status
  /\ \A s \in Status : Moves[s] \subseteq Status
  /\ {Interval, Unit, CallTime} \subseteq Nat \ {0}
  /\ {Delay, MaxChanges} \cup Timeouts \cup Tries \subseteq Nat

VARIABLES
  fn,        \* the function that was called
  expects,   \* the statuses that it waits for (the empty set: the deletion)
  timeout, maxTries,   \* its parameters
  pc,        \* where it is
  now,       \* the clock
  start,     \* startTime
  due,       \* when the sleep ends, when the call returns at the latest
  answer,    \* what the cloud has answered to the last call
  tried,     \* tried of retry.go: how often the loop went round
  ret,       \* what it returned ("invalid": ErrInvalidStatus, or a refusal)
  cloud,     \* the status in the cloud
  since,     \* history: since when
  had,       \* history: the statuses since the function was called
  changes    \* how many changes the cloud has made

paramVars == <<fn, expects, timeout, maxTries>>
cloudVars == <<cloud, since, had, changes>>
waitVars  == <<paramVars, pc, now, start, due, answer, tried, ret, cloudVars>>

Delayed  == {"WaitStatusWithDelay", "WaitDeletedWithDelay"}
Deleting == {"WaitDeleted", "WaitDeletedWithDelay"}
Retrying == {"RetryOnError", "RetryUntil"}
WaitFunctions ==
  {"WaitStatus", "WaitMultiStatus", "WaitStatusWithInstanceErrorCheck",
   "WaitCreated", "SetTags"} \cup Delayed \cup Deleting \cup Retrying

WaitingTypeOK ==
  /\ expects \subseteq Status
  /\ now \in Nat /\ start \in 0 .. now /\ due \in Nat
  /\ tried \in Nat /\ (fn \in Retrying => tried <= maxTries)
  /\ ret \in {"none", "nil", "error", "timeout", "invalid"}
  /\ cloud \in had /\ had \subseteq Status
  /\ since \in -1 .. now
  /\ changes \in 0 .. MaxChanges

\* The function f is called to wait for e, in a cloud whose status is one of
\* S; p is where it begins, and d how long it stays there.  The status that
\* the caller knows is an old one.
Called(f, e, p, d, S) ==
  /\ fn = f
  /\ expects = e
  /\ timeout \in IF f \in Retrying THEN {0} ELSE Timeouts
  /\ maxTries \in IF f \in Retrying THEN Tries ELSE {0}
  /\ pc = p
  /\ now = 0 /\ start = 0 /\ due = d
  /\ cloud \in S
  /\ answer \in S
  /\ tried = 0
  /\ ret = "none"
  /\ since = -1 /\ had = {cloud} /\ changes = 0

-----------------------------------------------------------------------------
(* The steps that all the functions share.                                 *)

Call(p)  == pc' = p /\ due' = now + CallTime
Sleep(d) == pc' = "sleep" /\ due' = now + d /\ tried' = tried + 1

\* SetTags has no use for what Wait returns.
Returns(r) ==
  /\ ret' = IF fn = "SetTags" /\ pc # "set" THEN "nil" ELSE r
  /\ pc' = "returned"

\* time.Sleep returns; the loop, and its startTime, begin after the delay.
Wake ==
  /\ pc \in {"sleep", "delay"}
  /\ now = due
  /\ pc' = "loop"
  /\ start' = IF pc = "delay" THEN now ELSE start
  /\ UNCHANGED <<paramVars, now, due, answer, tried, ret, cloudVars>>

GoesOn == IF fn \in Retrying THEN tried < maxTries ELSE now - start < timeout

\* The condition of the loop, then Refresh, callback or tryFunc.
LoopTest ==
  /\ pc = "loop"
  /\ \/ GoesOn /\ Call("call") /\ UNCHANGED ret
     \/ ~GoesOn /\ Returns("timeout") /\ UNCHANGED due
  /\ UNCHANGED <<paramVars, now, start, answer, tried, cloudVars>>

\* The cloud answers with what is the case now, or the call fails.
Answer ==
  /\ pc = "call"
  /\ answer' \in {cloud, "error"}
  /\ pc' = "answered"
  /\ UNCHANGED <<paramVars, now, start, due, tried, ret, cloudVars>>

\* Every change that the cloud or another client may make meanwhile.
Change ==
  /\ pc # "returned"
  /\ changes < MaxChanges
  /\ cloud' \in Moves[cloud]
  /\ since' = now
  /\ had' = had \cup {cloud'}
  /\ changes' = changes + 1
  /\ UNCHANGED <<paramVars, pc, now, start, due, answer, tried, ret>>

Tick ==
  /\ pc \notin {"loop", "returned"}
  /\ now < due
  /\ now' = now + 1
  /\ UNCHANGED <<paramVars, pc, start, due, answer, tried, ret, cloudVars>>

-----------------------------------------------------------------------------
(* What each function makes of an answer.                                  *)

Reached(s) == IF fn \in Deleting THEN s = "gone" ELSE s \in expects

\* The answers that end the loop with an error: a failed call, or a resource
\* that is not found; WaitCreated's callback has no errors, SetTags asks for
\* the tags only.
Breaks(a) ==
  \/ a = "error" /\ fn # "WaitCreated"
  \/ a = "gone" /\ fn \notin Deleting \cup {"WaitCreated", "SetTags"}

\* Mutant: the pause does not grow with the tries.
PauseConstant == IF fn \in Retrying THEN Unit ELSE Interval

Pause == IF fn \in Retrying THEN Unit * (tried + 1) ELSE Interval

\* Compare the answer and return, or go on with More: sleep, mostly.
Compare(done, broken, More) ==
  /\ pc = "answered"
  /\ \/ done /\ Returns("nil") /\ UNCHANGED <<due, tried>>
     \/ ~done /\ broken /\ Returns("error") /\ UNCHANGED <<due, tried>>
     \/ ~done /\ ~broken /\ More /\ UNCHANGED ret
  /\ UNCHANGED <<paramVars, now, start, answer, cloudVars>>

\* Mutant: only the last of the awaited statuses counts.
HandleLastStatus ==
  /\ fn \in WaitFunctions
  /\ Compare(Reached(answer) /\ (fn = "WaitMultiStatus" => answer = "running"),
             Breaks(answer), Sleep(Pause))

Handle ==
  /\ fn \in WaitFunctions
  /\ Compare(Reached(answer), Breaks(answer),
             IF fn = "WaitStatusWithInstanceErrorCheck"
             THEN Call("check") /\ UNCHANGED tried
             ELSE Sleep(Pause))

\* errCheck() of WaitStatusWithInstanceErrorCheck.
ErrCheck ==
  /\ pc = "check"
  /\ \/ Sleep(Interval) /\ UNCHANGED ret
     \/ Returns("error") /\ UNCHANGED <<due, tried>>
  /\ UNCHANGED <<paramVars, now, start, answer, cloudVars>>

\* res.SetTags of SetTags, then the Wait.
SetTagsCall ==
  /\ pc = "set"
  /\ \/ pc' = "loop" /\ start' = now /\ UNCHANGED ret
     \/ Returns("error") /\ UNCHANGED start
  /\ UNCHANGED <<paramVars, now, due, answer, tried, cloudVars>>

WaitStep == Wake \/ LoopTest \/ Answer \/ Handle \/ ErrCheck \/ SetTagsCall

-----------------------------------------------------------------------------
WaitingInit(S) ==
  \/ Called("WaitStatus", {"running"}, "loop", 0, S)
  \/ Called("WaitStatusWithInstanceErrorCheck", {"running"}, "loop", 0, S)
  \/ Called("WaitStatusWithDelay", {"running"}, "delay", Delay, S)
  \/ Called("WaitMultiStatus", {"ready", "running"}, "loop", 0, S)
  \/ Called("WaitDeleted", {}, "loop", 0, S)
  \/ Called("WaitDeletedWithDelay", {}, "delay", Delay, S)
  \/ Called("WaitCreated", {"running"}, "loop", 0, S)
  \/ \E f \in Retrying : Called(f, {"running"}, "loop", 0, S)
  \/ Called("SetTags", {"tagged"}, "set", CallTime, {"tagged", "untagged"})

-----------------------------------------------------------------------------
(* What a caller may rely on.                                              *)

\* The longest time from one look at the cloud to the end of the pause after
\* it, and the longest that all tries together take.
Lap == Interval + CallTime * (IF fn = "WaitStatusWithInstanceErrorCheck" THEN 2 ELSE 1)
LastLap == Unit * maxTries + CallTime
AllTries == Unit * ((maxTries * (maxTries + 1)) \div 2) + maxTries * CallTime

\* A status that the resource reached and kept in time is seen: a wait times
\* out only when the status was reached later than one lap before the end,
\* or not at all (and a retry only when it would not have succeeded since
\* the last try).  Without a timeout or a try nobody looks; and a callback
\* of WaitCreated that failed has not seen anything.
KeptIsSeen ==
  fn \in WaitFunctions /\ ret = "timeout" /\ Reached(cloud) /\ answer # "error" =>
    IF fn \in Retrying
    THEN maxTries = 0 \/ since >= now - LastLap
    ELSE timeout = 0 \/ (since >= start /\ since >= start + timeout - Lap)

\* The timeout is overrun by less than one lap; retries pause for 1, 2, ...
\* units, the last one too, and "timeout" is not returned any earlier.
EndsInTime ==
  pc = "returned" /\ fn \in WaitFunctions =>
    IF fn \in Retrying
    THEN /\ now - start <= AllTries
         /\ ret = "timeout" => now - start >= AllTries - maxTries * CallTime
    ELSE /\ now - start < timeout + Lap
         /\ ret = "timeout" => now - start >= timeout

\* nil means that the resource has been in the awaited status since the
\* function was called, whatever the caller knew of it before; only SetTags
\* returns nil as well when the tags could not be read or did not show.
NilMeansReached ==
  fn \in WaitFunctions /\ ret = "nil" =>
    \/ \E s \in had : Reached(s)
    \/ fn = "SetTags" /\ (answer = "error" \/ now - start >= timeout)

\* Every call returns, whatever other clients do, if what the cloud itself
\* has begun comes to its end.
EventuallyReturns == <>(pc = "returned")

=============================================================================
