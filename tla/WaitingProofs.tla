--------------------------- MODULE WaitingProofs ---------------------------
(***************************************************************************)
(* Theorems about the waiting functions, the operations of machines and    *)
(* the requests of Azure, for all intervals, delays, timeouts, tries and   *)
(* durations of calls, for every table of what can become of a status, and *)
(* for any number of changes that the cloud and other clients make.        *)
(***************************************************************************)
EXTENDS MCWaiting, TLAPS

Asked == {"call", "answered"}

-----------------------------------------------------------------------------
(* The invariants.                                                         *)

\* The parameters and the numbers.
Numbers ==
  /\ fn \in WaitFunctions \cup PowerFunctions \cup {"_jsonRequest"}
  /\ "error" \notin expects
  /\ timeout \in Nat /\ maxTries \in Nat
  /\ now \in Nat /\ start \in Nat /\ due \in Nat /\ tried \in Nat
  /\ since \in Int
  /\ ret # "none" <=> pc = "returned"
  /\ pc = "check" => fn = "WaitStatusWithInstanceErrorCheck"
  /\ fn = "_jsonRequest" => cloud \in Status

\* What is known of a request that has not come to its end.
Requested ==
  /\ prepaid => fn = "DeleteVM"
  /\ sent \in Nat
  /\ pending \in {"none", "starting", "stopping", "closing", "deleting"}

\* An answer is a status that the resource has had since the call, and a
\* function returns nil upon nothing else.
Truth ==
  /\ cloud \in had
  /\ pc = "answered" =>
       IF fn = "_jsonRequest"
       THEN answer \in {"OSProvisioning", "resource", "Succeeded"} =>
              had \cap {"Succeeded", "OSProvisioning"} # {}
       ELSE answer \in had \cup {"error"}
  /\ NilIsTrue

Tri(n)  == (n * (n + 1)) \div 2
Cost(n) == Unit * Tri(n) + n * CallTime

\* Where a function is, it is in time to return in time.
WaitClock ==
  fn \in WaitFunctions \ Retrying =>
    /\ pc = "set" => start = 0 /\ due = CallTime /\ now <= due
    /\ pc = "delay" => now <= due
    /\ pc = "loop" => now - start < timeout + Lap
    /\ pc \in Asked => now <= due /\ due - start < timeout + CallTime
    /\ pc = "check" => /\ fn = "WaitStatusWithInstanceErrorCheck"
                       /\ now <= due /\ due - start < timeout + 2 * CallTime
    /\ pc = "sleep" => now <= due /\ due - start < timeout + Lap

RetryClock ==
  fn \in Retrying =>
    /\ pc \notin {"set", "delay", "check"}
    /\ pc = "loop" => /\ tried <= maxTries
                      /\ Unit * Tri(tried) <= now - start /\ now - start <= Cost(tried)
    /\ pc \in Asked => /\ tried < maxTries /\ now <= due
                       /\ due - start <= Cost(tried) + CallTime
                       /\ Unit * Tri(tried) <= now - start
    /\ pc = "sleep" => /\ tried <= maxTries /\ now <= due
                       /\ Unit * Tri(tried) <= due - start /\ due - start <= Cost(tried)

\* What the cloud says now; whether the end was reached and the last answer
\* did not say so; how long ago, at the end of a pause, the call before it
\* can have been made.
Fresh  == IF fn = "_jsonRequest" THEN answer \in Polled(cloud) ELSE answer \in {cloud, "error"}
Unseen == IF fn = "_jsonRequest" THEN cloud \in Ended /\ answer # "Retry-After"
          ELSE Reached(cloud) /\ answer # "error"
Gap    == IF fn \in Retrying THEN Unit * tried + CallTime
          ELSE IF fn = "_jsonRequest" THEN Interval + RetryAfter + CallTime ELSE Lap
Late(n) == Unseen => since >= start /\ since >= due - n

\* The end that an answer does not show was reached after the call.
Seen ==
  fn \notin PowerFunctions =>
    /\ start <= now
    /\ fn = "_jsonRequest" /\ pc \notin {"request", "returned"} =>
         style \in {"Azure-Asyncoperation", "Location"}
    /\ fn = "_jsonRequest" => style \in Style
    /\ pc \in {"set", "delay", "request"} => tried = 0
    /\ pc = "loop" => /\ tried = 0 => now = start
                      /\ tried > 0 => now = due /\ Late(Gap)
    /\ pc \in Asked => start <= due - CallTime /\ due - CallTime <= now /\ now <= due
    /\ pc = "answered" => Fresh \/ since >= due - CallTime
    /\ pc = "check" => /\ fn = "WaitStatusWithInstanceErrorCheck"
                       /\ due - CallTime <= now /\ Late(2 * CallTime)
    /\ pc = "sleep" => tried > 0 /\ due - Gap <= now /\ Late(Gap)

\* StartVM asks for the start of a machine that is off, which is so until
\* the request is taken, when nobody else touches it; it asks again when the
\* start does not show, or when the answer is lost.
Starts ==
  fn = "StartVM" /\ ~meddled =>
    /\ sends = 0 => pending = "none"
    /\ sends # 0 => Real \in {"starting", "running"}
    /\ sends <= 1 \/ (provider = "aws" /\ lags)
    /\ pc \in {"status", "send", "pause"} =>
         \/ sends = 0 /\ cloud = "ready"
         \/ sends = 1 /\ (lags \/ ResendsLost)
         \/ sends # 0 /\ provider = "aws" /\ lags /\ pc # "status"
    /\ pc = "answered" /\ answer = "ready" => (sends = 0 /\ cloud = "ready") \/ (sends # 0 /\ lags)

\* The machine takes the request of StopVM once, since it is on its way down
\* afterwards, or off; and without having been on its way up or down it runs,
\* or is off.
Stops ==
  fn = "StopVM" /\ ~meddled =>
    /\ sends = 0 => pending = "none"
    /\ sends # 0 => sends = 1 /\ Real \in {"stopping", "ready"}
    /\ pc \in {"begin", "status"} => sends = 0
    /\ pc \in {"send", "pause"} => sends = 0 \/ ResendsLost
    /\ sends = 0 /\ had \cap {"starting", "stopping"} = {} =>
         /\ cloud \in {"ready", "running"}
         /\ pc \in {"send", "pause"} /\ provider # "aws" => cloud = "running"

\* The machine takes the request of DeleteVM once, and, when it is prepaid, a
\* second time in the recycle bin.
Deletes ==
  fn = "DeleteVM" =>
    /\ provider # "aws"
    /\ ~meddled =>
         /\ sends = 0 => pending = "none" /\ cloud \in {"ready", "starting", "running", "stopping"}
         /\ sends = 1 => Real \in IF prepaid THEN {"closing", "shutdown"} ELSE {"deleting", "gone"}
         /\ sends \notin {0, 1} => prepaid /\ sends = 2 /\ Real \in {"deleting", "gone"}

Powered ==
  /\ sends \in Nat
  /\ ~lags => pending = "none"
  /\ fn \notin PowerFunctions => sends = 0 /\ ret # "invalid"
  /\ Starts
  /\ Stops
  /\ Deletes
  /\ RefusedByOthers

-----------------------------------------------------------------------------
(* The types of what is counted and measured.                              *)

\* A function that is called starts with numbers, and with no result.
LEMMA CalledNumbers ==
  ASSUME NEW f \in WaitFunctions \cup PowerFunctions \cup {"_jsonRequest"},
         NEW e, "error" \notin e, NEW p, p \notin {"returned", "check"}, NEW d \in Nat, NEW S,
         Called(f, e, p, d, S), f = "_jsonRequest" => S \subseteq Status
  PROVE  Numbers
<1>1. /\ \A t \in Timeouts : t \in Nat
      /\ \A t \in Tries : t \in Nat
  BY WaitingAssumption
<1>2. timeout \in Nat /\ maxTries \in Nat
  BY <1>1 DEF Called
<1> QED
  BY <1>2 DEF Called, Numbers

\* So do all of them.
LEMMA NumbersInit ==
  ASSUME Init
  PROVE  Numbers
<1>1. Delay \in Nat /\ CallTime \in Nat /\ 0 \in Nat
  BY WaitingAssumption
<1>2. ASSUME NEW S, WaitingInit(S) PROVE Numbers
  BY <1>1, <1>2, CalledNumbers DEF WaitingInit, WaitFunctions, Delayed, Deleting, Retrying
<1>3. CASE PowerInit
  BY <1>1, <1>3, CalledNumbers DEF PowerInit, PowerFunctions
<1>4. CASE AzureInit
  <2>1. {"InProgress", "Accepted"} \subseteq Status
    BY AzureAssumption DEF Operation
  <2> QED
    BY <1>1, <1>4, <2>1, CalledNumbers DEF AzureInit
<1> QED
  BY <1>2, <1>3, <1>4 DEF Init

\* No request is on its way.
LEMMA RequestedInit ==
  ASSUME Init
  PROVE  Requested
<1>1. sent = 0 /\ pending = "none"
  BY DEF Init, PowerInit, NoPower
<1>2. PowerInit \/ NoPower
  BY DEF Init
<1>3. PowerInit => prepaid \in IF provider = "qcloud" /\ fn = "DeleteVM" THEN BOOLEAN ELSE {FALSE}
  BY DEF PowerInit
<1>4. prepaid => fn = "DeleteVM"
  BY <1>2, <1>3 DEF NoPower
<1> QED
  BY <1>1, <1>4 DEF Requested

\* What the requests do, by cases.
LEMMA EffectsAre ==
  ASSUME fn \in PowerFunctions, prepaid => fn = "DeleteVM"
  PROVE  /\ fn = "StartVM" => /\ Wanted = "running" /\ DOMAIN Effect = {"ready"}
                              /\ Effect["ready"] = "starting"
         /\ fn = "StopVM" => /\ Wanted = "ready" /\ DOMAIN Effect = {"running"}
                             /\ Effect["running"] = "stopping"
         /\ fn = "DeleteVM" /\ prepaid =>
              /\ DOMAIN Effect = {"ready", "running", "shutdown"}
              /\ Effect["ready"] = "closing" /\ Effect["running"] = "closing"
              /\ Effect["shutdown"] = "deleting"
         /\ fn = "DeleteVM" /\ ~prepaid =>
              /\ DOMAIN Effect = {"ready", "running", "stopping"}
              /\ \A s \in DOMAIN Effect : Effect[s] = "deleting"
         /\ \A s \in DOMAIN Effect : Effect[s] \in {"starting", "stopping", "closing", "deleting"}
<1>1. fn = "StartVM" => Effect = [ready |-> "starting"]
  BY DEF Effect
<1>2. fn = "StopVM" => Effect = [running |-> "stopping"]
  BY DEF Effect
<1>3. fn = "DeleteVM" /\ prepaid =>
        Effect = [ready |-> "closing", running |-> "closing", shutdown |-> "deleting"]
  BY DEF Effect
<1>4. fn = "DeleteVM" /\ ~prepaid =>
        Effect = [ready |-> "deleting", running |-> "deleting", stopping |-> "deleting"]
  BY DEF Effect
<1> QED
  BY <1>1, <1>2, <1>3, <1>4 DEF Wanted, PowerFunctions

\* No step changes the function and its parameters.
LEMMA SameFunction ==
  ASSUME [Next]_vars
  PROVE  UNCHANGED <<fn, expects, timeout, maxTries>>
BY DEF Next, vars, waitVars, paramVars, Step, Environment, WaitStep, PowerStep, AzureStep, Wake,
   LoopTest, Answer, Handle, Compare, ErrCheck, SetTagsCall, Begin, StartHandle, WaitHandle,
   ShutdownHandle, RegionStatus, RegionSend, Resend, Show, SendRequest, Poll, PollHandle, Change, Meddle, Settle, Tick

\* Only the functions that send it change what is known of a request.
LEMMA RequestedStep ==
  ASSUME Numbers, Requested, [Next]_vars
  PROVE  Requested'
<1>1. CASE UNCHANGED powerVars
  <2>1. fn' = fn
    BY SameFunction
  <2> QED
    BY <1>1, <2>1 DEF powerVars, Requested
<1>2. CASE RegionSend /\ fn \in PowerFunctions
  <2>1. UNCHANGED <<fn, prepaid>> /\ sent' \in {0, sent, sent + 1}
    BY <1>2 DEF RegionSend, Succeeds, Gives, SendsAgain, paramVars
  <2>2. pending' \in {"none", "starting", "stopping", "closing", "deleting"}
    BY <1>2, EffectsAre DEF RegionSend, Take, Requested
  <2> QED
    BY <2>1, <2>2 DEF Requested
<1>3. CASE Begin \/ ShutdownHandle \/ RegionStatus
  BY <1>3 DEF Begin, ShutdownHandle, RegionStatus, requestVars, paramVars, Requested
<1>4. CASE Meddle \/ Show
  BY <1>4 DEF Meddle, Change, Show, paramVars, Requested
<1> QED
  BY <1>1, <1>2, <1>3, <1>4 DEF Next, Step, Environment, PowerStep, vars, StartHandle, WaitHandle, Settle, Resend

\* Every step keeps them.
LEMMA NumbersStep ==
  ASSUME Numbers, Requested, [Next]_vars
  PROVE  Numbers'
<1> USE DEF Numbers, paramVars, cloudVars
<1>a. /\ Interval \in Nat /\ Unit \in Nat /\ CallTime \in Nat /\ RetryAfter \in Nat
  BY WaitingAssumption, AzureAssumption
<1>1. CASE UNCHANGED vars
  BY <1>1 DEF vars, waitVars
<1>2. CASE Wake \/ LoopTest \/ Answer
  BY <1>a, <1>2 DEF Wake, LoopTest, Answer, Call, Returns
<1>3. CASE Handle
  <2>1. Unit * (tried + 1) \in Nat
    BY <1>a
  <2> QED
    BY <1>a, <1>3, <2>1 DEF Handle, Compare, Sleep, Call, Returns, Pause
<1>4. CASE ErrCheck \/ SetTagsCall
  BY <1>a, <1>4 DEF ErrCheck, SetTagsCall, Sleep, Returns
<1>5. CASE (Begin \/ StartHandle \/ WaitHandle \/ ShutdownHandle)
  BY <1>a, <1>5 DEF powerVars, requestVars, Begin, StartHandle, WaitHandle, ShutdownHandle, Compare, Sleep, CallRegion, Loop, Returns
<1>6. CASE RegionStatus
  BY <1>a, <1>6 DEF requestVars, RegionStatus, Content, Sleep, Loop, Returns
<1>7. CASE RegionSend /\ fn \in PowerFunctions
  <2>1. Unit * (sent + 1) \in Nat /\ sent + 1 \in Nat
    BY <1>a DEF Requested
  <2>2. /\ pc = "send" /\ ret = "none" /\ UNCHANGED <<fn, expects, timeout, maxTries, now>>
        /\ since' = since \/ since' = now
        /\ fn # "SetTags" /\ fn # "_jsonRequest"
    BY <1>7 DEF RegionSend, Take, PowerFunctions
  <2>3. /\ ret' # "none" <=> pc' = "returned"
        /\ pc' # "check"
        /\ start' \in {start, now} /\ due' \in {due, now, now + Interval, now + Unit * (sent + 1)}
        /\ tried' \in {tried, tried + 1}
    BY <1>7, <2>2 DEF RegionSend, Succeeds, Gives, SendsAgain, Content, Sleep, Loop, Returns
  <2> QED
    BY <1>a, <2>1, <2>2, <2>3
<1>11. CASE Resend \/ (Show /\ fn \in PowerFunctions)
  BY <1>11 DEF Resend, Show, powerVars, PowerFunctions
<1>8. CASE SendRequest \/ Poll \/ PollHandle
  BY <1>a, <1>8 DEF SendRequest, Poll, PollHandle, Compare, Sleep, Returns
<1>9. CASE Change
  BY <1>9, WaitingAssumption DEF Change
<1>10. CASE (Settle /\ fn \in PowerFunctions) \/ Tick
  BY <1>10 DEF Settle, Tick, powerVars, PowerFunctions
<1> QED
  BY <1>1, <1>2, <1>3, <1>4, <1>5, <1>6, <1>7, <1>8, <1>9, <1>10, <1>11
     DEF Next, Step, Environment, WaitStep, PowerStep, AzureStep, Meddle, powerVars

-----------------------------------------------------------------------------
(* nil is the truth.                                                       *)

\* Nothing has been answered, nothing returned.
LEMMA TruthInit ==
  ASSUME Init
  PROVE  Truth
<1>1. ret = "none" /\ had = {cloud} /\ pc # "answered"
  BY DEF Init, WaitingInit, PowerInit, AzureInit, Called
<1> QED
  BY <1>1 DEF Truth, NilIsTrue, NilMeansReached, PowerNilReached, AzureNilMeansEnded

\* What was true when nil was returned stays so: the statuses that the
\* resource has had become more, and nothing else changes any more.
LEMMA NilStays ==
  ASSUME NilIsTrue, UNCHANGED <<fn, expects, timeout, ret, answer, provider, style>>,
         had \subseteq had', stage = "cached" => stage' = "cached",
         ret = "nil" => UNCHANGED <<now, start>>
  PROVE  NilIsTrue'
<1>1. \A s : Reached(s)' <=> Reached(s)
  BY DEF Reached
<1>2. NilMeansReached'
  BY <1>1 DEF NilIsTrue, NilMeansReached
<1>3. PowerNilReached'
  BY DEF NilIsTrue, PowerNilReached, Wanted
<1>4. AzureNilMeansEnded'
  BY DEF NilIsTrue, AzureNilMeansEnded
<1> QED
  BY <1>2, <1>3, <1>4 DEF NilIsTrue

\* As long as nothing is returned there is nothing to believe.
LEMMA NoNil ==
  ASSUME ret' # "nil"
  PROVE  NilIsTrue'
BY DEF NilIsTrue, NilMeansReached, PowerNilReached, AzureNilMeansEnded

\* An answer that the operation has ended is given by one that has; one that
\* has ended is answered with its end, unless the answer is to ask later.
LEMMA PolledTells ==
  ASSUME cloud \in Status
  PROVE  /\ \A a \in Polled(cloud) :
              a \in {"OSProvisioning", "resource", "Succeeded"} =>
                cloud \in {"Succeeded", "OSProvisioning"}
         /\ cloud \in Ended /\ style \in {"Azure-Asyncoperation", "Location"} =>
              \A a \in Polled(cloud) :
                a \in {"OSProvisioning", "resource", "Succeeded", "error", "Failed", "Retry-After"}
<1>1. CASE cloud = "OSProvisioning"
  BY <1>1 DEF Polled, Ended
<1>2. CASE cloud # "OSProvisioning" /\ style = "Azure-Asyncoperation"
  <2>1. Polled(cloud) = {"error", "Retry-After", cloud}
    BY <1>2 DEF Polled
  <2> QED
    BY <1>2, <2>1, AzureAssumption DEF Ended
<1>3. CASE cloud = "Succeeded" /\ style = "Location"
  BY <1>3 DEF Polled, Ended
<1>4. CASE cloud = "Failed" /\ style = "Location"
  BY <1>4 DEF Polled, Ended
<1>5. CASE /\ cloud # "OSProvisioning" /\ style # "Azure-Asyncoperation"
           /\ ~(cloud = "Succeeded" /\ style = "Location")
           /\ ~(cloud = "Failed" /\ style = "Location")
  <2>1. Polled(cloud) = {"error", "Retry-After", "empty"}
    BY <1>5 DEF Polled
  <2> QED
    BY <1>5, <2>1 DEF Ended
<1> QED
  BY <1>1, <1>2, <1>3, <1>4, <1>5

\* Every step keeps it: only what was asked for after the call counts.
LEMMA TruthStep ==
  ASSUME Numbers, Requested, Truth, [Next]_vars
  PROVE  Truth'
<1> USE DEF Numbers, Requested, paramVars, cloudVars
<1>0. ret = "nil" => pc = "returned"
  OBVIOUS
<1>1. CASE UNCHANGED vars
  BY <1>1, NilStays DEF vars, waitVars, powerVars, Truth
<1>2. CASE Wake
  BY <1>0, <1>2, NoNil DEF Wake, Truth
<1>3. CASE LoopTest
  <2>1. CASE GoesOn
    BY <1>0, <1>3, <2>1, NoNil DEF LoopTest, Call, Truth
  <2>2. CASE ~GoesOn
    <3>1. /\ pc = "loop" /\ pc' = "returned" /\ UNCHANGED <<fn, timeout, now, start, cloud, had>>
          /\ ret' = "nil" => fn = "SetTags"
      BY <1>3, <2>2 DEF LoopTest, Returns
    <3>2. fn = "SetTags" => now - start >= timeout
      BY <2>2 DEF GoesOn, Retrying
    <3> QED
      BY <3>1, <3>2 DEF Truth, NilIsTrue, NilMeansReached, PowerNilReached, AzureNilMeansEnded, PowerFunctions
  <2> QED
    BY <2>1, <2>2
<1>4. CASE Answer /\ fn # "_jsonRequest"
  BY <1>0, <1>4, NoNil DEF Answer, Truth
<1>5. CASE Handle
  <2>1. /\ pc = "answered" /\ pc' # "answered" /\ fn \in WaitFunctions
        /\ UNCHANGED <<fn, expects, timeout, now, start, answer, cloud, had>>
        /\ \/ Reached(answer)
           \/ ret' # "nil"
           \/ fn = "SetTags" /\ Breaks(answer)
    BY <1>0, <1>5 DEF Handle, Compare, Call, Sleep, Returns
  <2>2. answer \in had \cup {"error"} /\ ~Reached("error")
    BY <2>1 DEF Truth, Reached, WaitFunctions, Delayed, Deleting, Retrying
  <2>3. fn = "SetTags" /\ Breaks(answer) => answer = "error"
    BY DEF Breaks
  <2>4. \A s : Reached(s)' <=> Reached(s)
    BY <2>1 DEF Reached
  <2>5. NilMeansReached'
    BY <2>1, <2>2, <2>3, <2>4 DEF NilMeansReached
  <2>6. fn \notin PowerFunctions /\ fn # "_jsonRequest"
    BY <2>1 DEF WaitFunctions, PowerFunctions, Delayed, Deleting, Retrying
  <2> QED
    BY <2>1, <2>5, <2>6 DEF Truth, NilIsTrue, PowerNilReached, AzureNilMeansEnded
<1>6. CASE (ErrCheck \/ SetTagsCall) /\ fn \in WaitFunctions
  <2>1. /\ pc' # "answered" /\ UNCHANGED <<fn, cloud, had>>
        /\ ret' # "nil"
    BY <1>0, <1>6 DEF ErrCheck, SetTagsCall, Sleep, Returns
  <2> QED
    BY <2>1, NoNil DEF Truth
<1>7. CASE Begin /\ fn \in PowerFunctions
  <2>1. /\ pc' # "answered" /\ UNCHANGED <<fn, cloud, had, provider>>
        /\ ret' = "nil" => provider = "huawei" /\ stage' = "cached"
    BY <1>0, <1>7 DEF Begin, TrustsCache, Returns, Loop, CallRegion
  <2>2. fn \notin WaitFunctions /\ fn # "_jsonRequest"
    BY <1>7 DEF WaitFunctions, PowerFunctions, Delayed, Deleting, Retrying
  <2> QED
    BY <2>1, <2>2 DEF Truth, NilIsTrue, NilMeansReached, PowerNilReached, AzureNilMeansEnded
<1>8. CASE (StartHandle \/ WaitHandle) /\ fn \in PowerFunctions
  <2>1. /\ pc = "answered" /\ pc' # "answered" /\ UNCHANGED <<fn, cloud, had, answer>>
        /\ ret' = "nil" => answer = Wanted
    BY <1>0, <1>8 DEF StartHandle, WaitHandle, Compare, Sleep, CallRegion, Returns, Wanted
  <2>2. fn \notin WaitFunctions /\ fn # "_jsonRequest"
    BY <1>8 DEF WaitFunctions, PowerFunctions, Delayed, Deleting, Retrying
  <2>3. Wanted # "error" /\ Wanted' = Wanted
    BY <1>8, <2>1 DEF Wanted, PowerFunctions
  <2>4. ret' = "nil" => Wanted \in had
    BY <2>1, <2>2, <2>3 DEF Truth
  <2> QED
    BY <2>1, <2>2, <2>3, <2>4 DEF Truth, NilIsTrue, NilMeansReached, PowerNilReached, AzureNilMeansEnded
<1>9. CASE ShutdownHandle
  BY <1>0, <1>9, NoNil DEF ShutdownHandle, Sleep, CallRegion, Truth
<1>10. CASE RegionStatus /\ fn \in PowerFunctions
  <2>1. pc' # "answered" /\ UNCHANGED <<cloud, had>> /\ ret' # "nil"
    BY <1>0, <1>10 DEF RegionStatus, Content, Sleep, Loop, Returns, PowerFunctions
  <2> QED
    BY <2>1, NoNil DEF Truth
<1>11. CASE RegionSend /\ fn \in PowerFunctions
  <2>1. fn' = fn /\ (UNCHANGED <<cloud, had>> \/ had' = had \cup {cloud'})
    BY <1>11 DEF RegionSend, Take
  <2>2. pc' # "answered" /\ (ret' = "nil" => Excused)
    BY <1>0, <1>11 DEF RegionSend, Succeeds, Gives, SendsAgain, Content, Sleep, Loop, Returns, PowerFunctions
  <2>3. Wanted' = Wanted /\ Wanted \in {"running", "ready", "gone"}
    BY <1>11, <2>1 DEF Wanted, PowerFunctions
  <2>4. ret' = "nil" => Wanted \in had
    BY <2>2, <2>3 DEF Excused, Real, Truth
  <2>5. fn \notin WaitFunctions /\ fn # "_jsonRequest"
    BY <1>11 DEF WaitFunctions, PowerFunctions, Delayed, Deleting, Retrying
  <2>6. had \subseteq had' /\ cloud' \in had'
    BY <2>1 DEF Truth
  <2> QED
    BY <2>1, <2>2, <2>3, <2>4, <2>5, <2>6 DEF Truth, NilIsTrue, NilMeansReached, PowerNilReached, AzureNilMeansEnded
<1>12. CASE SendRequest /\ fn = "_jsonRequest"
  <2>1. /\ pc' # "answered" /\ UNCHANGED <<fn, cloud, had, style>>
        /\ ret' = "nil" => style \in {"id", "plain"}
    BY <1>0, <1>12 DEF SendRequest, Returns
  <2> QED
    BY <1>12, <2>1 DEF Truth, NilIsTrue, NilMeansReached, PowerNilReached, AzureNilMeansEnded,
       WaitFunctions, PowerFunctions, Delayed, Deleting, Retrying
<1>13. CASE Poll
  <2>1. /\ answer' \in Polled(cloud) /\ UNCHANGED <<fn, cloud, had, ret>> /\ pc = "call" /\ fn = "_jsonRequest"
    BY <1>13 DEF Poll
  <2>2. answer' \in {"OSProvisioning", "resource", "Succeeded"} => cloud \in {"Succeeded", "OSProvisioning"}
    BY <2>1, PolledTells
  <2> QED
    BY <1>0, <2>1, <2>2, NoNil DEF Truth
<1>14. CASE PollHandle
  <2>1. /\ pc = "answered" /\ pc' # "answered" /\ UNCHANGED <<fn, cloud, had, style>> /\ fn = "_jsonRequest"
        /\ ret' = "nil" => Done
    BY <1>0, <1>14 DEF PollHandle, Compare, Sleep, Returns
  <2>2. ret' = "nil" => had \cap {"Succeeded", "OSProvisioning"} # {}
    BY <2>1 DEF Done, Truth
  <2> QED
    BY <2>1, <2>2 DEF Truth, NilIsTrue, NilMeansReached, PowerNilReached, AzureNilMeansEnded,
       WaitFunctions, PowerFunctions, Delayed, Deleting, Retrying
<1>15. CASE Change \/ Settle \/ Show
  <2>1. pc # "returned" /\ UNCHANGED <<fn, pc, ret, answer>> /\ had' = had \cup {cloud'}
    BY <1>15 DEF Change, Settle, Show
  <2> QED
    BY <1>0, <2>1, NoNil DEF Truth
<1>16. CASE Tick
  BY <1>0, <1>16, NoNil DEF Tick, Truth
<1>17. CASE Resend
  BY <1>0, <1>17, NoNil DEF Resend, Truth
<1> QED
  BY <1>17, <1>1, <1>2, <1>3, <1>4, <1>5, <1>6, <1>7, <1>8, <1>9, <1>10, <1>11, <1>12, <1>13, <1>14, <1>15, <1>16
     DEF Next, Step, Environment, WaitStep, PowerStep, AzureStep, Meddle,
         WaitFunctions, PowerFunctions, Delayed, Deleting, Retrying

-----------------------------------------------------------------------------
(* The end comes in time.                                                  *)

\* The times are positive.
LEMMA Times ==
  /\ Interval \in Nat /\ Interval >= 1 /\ Unit \in Nat /\ Unit >= 1
  /\ CallTime \in Nat /\ CallTime >= 1
  /\ Delay \in Nat /\ RetryAfter \in Nat
BY WaitingAssumption, AzureAssumption

\* A product of naturals is a natural, and is monotone.
LEMMA Product ==
  ASSUME NEW u \in Nat, NEW a \in Nat, NEW b \in Nat, a <= b
  PROVE  u * a \in Nat /\ u * a <= u * b
<1>1. PICK d \in Nat : b = a + d
  <2>1. b - a \in Nat /\ b = a + (b - a)
    OBVIOUS
  <2> QED
    BY <2>1
<1>2. u * b = u * a + u * d
  BY <1>1
<1>3. u * d \in Nat /\ u * a \in Nat
  OBVIOUS
<1> QED
  BY <1>2, <1>3

\* n * (n + 1) is even.
LEMMA Even ==
  ASSUME NEW n \in Nat
  PROVE  (n * (n + 1)) % 2 = 0
<1>1. PICK k \in Nat : n = 2 * k \/ n = 2 * k + 1
  <2>1. n \div 2 \in Nat /\ (n = 2 * (n \div 2) \/ n = 2 * (n \div 2) + 1)
    OBVIOUS
  <2> QED
    BY <2>1
<1>2. PICK m \in Nat : n * (n + 1) = 2 * m
  <2>1. CASE n = 2 * k
    <3>1. n * (n + 1) = 2 * (k * (n + 1)) /\ k * (n + 1) \in Nat
      BY <2>1
    <3> QED
      BY <3>1
  <2>2. CASE n = 2 * k + 1
    <3>1. n + 1 = 2 * (k + 1)
      BY <2>2
    <3>2. n * (n + 1) = 2 * (n * (k + 1)) /\ n * (k + 1) \in Nat
      BY <3>1
    <3> QED
      BY <3>2
  <2> QED
    BY <1>1, <2>1, <2>2
<1> QED
  BY <1>2

\* The pauses of the tries add up to the triangular numbers.
LEMMA TriStep ==
  ASSUME NEW n \in Nat
  PROVE  Tri(n) \in Nat /\ Tri(n + 1) = Tri(n) + n + 1 /\ Tri(0) = 0
<1>1. n * (n + 1) \in Nat /\ (n + 1) * ((n + 1) + 1) = n * (n + 1) + 2 * (n + 1)
  OBVIOUS
<1>2. (n * (n + 1)) % 2 = 0
  BY Even
<1>3. Tri(n + 1) = Tri(n) + (n + 1)
  BY <1>1, <1>2 DEF Tri
<1> QED
  BY <1>1, <1>3 DEF Tri

\* One try more costs one pause and one call more.
LEMMA CostStep ==
  ASSUME NEW n \in Nat
  PROVE  /\ Tri(n) \in Nat /\ Unit * Tri(n) \in Nat /\ Cost(n) \in Nat
         /\ Unit * (n + 1) \in Nat
         /\ Unit * Tri(n + 1) = Unit * Tri(n) + Unit * (n + 1)
         /\ Cost(n + 1) = Cost(n) + Unit * (n + 1) + CallTime
<1>1. Tri(n) \in Nat /\ Tri(n + 1) = Tri(n) + (n + 1)
  BY TriStep
<1>2. Unit * Tri(n) \in Nat /\ n * CallTime \in Nat /\ Unit * (n + 1) \in Nat
  BY <1>1, Times
<1>3. Unit * Tri(n + 1) = Unit * Tri(n) + Unit * (n + 1)
  BY <1>1, Times
<1>4. (n + 1) * CallTime = n * CallTime + CallTime
  BY Times
<1> QED
  BY <1>1, <1>2, <1>3, <1>4, Times DEF Cost

\* More tries do not cost less.
LEMMA CostGrows ==
  ASSUME NEW n \in Nat, NEW m \in Nat, n <= m
  PROVE  Cost(n) <= Cost(m)
<1>1. n * (n + 1) <= m * (m + 1) /\ n * (n + 1) \in Nat /\ m * (m + 1) \in Nat
  <2>1. n * (n + 1) <= n * (m + 1)
    BY Product
  <2>2. (m + 1) * n <= (m + 1) * m
    BY Product
  <2>3. n * (m + 1) = (m + 1) * n /\ m * (m + 1) = (m + 1) * m
    OBVIOUS
  <2>4. n * (n + 1) \in Nat /\ n * (m + 1) \in Nat /\ m * (m + 1) \in Nat
    OBVIOUS
  <2> QED
    BY <2>1, <2>2, <2>3, <2>4
<1>2. Tri(n) \in Nat /\ Tri(m) \in Nat /\ Tri(n) <= Tri(m)
  BY <1>1 DEF Tri
<1>3. Unit * Tri(n) <= Unit * Tri(m) /\ Unit * Tri(n) \in Nat
  BY <1>2, Times, Product
<1>4. CallTime * n <= CallTime * m /\ CallTime * n \in Nat
  BY Times, Product
<1>5. n * CallTime = CallTime * n /\ m * CallTime = CallTime * m
  BY Times
<1>6. Unit * Tri(m) \in Nat /\ CallTime * m \in Nat
  BY <1>2, Times
<1> QED
  BY <1>3, <1>4, <1>5, <1>6 DEF Cost

\* Where the functions begin.
LEMMA InitFacts ==
  ASSUME Init
  PROVE  /\ pc \in {"loop", "delay", "set", "begin", "request"}
         /\ pc # "returned" /\ pc \notin Asked /\ pc \notin {"check", "sleep"}
         /\ now = 0 /\ start = 0 /\ tried = 0 /\ due \in Nat /\ ret = "none"
         /\ pc = "set" => due = CallTime
         /\ fn \in Retrying => pc = "loop"
<1>1. ASSUME NEW S, WaitingInit(S)
      PROVE  pc = "loop" \/ (pc \in {"delay", "set"} /\ fn \notin Retrying)
  BY <1>1 DEF WaitingInit, Called, Retrying
<1>2. ASSUME NEW S, WaitingInit(S) PROVE pc = "set" => due = CallTime
  BY <1>2 DEF WaitingInit, Called
<1>3. CASE PowerInit
  BY <1>3, NumbersInit DEF PowerInit, PowerFunctions, Called, Retrying, Asked, Numbers
<1>4. CASE AzureInit
  BY <1>4, NumbersInit DEF AzureInit, Called, Retrying, Asked, Numbers
<1>5. ASSUME NEW S, WaitingInit(S) PROVE now = 0 /\ start = 0 /\ tried = 0 /\ ret = "none"
  BY <1>5 DEF WaitingInit, Called
<1> QED
  BY <1>1, <1>2, <1>3, <1>4, <1>5, NumbersInit DEF Init, Asked, Numbers

\* Every function begins in time.
LEMMA ClockInit ==
  ASSUME Init
  PROVE  WaitClock /\ RetryClock /\ EndsInTime
<1>1. /\ pc # "returned" /\ pc \notin Asked /\ pc \notin {"check", "sleep"}
      /\ now = 0 /\ start = 0 /\ tried = 0 /\ due \in Nat
      /\ pc = "set" => due = CallTime
      /\ fn \in Retrying => pc = "loop"
  BY InitFacts
<1>2. Lap \in Nat /\ Lap >= 1
  BY Times DEF Lap
<1>3. timeout \in Nat /\ maxTries \in Nat
  BY NumbersInit DEF Numbers
<1>4. Tri(0) = 0 /\ Unit * Tri(0) = 0 /\ Cost(0) = 0
  BY TriStep, Times DEF Cost
<1> QED
  BY <1>1, <1>2, <1>3, <1>4, Times DEF WaitClock, RetryClock, EndsInTime

\* Every step of a wait stays in time: the test of the timeout bounds the
\* call, the call the comparison, and the comparison the sleep.
LEMMA WaitClockStep ==
  ASSUME Numbers, WaitClock, EndsInTime, [Next]_vars, fn \in WaitFunctions \ Retrying
  PROVE  WaitClock' /\ EndsInTime'
<1> USE Times DEF Numbers, paramVars, cloudVars, WaitClock, EndsInTime, Asked
<1>0. /\ fn' = fn /\ Lap' = Lap /\ Lap \in Nat /\ Lap >= CallTime + 1
      /\ fn = "WaitStatusWithInstanceErrorCheck" => Lap = Interval + 2 * CallTime
      /\ fn \notin PowerFunctions /\ fn # "_jsonRequest" /\ timeout' = timeout
      /\ fn # "WaitStatusWithInstanceErrorCheck" => Lap = Interval + CallTime
  <2>1. fn' = fn /\ timeout' = timeout
    BY DEF Next, vars, waitVars, Step, Environment, WaitStep, PowerStep, AzureStep, Wake, LoopTest,
       Answer, Handle, Compare, ErrCheck, SetTagsCall, Begin, StartHandle, WaitHandle, ShutdownHandle,
       RegionStatus, RegionSend, Resend, Show, SendRequest, Poll, PollHandle, Change, Meddle, Settle, Tick
  <2> QED
    BY <2>1 DEF Lap, WaitFunctions, PowerFunctions, Delayed, Deleting, Retrying
<1>1. CASE UNCHANGED vars
  BY <1>0, <1>1 DEF vars, waitVars
<1>2. CASE Wake
  BY <1>0, <1>2 DEF Wake
<1>3. CASE LoopTest
  BY <1>0, <1>3 DEF LoopTest, GoesOn, Call, Returns
<1>4. CASE Answer
  BY <1>0, <1>4 DEF Answer
<1>5. CASE Handle
  BY <1>0, <1>5 DEF Handle, Compare, Call, Sleep, Returns, Pause
<1>6. CASE ErrCheck
  BY <1>0, <1>6 DEF ErrCheck, Sleep, Returns
<1>7. CASE SetTagsCall
  BY <1>0, <1>7 DEF SetTagsCall, Returns
<1>8. CASE Change
  BY <1>0, <1>8 DEF Change
<1>9. CASE Tick
  BY <1>0, <1>9 DEF Tick
<1> QED
  BY <1>0, <1>1, <1>2, <1>3, <1>4, <1>5, <1>6, <1>7, <1>8, <1>9
     DEF Next, Step, Environment, WaitStep

\* Every step of a retry stays in time: after n rounds the pauses are at
\* least, and pauses and calls at most, what n tries cost.
LEMMA RetryClockStep ==
  ASSUME Numbers, RetryClock, EndsInTime, [Next]_vars, fn \in Retrying
  PROVE  RetryClock' /\ EndsInTime'
<1> USE Times DEF Numbers, paramVars, cloudVars, RetryClock, Asked
<1>0. /\ fn \in WaitFunctions /\ fn \notin PowerFunctions /\ fn # "_jsonRequest"
      /\ fn # "SetTags" /\ fn # "WaitStatusWithInstanceErrorCheck"
  BY DEF WaitFunctions, PowerFunctions, Retrying
<1>1. /\ Tri(tried) \in Nat /\ Unit * Tri(tried) \in Nat /\ Cost(tried) \in Nat
      /\ Unit * (tried + 1) \in Nat
      /\ Unit * Tri(tried + 1) = Unit * Tri(tried) + Unit * (tried + 1)
      /\ Cost(tried + 1) = Cost(tried) + Unit * (tried + 1) + CallTime
  BY CostStep
<1>2. /\ AllTries = Cost(maxTries) /\ Cost(maxTries) \in Nat
      /\ AllTries - maxTries * CallTime = Unit * Tri(maxTries)
  <2>1. Cost(maxTries) \in Nat /\ Unit * Tri(maxTries) \in Nat /\ maxTries * CallTime \in Nat
    BY CostStep
  <2>2. AllTries = Cost(maxTries)
    BY DEF AllTries, Cost, Tri
  <2> QED
    BY <2>1, <2>2 DEF Cost
<1>3. ASSUME pc' # "returned" PROVE EndsInTime'
  BY <1>3 DEF EndsInTime
<1>4. CASE UNCHANGED vars
  BY <1>4 DEF vars, waitVars, EndsInTime, AllTries
<1>5. CASE Wake
  BY <1>3, <1>5 DEF Wake
<1>6. CASE LoopTest
  <2>1. CASE GoesOn
    BY <1>1, <1>3, <1>6, <2>1 DEF LoopTest, GoesOn, Call
  <2>2. CASE ~GoesOn
    <3>1. /\ pc = "loop" /\ pc' = "returned" /\ UNCHANGED <<fn, maxTries, now, start, tried>>
          /\ tried = maxTries
      BY <1>6, <2>2 DEF LoopTest, GoesOn, Returns
    <3>2. now - start <= AllTries /\ now - start >= AllTries - maxTries * CallTime
      BY <1>2, <3>1
    <3> QED
      BY <3>1, <3>2 DEF EndsInTime, AllTries
  <2> QED
    BY <2>1, <2>2
<1>7. CASE Answer
  BY <1>3, <1>7 DEF Answer
<1>8. CASE Handle
  <2>1. \/ pc' = "returned" /\ ret' # "timeout" /\ UNCHANGED tried
        \/ pc' = "sleep" /\ due' = now + Unit * (tried + 1) /\ tried' = tried + 1
    BY <1>0, <1>8 DEF Handle, Compare, Sleep, Returns, Pause
  <2>2. pc = "answered" /\ UNCHANGED <<fn, maxTries, now, start>>
    BY <1>8 DEF Handle, Compare
  <2>3. CASE pc' = "returned" /\ ret' # "timeout" /\ UNCHANGED tried
    <3>1. Cost(tried + 1) <= Cost(maxTries)
      BY <2>2, CostGrows
    <3>2. now - start <= AllTries
      BY <1>1, <1>2, <2>2, <3>1
    <3> QED
      BY <2>2, <2>3, <3>2 DEF EndsInTime, AllTries
  <2>4. CASE pc' = "sleep" /\ due' = now + Unit * (tried + 1) /\ tried' = tried + 1
    <3>1. tried' <= maxTries /\ now' <= due'
      BY <1>1, <2>2, <2>4
    <3>2. due' - start >= Unit * Tri(tried + 1) /\ due' - start <= Cost(tried + 1)
      BY <1>1, <2>2, <2>4
    <3> QED
      BY <1>3, <2>2, <2>4, <3>1, <3>2
  <2> QED
    BY <2>1, <2>3, <2>4
<1>9. CASE ErrCheck \/ SetTagsCall
  BY <1>9 DEF ErrCheck, SetTagsCall
<1>10. CASE Change \/ Tick
  BY <1>1, <1>3, <1>10 DEF Change, Tick
<1> QED
  BY <1>0, <1>4, <1>5, <1>6, <1>7, <1>8, <1>9, <1>10
     DEF Next, Step, Environment, WaitStep

\* Every step stays in time.
LEMMA ClockStep ==
  ASSUME Numbers, WaitClock, RetryClock, EndsInTime, [Next]_vars
  PROVE  WaitClock' /\ RetryClock' /\ EndsInTime'
<1>1. fn' = fn
  BY SameFunction
<1>2. CASE fn \in WaitFunctions \ Retrying
  BY <1>1, <1>2, WaitClockStep DEF RetryClock
<1>3. CASE fn \in Retrying
  BY <1>1, <1>3, RetryClockStep DEF WaitClock
<1>4. CASE fn \notin WaitFunctions
  BY <1>1, <1>4 DEF WaitClock, RetryClock, EndsInTime, WaitFunctions
<1> QED
  BY <1>2, <1>3, <1>4

-----------------------------------------------------------------------------
(* A status that is kept is seen.                                          *)

\* Nothing has been asked for yet.
LEMMA SeenInit ==
  ASSUME Init
  PROVE  Seen /\ KeptIsSeen /\ AzureEndIsSeen
<1>1. fn = "_jsonRequest" => pc = "request" /\ style \in Style
  BY DEF Init, WaitingInit, PowerInit, AzureInit, Called, PowerFunctions, Retrying
<1> QED
  BY <1>1, InitFacts DEF Seen, KeptIsSeen, AzureEndIsSeen, Asked

\* Every step of a wait or a retry keeps it: what an answer does not show
\* has come about after the call, and no pause is longer than the gap.
LEMMA SeenWaitStep ==
  ASSUME Numbers, WaitClock, RetryClock, Seen, KeptIsSeen, [Next]_vars, fn \in WaitFunctions
  PROVE  Seen' /\ KeptIsSeen'
<1> USE Times DEF Numbers, paramVars, cloudVars
<1>0. /\ fn \notin PowerFunctions /\ fn # "_jsonRequest"
      /\ UNCHANGED <<fn, expects, timeout, maxTries>>
  BY SameFunction DEF WaitFunctions, PowerFunctions, Delayed, Deleting, Retrying
<1>1. \A s : Reached(s)' <=> Reached(s)
  BY <1>0 DEF Reached
<1>2. /\ Lap' = Lap /\ Lap \in Nat /\ Lap >= Interval + CallTime
      /\ fn = "WaitStatusWithInstanceErrorCheck" => Lap = Interval + 2 * CallTime
      /\ Unit * tried \in Nat /\ Unit * (tried + 1) \in Nat
      /\ Gap \in Nat
      /\ Gap = IF fn \in Retrying THEN Unit * tried + CallTime ELSE Lap
  BY <1>0 DEF Lap, Gap
<1>4. ASSUME ret' # "timeout" PROVE KeptIsSeen'
  BY <1>4 DEF KeptIsSeen
<1>5. CASE UNCHANGED vars
  <2>1. UNCHANGED <<pc, now, start, due, answer, tried, ret, cloud, since>>
    BY <1>5 DEF vars, waitVars
  <2>2. Gap' = Gap /\ Fresh' = Fresh /\ Unseen' = Unseen
    BY <1>0, <1>1, <1>2, <2>1 DEF Gap, Fresh, Unseen
  <2>3. Seen'
    BY <1>0, <2>1, <2>2 DEF Seen, Late
  <2>4. KeptIsSeen'
    BY <1>0, <1>1, <1>2, <2>1 DEF KeptIsSeen, LastLap
  <2> QED
    BY <2>3, <2>4
<1>6. CASE Wake
  <2>1. /\ pc \in {"sleep", "delay"} /\ now = due /\ pc' = "loop" /\ ret' = ret /\ ret = "none"
        /\ start' = IF pc = "delay" THEN now ELSE start
        /\ UNCHANGED <<now, due, answer, tried, cloud, since>>
    BY <1>6 DEF Wake
  <2>2. Gap' = Gap /\ Unseen' = Unseen
    BY <1>0, <1>1, <1>2, <2>1 DEF Gap, Unseen
  <2> QED
    BY <1>0, <1>2, <1>4, <2>1, <2>2 DEF Seen, Late, Asked
<1>7. CASE LoopTest
  <2>1. pc = "loop" /\ UNCHANGED <<now, start, answer, tried, cloud, since>>
    BY <1>7 DEF LoopTest
  <2>2. CASE GoesOn
    <3>1. pc' = "call" /\ due' = now + CallTime /\ ret' = ret /\ ret = "none"
      BY <1>7, <2>2 DEF LoopTest, Call
    <3> QED
      BY <1>0, <1>4, <2>1, <3>1 DEF Seen, Asked
  <2>3. CASE ~GoesOn
    <3>1. pc' = "returned" /\ due' = due
      BY <1>7, <2>3 DEF LoopTest, Returns
    <3>2. Seen'
      BY <1>0, <2>1, <3>1 DEF Seen, Asked
    <3>3. ASSUME fn \notin Retrying, Reached(cloud), answer # "error", timeout # 0
          PROVE  since >= start /\ since >= start + timeout - Lap
      <4>1. now - start >= timeout
        BY <2>3, <3>3 DEF GoesOn
      <4>2. tried > 0 /\ now = due /\ Late(Gap) /\ Unseen
        BY <1>0, <2>1, <3>3, <4>1 DEF Seen, Unseen
      <4> QED
        BY <1>2, <3>3, <4>1, <4>2 DEF Late
    <3>4. ASSUME fn \in Retrying, Reached(cloud), answer # "error", maxTries # 0
          PROVE  since >= now - LastLap
      <4>1. tried = maxTries
        BY <2>1, <2>3, <3>4 DEF GoesOn, RetryClock
      <4>2. tried > 0 /\ now = due /\ Late(Gap) /\ Unseen
        BY <1>0, <2>1, <3>4, <4>1 DEF Seen, Unseen
      <4> QED
        BY <1>2, <3>4, <4>1, <4>2 DEF Late, LastLap
    <3>5. KeptIsSeen'
      BY <1>0, <1>1, <1>2, <2>1, <3>3, <3>4 DEF KeptIsSeen, LastLap
    <3> QED
      BY <3>2, <3>5
  <2> QED
    BY <2>2, <2>3
<1>8. CASE Answer
  <2>1. /\ pc = "call" /\ pc' = "answered" /\ answer' \in {cloud, "error"} /\ ret' = ret /\ ret = "none"
        /\ UNCHANGED <<now, start, due, tried, cloud, since>>
    BY <1>8 DEF Answer
  <2> QED
    BY <1>0, <1>4, <2>1 DEF Seen, Fresh, Asked
<1>9. CASE Handle
  <2>1. pc = "answered" /\ UNCHANGED <<now, start, answer, cloud, since>> /\ ret' # "timeout"
    BY <1>9 DEF Handle, Compare, Returns
  <2>2. /\ start <= due - CallTime /\ due - CallTime <= now
        /\ answer = cloud \/ answer = "error" \/ since >= due - CallTime
        /\ now <= due
    BY <1>0, <2>1 DEF Seen, Fresh, Asked, WaitClock, RetryClock
  <2>3. \/ pc' = "returned"
        \/ /\ ~Reached(answer) /\ pc' = "sleep" /\ due' = now + Pause /\ tried' = tried + 1
        \/ /\ ~Reached(answer) /\ pc' = "check" /\ due' = now + CallTime
           /\ fn = "WaitStatusWithInstanceErrorCheck" /\ tried' = tried
    BY <1>9 DEF Handle, Compare, Returns, Sleep, Call
  <2>4. CASE pc' = "returned"
    BY <1>0, <1>4, <2>1, <2>2, <2>4 DEF Seen, Asked
  <2>5. CASE /\ ~Reached(answer) /\ pc' = "sleep" /\ due' = now + Pause /\ tried' = tried + 1
    <3>1. Pause \in Nat /\ Gap' = (IF fn \in Retrying THEN Unit * (tried + 1) + CallTime ELSE Lap)
      BY <1>0, <1>2, <2>5 DEF Pause, Gap
    <3>2. Gap' \in Nat /\ Gap' >= Pause + CallTime
      BY <1>2, <3>1 DEF Pause
    <3>3. due' - Gap' <= due - CallTime /\ due' - Gap' <= now'
      <4>1. \A a, b, c, d \in Nat : b >= c + CallTime /\ a <= d =>
               (a + c) - b <= d - CallTime /\ (a + c) - b <= a
        OBVIOUS
      <4> QED
        BY ONLY <2>1, <2>2, <2>5, <3>1, <3>2, <4>1, now \in Nat, due \in Nat
    <3>4. Unseen' => Reached(cloud) /\ answer # "error"
      BY <1>0, <1>1, <2>1 DEF Unseen
    <3>5. Unseen' => since >= due - CallTime
      BY <2>2, <2>5, <3>4
    <3>6. Unseen' => since' >= start' /\ since' >= due' - Gap'
      <4>1. \A a, b, c, d \in Int : a >= b /\ c <= b /\ d <= b => a >= c /\ a >= d
        OBVIOUS
      <4>2. due' - Gap' \in Int /\ due - CallTime \in Int
        BY <2>1, <2>5, <3>1, <3>2
      <4> QED
        BY ONLY <2>1, <2>2, <3>3, <3>5, <4>1, <4>2, start \in Nat, since \in Int
    <3>7. Late(Gap)'
      BY ONLY <3>6 DEF Late
    <3>8. tried' > 0
      BY <2>5
    <3>9. Seen'
      BY ONLY <1>0, <2>1, <2>5, <3>3, <3>7, <3>8, start <= now DEF Seen, Asked
    <3> QED
      BY <1>4, <2>1, <3>9
  <2>6. CASE /\ ~Reached(answer) /\ pc' = "check" /\ due' = now + CallTime
             /\ fn = "WaitStatusWithInstanceErrorCheck" /\ tried' = tried
    <3>1. Unseen' => since >= due - CallTime
      BY <1>0, <1>1, <2>1, <2>2, <2>6 DEF Unseen
    <3> QED
      BY <1>0, <1>4, <2>1, <2>2, <2>6, <3>1 DEF Seen, Asked, Late
  <2> QED
    BY <2>3, <2>4, <2>5, <2>6
<1>10. CASE ErrCheck
  <2>1. /\ pc = "check" /\ UNCHANGED <<now, start, answer, cloud, since>> /\ ret' # "timeout"
        /\ fn = "WaitStatusWithInstanceErrorCheck"
        /\ pc' = "returned" \/ (pc' = "sleep" /\ due' = now + Interval /\ tried' = tried + 1)
    BY <1>10 DEF ErrCheck, Sleep, Returns
  <2>2. /\ now <= due /\ due - CallTime <= now /\ Late(2 * CallTime) /\ start <= now
    BY <1>0, <2>1 DEF Seen, WaitClock, Retrying
  <2>3. Unseen' = Unseen /\ Gap' = Interval + 2 * CallTime
    BY <1>0, <1>1, <1>2, <2>1 DEF Unseen, Gap, Retrying
  <2> QED
    BY <1>0, <1>4, <2>1, <2>2, <2>3 DEF Seen, Asked, Late
<1>11. CASE SetTagsCall
  <2>1. /\ pc = "set" /\ UNCHANGED <<now, tried>> /\ ret' # "timeout" /\ start' \in {start, now}
        /\ pc' = "returned" \/ (pc' = "loop" /\ start' = now)
    BY <1>11 DEF SetTagsCall, Returns
  <2> QED
    BY <1>0, <1>4, <2>1 DEF Seen, Asked
<1>12. CASE Change
  <2>1. pc # "returned" /\ UNCHANGED <<pc, now, start, due, answer, tried, ret>> /\ since' = now /\ ret = "none"
    BY <1>12 DEF Change
  <2>2. Gap' = Gap
    BY <1>0, <1>2, <2>1 DEF Gap
  <2> QED
    BY <1>0, <1>2, <1>4, <2>1, <2>2 DEF Seen, Asked, Late
<1>13. CASE Tick
  <2>1. /\ pc \notin {"loop", "returned"} /\ now < due /\ now' = now + 1 /\ ret = "none" /\ ret' = ret
        /\ UNCHANGED <<pc, start, due, answer, tried, cloud, since>>
    BY <1>13 DEF Tick
  <2>2. Gap' = Gap /\ Unseen' = Unseen /\ Fresh' = Fresh
    BY <1>0, <1>1, <1>2, <2>1 DEF Gap, Unseen, Fresh
  <2> QED
    BY <1>0, <1>2, <1>4, <2>1, <2>2 DEF Seen, Asked, Late
<1> QED
  BY <1>0, <1>5, <1>6, <1>7, <1>8, <1>9, <1>10, <1>11, <1>12, <1>13
     DEF Next, Step, Environment, WaitStep

\* So does every step of a request: an answer that tells that the operation
\* has ended ends the loop, unless it says Retry-After.
LEMMA SeenAzureStep ==
  ASSUME Numbers, Seen, AzureEndIsSeen, [Next]_vars, fn = "_jsonRequest"
  PROVE  Seen' /\ AzureEndIsSeen'
<1> USE Times DEF Numbers, paramVars, cloudVars
<1>0. /\ fn \notin PowerFunctions /\ fn \notin WaitFunctions /\ fn \notin Retrying /\ fn # "SetTags"
      /\ UNCHANGED <<fn, expects, timeout, maxTries>>
  BY SameFunction DEF WaitFunctions, PowerFunctions, Delayed, Deleting, Retrying
<1>1. /\ Gap = Interval + RetryAfter + CallTime /\ Gap' = Gap /\ Gap \in Nat
  BY <1>0 DEF Gap
<1>2. ASSUME ret' # "timeout" PROVE AzureEndIsSeen'
  BY <1>2 DEF AzureEndIsSeen
<1>3. CASE UNCHANGED vars
  <2>1. UNCHANGED <<pc, now, start, due, answer, tried, ret, cloud, since, style>>
    BY <1>3 DEF vars, waitVars
  <2>2. Fresh' = Fresh /\ Unseen' = Unseen
    BY <1>0, <2>1 DEF Fresh, Unseen, Polled
  <2>3. Seen'
    BY <1>0, <1>1, <2>1, <2>2 DEF Seen, Late
  <2>4. AzureEndIsSeen'
    BY <1>0, <2>1 DEF AzureEndIsSeen
  <2> QED
    BY <2>3, <2>4
<1>4. CASE SendRequest
  <2>1. /\ pc = "request" /\ UNCHANGED <<now, tried, style>> /\ ret' # "timeout"
        /\ \/ pc' = "returned" /\ start' = start
           \/ pc' = "loop" /\ start' = now /\ style \notin {"id", "plain"}
    BY <1>0, <1>4 DEF SendRequest, Returns
  <2>2. style \in Style
    BY <1>0, <2>1 DEF Seen
  <2> QED
    BY <1>0, <1>2, <2>1, <2>2 DEF Seen, Asked, Style
<1>5. CASE Wake /\ UNCHANGED style
  <2>1. /\ pc \in {"sleep", "delay"} /\ now = due /\ pc' = "loop" /\ ret' = ret /\ ret = "none"
        /\ start' = IF pc = "delay" THEN now ELSE start
        /\ UNCHANGED <<now, due, answer, tried, cloud, since, style>>
    BY <1>5 DEF Wake
  <2>2. Unseen' = Unseen
    BY <1>0, <2>1 DEF Unseen
  <2> QED
    BY <1>0, <1>1, <1>2, <2>1, <2>2 DEF Seen, Late, Asked
<1>6. CASE LoopTest /\ UNCHANGED style
  <2>1. pc = "loop" /\ UNCHANGED <<now, start, answer, tried, cloud, since, style>>
    BY <1>6 DEF LoopTest
  <2>2. CASE GoesOn
    <3>1. pc' = "call" /\ due' = now + CallTime /\ ret' = ret /\ ret = "none"
      BY <1>6, <2>1, <2>2 DEF LoopTest, Call
    <3> QED
      BY <1>0, <1>2, <2>1, <3>1 DEF Seen, Asked
  <2>3. CASE ~GoesOn
    <3>1. pc' = "returned" /\ due' = due
      BY <1>6, <2>3 DEF LoopTest, Returns
    <3>2. Seen'
      BY <1>0, <2>1, <3>1 DEF Seen, Asked
    <3>3. ASSUME timeout > 0, cloud \in Ended, answer # "Retry-After"
          PROVE  since >= start + timeout - (Interval + RetryAfter + CallTime)
      <4>1. now - start >= timeout
        BY <1>0, <2>3 DEF GoesOn
      <4>2. tried > 0 /\ now = due /\ Late(Gap) /\ Unseen
        BY <1>0, <2>1, <3>3, <4>1 DEF Seen, Unseen
      <4> QED
        BY <1>1, <3>3, <4>1, <4>2 DEF Late
    <3>4. AzureEndIsSeen'
      BY <1>0, <2>1, <3>3 DEF AzureEndIsSeen
    <3> QED
      BY <3>2, <3>4
  <2> QED
    BY <2>2, <2>3
<1>7. CASE Poll
  <2>1. /\ pc = "call" /\ pc' = "answered" /\ answer' \in Polled(cloud) /\ ret' = ret /\ ret = "none"
        /\ UNCHANGED <<now, start, due, tried, cloud, since, style>>
    BY <1>7 DEF Poll
  <2>2. Fresh'
    BY <1>0, <2>1 DEF Fresh, Polled
  <2> QED
    BY <1>0, <1>2, <2>1, <2>2 DEF Seen, Asked
<1>8. CASE PollHandle
  <2>1. pc = "answered" /\ UNCHANGED <<now, start, answer, cloud, since, style>> /\ ret' # "timeout"
    BY <1>8 DEF PollHandle, Compare, Returns
  <2>2. /\ start <= due - CallTime /\ due - CallTime <= now /\ now <= due
        /\ answer \in Polled(cloud) \/ since >= due - CallTime
        /\ style \in {"Azure-Asyncoperation", "Location"}
    BY <1>0, <2>1 DEF Seen, Fresh, Asked
  <2>3. \/ pc' = "returned"
        \/ /\ ~Done /\ ~Broken /\ pc' = "sleep" /\ tried' = tried + 1
           /\ due' = now + Interval \/ due' = now + (RetryAfter + Interval)
    BY <1>8 DEF PollHandle, Compare, Returns, Sleep
  <2>4. CASE pc' = "returned"
    BY <1>0, <1>2, <2>1, <2>2, <2>4 DEF Seen, Asked
  <2>5. CASE /\ ~Done /\ ~Broken /\ pc' = "sleep" /\ tried' = tried + 1
             /\ due' = now + Interval \/ due' = now + (RetryAfter + Interval)
    <3>1. due' - Gap' <= now - CallTime /\ due' - Gap' <= now'
      BY <1>1, <2>1, <2>5
    <3>2. Unseen' => cloud \in Ended /\ answer # "Retry-After"
      BY <1>0, <2>1 DEF Unseen
    <3>3. Unseen' => since >= due - CallTime
      BY <2>2, <2>5, <3>2, PolledTells DEF Done, Broken
    <3>4. Unseen' => since' >= start' /\ since' >= due' - Gap'
      BY <1>1, <2>1, <2>2, <2>5, <3>1, <3>3
    <3>5. Late(Gap)'
      BY ONLY <3>4 DEF Late
    <3>6. Seen'
      BY <1>0, <2>1, <2>2, <2>5, <3>1, <3>5 DEF Seen, Asked
    <3> QED
      BY <1>2, <2>1, <3>6
  <2> QED
    BY <2>3, <2>4, <2>5
<1>9. CASE Change /\ UNCHANGED style
  <2>1. /\ pc # "returned" /\ UNCHANGED <<pc, now, start, due, answer, tried, ret, style>>
        /\ since' = now /\ ret = "none"
    BY <1>9 DEF Change
  <2> QED
    BY <1>0, <1>1, <1>2, <2>1 DEF Seen, Asked, Late
<1>10. CASE Tick /\ UNCHANGED style
  <2>1. /\ pc \notin {"loop", "returned"} /\ now < due /\ now' = now + 1 /\ ret = "none" /\ ret' = ret
        /\ UNCHANGED <<pc, start, due, answer, tried, cloud, since, style>>
    BY <1>10 DEF Tick
  <2>2. Unseen' = Unseen /\ Fresh' = Fresh
    BY <1>0, <2>1 DEF Unseen, Fresh, Polled
  <2> QED
    BY <1>0, <1>1, <1>2, <2>1, <2>2 DEF Seen, Asked, Late
<1> QED
  BY <1>0, <1>3, <1>4, <1>5, <1>6, <1>7, <1>8, <1>9, <1>10
     DEF Next, Step, Environment, AzureStep

\* Every step keeps it.
LEMMA SeenStep ==
  ASSUME Numbers, WaitClock, RetryClock, Seen, KeptIsSeen, AzureEndIsSeen, [Next]_vars
  PROVE  Seen' /\ KeptIsSeen' /\ AzureEndIsSeen'
<1>1. fn' = fn
  BY SameFunction
<1>2. CASE fn \in WaitFunctions
  <2>1. fn # "_jsonRequest"
    BY <1>2 DEF WaitFunctions, Delayed, Deleting, Retrying
  <2> QED
    BY <1>1, <1>2, <2>1, SeenWaitStep DEF AzureEndIsSeen
<1>3. CASE fn = "_jsonRequest"
  <2>1. fn \notin WaitFunctions
    BY <1>3 DEF WaitFunctions, Delayed, Deleting, Retrying
  <2> QED
    BY <1>1, <1>3, <2>1, SeenAzureStep DEF KeptIsSeen
<1>4. CASE fn \in PowerFunctions
  <2>1. fn \notin WaitFunctions /\ fn # "_jsonRequest"
    BY <1>4 DEF WaitFunctions, PowerFunctions, Delayed, Deleting, Retrying
  <2> QED
    BY <1>1, <1>4, <2>1 DEF Seen, KeptIsSeen, AzureEndIsSeen
<1> QED
  BY <1>2, <1>3, <1>4 DEF Numbers

-----------------------------------------------------------------------------
(* Requests to machines.                                                   *)

\* How a machine settles, by cases.
LEMMA Settling ==
  /\ DOMAIN Settles = {"starting", "stopping", "closing", "deleting"}
  /\ Settles["starting"] = "running" /\ Settles["stopping"] = "ready"
  /\ Settles["closing"] = "shutdown" /\ Settles["deleting"] = "gone"
BY DEF Settles

\* Nothing has been sent when a function is called.
LEMMA PoweredInit ==
  ASSUME Init
  PROVE  Powered
<1>1. sends = 0 /\ pending = "none" /\ ret = "none"
  BY DEF Init, WaitingInit, PowerInit, AzureInit, NoPower, Called
<1>2. CASE PowerInit
  <2>1. /\ cloud \in {"ready", "starting", "running", "stopping"} /\ had = {cloud}
        /\ pc = "begin" /\ fn \in PowerFunctions
        /\ fn = "DeleteVM" => provider # "aws"
    BY <1>2 DEF PowerInit, Called
  <2>2. had \cap {"starting", "stopping"} = {} => cloud \in {"ready", "running"}
    BY <2>1
  <2>3. Starts /\ Stops /\ Deletes /\ RefusedByOthers
    BY <1>1, <2>1, <2>2 DEF Starts, Stops, Deletes, RefusedByOthers
  <2> QED
    BY <1>1, <2>1, <2>3 DEF Powered
<1>3. CASE NoPower
  <2>1. fn \notin PowerFunctions
    BY <1>3 DEF Init, WaitingInit, PowerInit, AzureInit, Called, PowerFunctions, Retrying, NoPower
  <2>2. Starts /\ Stops /\ Deletes /\ RefusedByOthers
    BY <1>1, <2>1 DEF Starts, Stops, Deletes, RefusedByOthers, PowerFunctions
  <2> QED
    BY <1>1, <2>1, <2>2 DEF Powered
<1> QED
  BY <1>2, <1>3 DEF Init

\* A step that sends nothing and leaves the machine alone does no harm if it
\* does not go on to a request.
LEMMA Quiet ==
  ASSUME Powered, UNCHANGED <<fn, provider, lags, prepaid, pending, sends, meddled, cloud, had>>,
         ret' # "invalid", pc' \notin {"begin", "status", "send", "pause"},
         pc' = "answered" => answer' \in {cloud, "error"} \/ UNCHANGED <<pc, answer>>
  PROVE  Powered'
<1> USE DEF Powered
<1>1. Real' = Real /\ (ResendsLost' <=> ResendsLost)
  BY DEF Real, ResendsLost
<1>2. Starts'
  <2>1. ASSUME fn = "StartVM", ~meddled, sends # 0, cloud = "ready" PROVE lags
    BY <2>1 DEF Starts, Real
  <2>2. ASSUME fn = "StartVM", ~meddled, pc' = "answered", answer' = "ready"
        PROVE  (sends = 0 /\ cloud = "ready") \/ (sends # 0 /\ lags)
    BY <2>1, <2>2 DEF Starts
  <2> QED
    BY <1>1, <2>2 DEF Starts
<1>3. Stops'
  BY <1>1 DEF Stops
<1>4. Deletes' /\ RefusedByOthers'
  BY <1>1 DEF Deletes, RefusedByOthers
<1> QED
  BY <1>2, <1>3, <1>4

\* The steps of the functions that send nothing.
LEMMA PoweredOther ==
  ASSUME Numbers, Powered, [Next]_vars, fn \notin PowerFunctions
  PROVE  Powered'
<1>1. fn' = fn
  BY SameFunction
<1>2. UNCHANGED powerVars
  BY DEF Next, Step, Environment, vars, Tick, Settle
<1>3. ret' # "invalid"
  BY DEF Next, Step, Environment, vars, waitVars, Powered, WaitStep, AzureStep, Wake, LoopTest, Answer, Handle,
     Compare, ErrCheck, SetTagsCall, SendRequest, Poll, PollHandle, Returns, Change, Tick
<1> QED
  BY <1>1, <1>2, <1>3 DEF Powered, Starts, Stops, Deletes, RefusedByOthers, powerVars, PowerFunctions

\* The region's function decides about the status it has asked for.
LEMMA PoweredStatus ==
  ASSUME Numbers, Requested, Powered, RegionStatus, fn \in PowerFunctions
  PROVE  Powered'
<1> USE DEF Numbers, Requested, Powered, paramVars, cloudVars
<1>1. /\ pc = "status" /\ ret # "invalid" /\ fn # "SetTags"
      /\ UNCHANGED <<fn, answer, cloud, had, provider, prepaid, lags, pending, sends, meddled>>
  BY DEF RegionStatus, PowerFunctions, requestVars
<1>2. \/ pc' = "send" /\ UNCHANGED ret /\ (OnStatus(cloud) = "send" \/ OnStatus("error") = "send")
      \/ pc' \in {"sleep", "loop"} /\ UNCHANGED ret
      \/ pc' = "returned" /\ ret' = "error"
      \/ /\ pc' = "returned" /\ ret' = "invalid"
         /\ OnStatus(cloud) = "invalid" \/ OnStatus("error") = "invalid"
  BY <1>1 DEF RegionStatus, Content, Sleep, Loop, Returns
<1>3. OnStatus("error") = "error"
  BY DEF OnStatus, OnError
<1>4. Real' = Real /\ (ResendsLost' <=> ResendsLost)
  BY <1>1 DEF Real, ResendsLost
<1>5. CASE fn = "StartVM"
  <2>1. ~meddled => (sends = 0 /\ cloud = "ready") \/ (sends = 1 /\ (lags \/ ResendsLost))
    BY <1>1, <1>5 DEF Starts
  <2>2. cloud = "ready" => OnStatus(cloud) = "send"
    BY <1>5 DEF OnStatus
  <2>3. RefusedByOthers'
    BY <1>1, <1>2, <1>3, <1>4, <1>5, <2>1, <2>2 DEF RefusedByOthers
  <2>4. Starts'
    BY <1>1, <1>2, <1>4, <2>1 DEF Starts
  <2> QED
    BY <1>1, <1>5, <2>3, <2>4 DEF Stops, Deletes, PowerFunctions
<1>6. CASE fn = "StopVM"
  <2>1. ~meddled => sends = 0
    BY <1>1, <1>6 DEF Stops
  <2>2. ~meddled /\ had \cap {"starting", "stopping"} = {} => cloud \in {"ready", "running"}
    BY <1>6, <2>1 DEF Stops
  <2>3. /\ cloud = "ready" => OnStatus(cloud) = "content"
        /\ cloud = "running" => OnStatus(cloud) = "send"
    BY <1>6 DEF OnStatus
  <2>4. RefusedByOthers'
    BY <1>1, <1>2, <1>3, <1>6, <2>2, <2>3 DEF RefusedByOthers
  <2>5. ~meddled /\ had \cap {"starting", "stopping"} = {} /\ pc' \in {"send", "pause"} => cloud = "running"
    BY <1>2, <1>3, <2>2, <2>3
  <2>6. Stops'
    BY <1>1, <1>2, <1>4, <1>6, <2>1, <2>2, <2>5 DEF Stops
  <2> QED
    BY <1>1, <1>6, <2>4, <2>6 DEF Starts, Deletes, PowerFunctions
<1>7. CASE fn = "DeleteVM"
  <2>1. Deletes'
    BY <1>1, <1>4, <1>7 DEF Deletes
  <2> QED
    BY <1>1, <1>7, <2>1 DEF Starts, Stops, RefusedByOthers, PowerFunctions
<1> QED
  BY <1>5, <1>6, <1>7 DEF PowerFunctions

\* The request is sent.
LEMMA PoweredSend ==
  ASSUME Numbers, Requested, Powered, RegionSend, fn \in PowerFunctions
  PROVE  Powered'
<1> USE DEF Numbers, Requested, Powered, paramVars, cloudVars
<1>1. /\ pc = "send" /\ ret # "invalid" /\ fn # "SetTags"
      /\ UNCHANGED <<fn, answer, provider, prepaid, lags, meddled>>
  BY DEF RegionSend, PowerFunctions
<1>2. \/ /\ sends' = sends + 1 /\ Real \in DOMAIN Effect
         /\ \/ cloud' = Effect[Real] /\ had' = had \cup {cloud'} /\ UNCHANGED pending
            \/ lags /\ pending' = Effect[Real] /\ UNCHANGED <<cloud, had>>
      \/ sends' = sends + 1 /\ UNCHANGED <<cloud, had, pending>> /\ Real \in Same
         /\ Real \notin DOMAIN Effect
      \/ sends' = sends /\ UNCHANGED <<cloud, had, pending>>
  BY DEF RegionSend, Take
<1>3. \/ pc' \in {"sleep", "loop"} /\ UNCHANGED ret
      \/ pc' = "returned" /\ ret' \in {"error", "nil"}
      \/ pc' = "pause" /\ UNCHANGED ret /\ (ResendsLost \/ UNCHANGED <<cloud, had, pending, sends>>)
      \/ /\ pc' = "status" /\ fn = "DeleteVM" /\ UNCHANGED ret
      \/ /\ pc' = "returned" /\ ret' = "invalid" /\ UNCHANGED <<cloud, had, pending, sends>>
         /\ Real \notin DOMAIN Effect /\ Real \notin Same
  BY <1>1 DEF RegionSend, Succeeds, Gives, SendsAgain, Content, Sleep, Loop, Returns, TryLater
<1>4. /\ UNCHANGED <<cloud, pending>> => Real' = Real
      /\ pending' # "none" => Real' = pending'
      /\ pending' = "none" => Real' = cloud'
      /\ ResendsLost' <=> ResendsLost
  BY <1>1 DEF Real, ResendsLost
<1>5. ~lags' => pending' = "none"
  BY <1>1, <1>2
<1>6. sends' \in Nat
  BY <1>2
<1>7. CASE fn = "StartVM"
  <2>1. DOMAIN Effect = {"ready"} /\ Effect["ready"] = "starting" /\ Wanted = "running"
    BY <1>7, EffectsAre
  <2>2. provider = "aws" => Same = {"running", "starting"}
    BY <2>1, Settling DEF Same
  <2>3. provider # "aws" => Same = {}
    BY DEF Same
  <2>4. SUFFICES ASSUME ~meddled PROVE Starts' /\ RefusedByOthers'
    BY <1>1, <1>5, <1>6, <1>7, <2>4 DEF Starts, Stops, Deletes, RefusedByOthers, PowerFunctions
  <2>5. /\ sends = 0 => pending = "none" /\ cloud = "ready" /\ Real = "ready"
        /\ sends # 0 => Real \in {"starting", "running"} /\ ((sends = 1 /\ (lags \/ ResendsLost)) \/ (provider = "aws" /\ lags))
    BY <1>1, <1>7, <2>4 DEF Starts, Real
  <2>6. RefusedByOthers'
    <3>1. ret' = "invalid" => sends = 1 /\ (lags \/ ResendsLost) /\ UNCHANGED sends
      BY <1>1, <1>3, <2>1, <2>2, <2>5
    <3> QED
      BY <1>1, <1>4, <1>7, <3>1 DEF RefusedByOthers
  <2>7. CASE sends = 0
    <3>1. \/ UNCHANGED <<cloud, pending, sends>>
          \/ sends' = 1 /\ Real' = "starting"
      BY <1>2, <1>4, <2>1, <2>2, <2>3, <2>5, <2>7
    <3>2. pc' = "pause" => ResendsLost \/ UNCHANGED <<cloud, pending, sends>>
      BY <1>1, <1>3
    <3>3. pc' \notin {"status", "send", "answered"}
      BY <1>3, <1>7
    <3> QED
      BY <1>1, <1>4, <1>7, <2>4, <2>5, <2>6, <2>7, <3>1, <3>2, <3>3 DEF Starts
  <2>8. CASE sends # 0
    <3>1. UNCHANGED <<cloud, pending>> /\ Real' = Real
      BY <1>2, <1>4, <2>1, <2>5, <2>8
    <3>2. sends' = sends \/ (sends' = sends + 1 /\ provider = "aws")
      BY <1>2, <2>1, <2>3, <2>5, <2>8
    <3>3. pc' \notin {"status", "send", "answered"} /\ (pc' = "pause" => ResendsLost \/ sends' = sends)
      BY <1>3, <1>7
    <3>4. provider = "aws" => lags
      BY <2>5, <2>8 DEF ResendsLost
    <3>5. sends' # 0 /\ (sends' <= 1 \/ (provider = "aws" /\ lags))
      BY <2>5, <2>8, <3>2, <3>4
    <3>6. pc' = "pause" => (sends' = 1 /\ (lags \/ ResendsLost)) \/ (provider = "aws" /\ lags)
      BY <2>5, <2>8, <3>2, <3>3, <3>4
    <3> QED
      BY <1>1, <1>4, <2>5, <2>6, <2>8, <3>1, <3>3, <3>5, <3>6 DEF Starts
  <2> QED
    BY <2>7, <2>8
<1>8. CASE fn = "StopVM"
  <2>1. DOMAIN Effect = {"running"} /\ Effect["running"] = "stopping" /\ Wanted = "ready"
    BY <1>8, EffectsAre
  <2>2. provider = "aws" => Same = {"ready", "stopping"}
    BY <2>1, Settling DEF Same
  <2>3. provider # "aws" => Same = {}
    BY DEF Same
  <2>4. SUFFICES ASSUME ~meddled PROVE Stops' /\ RefusedByOthers'
    BY <1>1, <1>5, <1>6, <1>8, <2>4 DEF Starts, Stops, Deletes, RefusedByOthers, PowerFunctions
  <2>5. /\ sends = 0 => pending = "none" /\ Real = cloud
        /\ sends = 0 /\ had \cap {"starting", "stopping"} = {} =>
             cloud \in {"ready", "running"} /\ (provider # "aws" => cloud = "running")
        /\ sends # 0 => sends = 1 /\ Real \in {"stopping", "ready"} /\ ResendsLost /\ provider # "aws"
    BY <1>1, <1>8, <2>4 DEF Stops, Real, ResendsLost
  <2>6. RefusedByOthers'
    <3>1. ret' = "invalid" => /\ UNCHANGED <<had, sends>>
                              /\ (sends = 1 /\ ResendsLost) \/ had \cap {"starting", "stopping"} # {}
      BY <1>1, <1>3, <2>1, <2>2, <2>5
    <3> QED
      BY <1>1, <1>4, <1>8, <3>1 DEF RefusedByOthers
  <2>7. pc' \notin {"begin", "status", "send"} /\ (pc' = "pause" => ResendsLost \/ UNCHANGED <<cloud, had, pending, sends>>)
    BY <1>3, <1>8
  <2>8. CASE sends = 0
    <3>1. \/ UNCHANGED <<cloud, had, pending, sends>>
          \/ sends' = 1 /\ Real' \in {"stopping", "ready"}
      BY <1>2, <1>4, <2>1, <2>2, <2>3, <2>5, <2>8
    <3> QED
      BY <1>1, <1>4, <1>8, <2>4, <2>5, <2>6, <2>7, <2>8, <3>1 DEF Stops
  <2>9. CASE sends # 0
    <3>1. UNCHANGED <<cloud, pending, sends>> /\ Real' = Real
      BY <1>2, <1>4, <2>1, <2>3, <2>5, <2>9
    <3> QED
      BY <1>1, <1>4, <2>5, <2>6, <2>7, <2>9, <3>1 DEF Stops
  <2> QED
    BY <2>8, <2>9
<1>9. CASE fn = "DeleteVM"
  <2>1. Same = {} /\ provider # "aws"
    BY <1>9 DEF Deletes, Same
  <2>2. SUFFICES ASSUME ~meddled PROVE Deletes'
    BY <1>1, <1>5, <1>6, <1>9, <2>1 DEF Starts, Stops, Deletes, RefusedByOthers, PowerFunctions
  <2>3. \/ sends' = sends /\ UNCHANGED <<cloud, pending>> /\ Real' = Real
        \/ sends' = sends + 1 /\ Real \in DOMAIN Effect /\ Real' = Effect[Real]
    <3>1. Real \in DOMAIN Effect => Effect[Real] # "none"
      BY EffectsAre
    <3>2. Real \in DOMAIN Effect => pending = "none"
      BY <1>9, EffectsAre, <2>2 DEF Deletes, Real
    <3> QED
      BY <1>2, <1>4, <2>1, <3>1, <3>2
  <2>4. CASE sends' = sends /\ UNCHANGED <<cloud, pending>> /\ Real' = Real
    BY <1>1, <1>9, <2>4 DEF Deletes
  <2>5. CASE sends' = sends + 1 /\ Real \in DOMAIN Effect /\ Real' = Effect[Real]
    <3>1. /\ sends = 0 => Real \in {"ready", "starting", "running", "stopping"}
          /\ sends = 1 => Real \in IF prepaid THEN {"closing", "shutdown"} ELSE {"deleting", "gone"}
          /\ sends \notin {0, 1} => prepaid /\ Real \in {"deleting", "gone"}
      BY <1>9, <2>2 DEF Deletes, Real
    <3>2. CASE prepaid
      <4>1. \/ sends' = 1 /\ Real' = "closing"
            \/ sends' = 2 /\ Real' = "deleting"
        BY <1>9, <2>5, <3>1, <3>2, EffectsAre
      <4> QED
        BY <1>1, <2>1, <3>2, <4>1 DEF Deletes
    <3>3. CASE ~prepaid
      <4>1. sends' = 1 /\ Real' = "deleting"
        BY <1>9, <2>5, <3>1, <3>3, EffectsAre
      <4> QED
        BY <1>1, <2>1, <3>3, <4>1 DEF Deletes
    <3> QED
      BY <3>2, <3>3
  <2> QED
    BY <2>3, <2>4, <2>5
<1> QED
  BY <1>7, <1>8, <1>9 DEF PowerFunctions

\* The machine goes on by itself.
LEMMA PoweredSettles ==
  ASSUME Numbers, Requested, Powered, Settle, fn \in PowerFunctions
  PROVE  Powered'
<1> USE DEF Numbers, Requested, Powered, paramVars, cloudVars
<1>1. /\ pc # "returned" /\ cloud \in DOMAIN Settles /\ cloud' = Settles[cloud] /\ had' = had \cup {cloud'}
      /\ UNCHANGED <<fn, pc, answer, ret, provider, prepaid, lags, pending, sends, meddled>>
  BY DEF Settle, powerVars
<1>2. /\ \/ cloud = "starting" /\ cloud' = "running"
         \/ cloud = "stopping" /\ cloud' = "ready"
         \/ cloud = "closing" /\ cloud' = "shutdown"
         \/ cloud = "deleting" /\ cloud' = "gone"
      /\ Real' = IF pending = "none" THEN cloud' ELSE Real
      /\ ResendsLost' <=> ResendsLost
      /\ pending = "none" => Real = cloud
  BY <1>1, Settling DEF Real, ResendsLost
<1>3. Starts'
  <2>1. SUFFICES ASSUME fn = "StartVM", ~meddled PROVE Starts'
    BY <1>1 DEF Starts
  <2>2. sends # 0 => Real' \in {"starting", "running"}
    BY <1>2, <2>1 DEF Starts
  <2> QED
    BY <1>1, <1>2, <2>1, <2>2 DEF Starts
<1>4. Stops'
  <2>1. SUFFICES ASSUME fn = "StopVM", ~meddled PROVE Stops'
    BY <1>1 DEF Stops
  <2>2. sends # 0 => Real' \in {"stopping", "ready"}
    BY <1>2, <2>1 DEF Stops
  <2>3. sends = 0 => had \cap {"starting", "stopping"} # {}
    BY <1>2, <2>1 DEF Stops
  <2>4. sends = 0 => had' \cap {"starting", "stopping"} # {}
    BY <1>1, <2>3
  <2> QED
    BY <1>1, <1>2, <2>1, <2>2, <2>4 DEF Stops
<1>5. Deletes'
  BY <1>1, <1>2 DEF Deletes
<1>6. RefusedByOthers'
  BY <1>1 DEF RefusedByOthers
<1> QED
  BY <1>1, <1>3, <1>4, <1>5, <1>6

\* The effect of a request shows.
LEMMA PoweredShows ==
  ASSUME Numbers, Requested, Powered, Show, fn \in PowerFunctions
  PROVE  Powered'
<1> USE DEF Numbers, Requested, Powered, paramVars, cloudVars
<1>1. /\ pc # "returned" /\ pending # "none" /\ cloud' = pending /\ pending' = "none"
      /\ UNCHANGED <<fn, pc, answer, ret, provider, prepaid, lags, sends, meddled>>
  BY DEF Show
<1>2. Real' = Real /\ (ResendsLost' <=> ResendsLost)
  BY <1>1 DEF Real, ResendsLost
<1>3. Starts' /\ Stops'
  BY <1>1, <1>2 DEF Starts, Stops
<1>4. Deletes' /\ RefusedByOthers'
  BY <1>1, <1>2 DEF Deletes, RefusedByOthers
<1> QED
  BY <1>1, <1>3, <1>4

\* Every step keeps what is known of the requests.
LEMMA PoweredStep ==
  ASSUME Numbers, Requested, Powered, [Next]_vars
  PROVE  Powered'
<1> USE DEF Numbers, paramVars, cloudVars
<1>1. CASE fn \notin PowerFunctions
  BY <1>1, PoweredOther
<1>2. CASE fn \in PowerFunctions
  <2>0. fn' = fn /\ fn \notin WaitFunctions /\ fn # "_jsonRequest" /\ fn # "SetTags"
    BY <1>2, SameFunction DEF WaitFunctions, PowerFunctions, Delayed, Deleting, Retrying
  <2>1. CASE UNCHANGED vars
    BY <2>1 DEF vars, waitVars, powerVars, Powered, Starts, Stops, Deletes, RefusedByOthers, Real, ResendsLost
  <2>2. CASE Begin
    <3>1. /\ pc = "begin" /\ ret = "none"
          /\ UNCHANGED <<cloud, had, answer, provider, prepaid, lags, pending, sends, meddled>>
          /\ ret' # "invalid"
          /\ \/ pc' \in {"returned", "loop"}
             \/ pc' = "status" /\ fn # "StartVM"
             \/ pc' = "send" /\ fn # "StartVM" /\ provider = "aws"
      BY <2>2 DEF Begin, Returns, Loop, CallRegion, requestVars
    <3>2. Real' = Real /\ (ResendsLost' <=> ResendsLost)
      BY <3>1 DEF Real, ResendsLost
    <3>3. Starts' /\ Deletes' /\ RefusedByOthers'
      BY <2>0, <3>1, <3>2 DEF Powered, Starts, Deletes, RefusedByOthers
    <3>4. Stops'
      BY <2>0, <3>1, <3>2 DEF Powered, Stops
    <3> QED
      BY <1>2, <2>0, <3>1, <3>3, <3>4 DEF Powered
  <2>3. CASE StartHandle
    <3>1. /\ pc = "answered" /\ fn = "StartVM" /\ UNCHANGED <<cloud, had, answer, powerVars>> /\ ret' # "invalid"
          /\ \/ pc' \in {"returned", "sleep"}
             \/ pc' = "status" /\ answer = "ready" /\ provider # "aws"
             \/ pc' = "send" /\ answer = "ready" /\ provider = "aws"
      BY <2>3 DEF StartHandle, Compare, Returns, Sleep, CallRegion, StartsFrom
    <3>2. Real' = Real /\ (ResendsLost' <=> ResendsLost)
      BY <3>1 DEF Real, ResendsLost, powerVars
    <3>3. Starts'
      BY <2>0, <3>1, <3>2 DEF Powered, Starts, powerVars
    <3> QED
      BY <1>2, <2>0, <3>1, <3>3 DEF Powered, Stops, Deletes, RefusedByOthers, PowerFunctions, powerVars
  <2>4. CASE WaitHandle
    <3>1. pc' \in {"returned", "sleep"} /\ UNCHANGED <<cloud, had, powerVars>> /\ ret' # "invalid"
      BY <2>4 DEF WaitHandle, Compare, Returns, Sleep
    <3> QED
      BY <2>0, <3>1, Quiet DEF powerVars
  <2>5. CASE ShutdownHandle
    <3>1. /\ pc # "returned" /\ fn = "DeleteVM" /\ ret' = ret
          /\ UNCHANGED <<cloud, had, provider, prepaid, lags, pending, sends, meddled>>
      BY <2>5 DEF ShutdownHandle, requestVars
    <3>2. Deletes'
      BY <2>0, <3>1 DEF Powered, Deletes, Real
    <3> QED
      BY <1>2, <2>0, <3>1, <3>2 DEF Powered, Starts, Stops, RefusedByOthers, PowerFunctions
  <2>6. CASE RegionStatus
    BY <1>2, <2>6, PoweredStatus
  <2>7. CASE RegionSend
    BY <1>2, <2>7, PoweredSend
  <2>8. CASE (Wake \/ LoopTest \/ Answer) /\ UNCHANGED powerVars
    <3>1. /\ pc' \in {"loop", "call", "returned", "answered"} /\ UNCHANGED <<cloud, had, powerVars>>
          /\ ret' # "invalid" /\ (pc' = "answered" => answer' \in {cloud, "error"})
      BY <2>8 DEF Wake, LoopTest, Answer, Call, Returns
    <3> QED
      BY <2>0, <3>1, Quiet DEF powerVars
  <2>9. CASE Meddle
    <3>1. /\ pc # "returned" /\ meddled' = TRUE
          /\ UNCHANGED <<pc, ret, provider, prepaid, lags, pending, sends>>
      BY <2>9 DEF Meddle, Change
    <3> QED
      BY <1>2, <2>0, <3>1 DEF Powered, Starts, Stops, Deletes, RefusedByOthers, PowerFunctions
  <2>10. CASE Settle
    BY <1>2, <2>0, <2>10, PoweredSettles
  <2>11. CASE Show
    BY <1>2, <2>0, <2>11, PoweredShows
  <2>12. CASE Tick /\ UNCHANGED powerVars
    BY <2>12 DEF Tick, powerVars, Powered, Starts, Stops, Deletes, RefusedByOthers, Real, ResendsLost
  <2>13. CASE Resend
    <3>1. pc = "pause" /\ pc' = "send" /\ UNCHANGED <<fn, answer, ret, cloud, had, powerVars>>
      BY <2>13 DEF Resend
    <3>2. Real' = Real /\ (ResendsLost' <=> ResendsLost)
      BY <3>1 DEF Real, ResendsLost, powerVars
    <3>3. Starts' /\ Deletes' /\ RefusedByOthers'
      BY <3>1, <3>2 DEF Powered, Starts, Deletes, RefusedByOthers, powerVars
    <3>4. Stops'
      BY <3>1, <3>2 DEF Powered, Stops, powerVars
    <3> QED
      BY <3>1, <3>3, <3>4 DEF Powered, powerVars
  <2> QED
    BY <1>2, <2>0, <2>1, <2>2, <2>3, <2>4, <2>5, <2>6, <2>7, <2>8, <2>9, <2>10, <2>11, <2>12, <2>13
       DEF Next, Step, Environment, PowerStep
<1> QED
  BY <1>1, <1>2

-----------------------------------------------------------------------------
(* The theorems.                                                           *)

\* The invariants together.
WaitingInv ==
  /\ Numbers
  /\ Requested
  /\ Truth
  /\ WaitClock /\ RetryClock /\ EndsInTime
  /\ Seen /\ KeptIsSeen /\ AzureEndIsSeen
  /\ Powered

\* They are inductive.
THEOREM WaitingInvariant == Spec => []WaitingInv
<1>1. Init => WaitingInv
  BY NumbersInit, RequestedInit, TruthInit, ClockInit, SeenInit, PoweredInit DEF WaitingInv
<1>2. WaitingInv /\ [Next]_vars => WaitingInv'
  BY NumbersStep, RequestedStep, TruthStep, ClockStep, SeenStep, PoweredStep DEF WaitingInv
<1> QED
  BY <1>1, <1>2, PTL DEF Spec

\* Whichever function returns nil, what it promises has been the case since
\* it was called, up to the exceptions that NilIsTrue names.
THEOREM NilIsAlwaysTrue == Spec => []NilIsTrue
<1>1. WaitingInv => NilIsTrue
  BY DEF WaitingInv, Truth
<1> QED
  BY <1>1, WaitingInvariant, PTL

\* The timeout is overrun by less than one lap, and the pauses of a retry
\* sum up to what they should.
THEOREM WaitsEndInTime == Spec => []EndsInTime
<1>1. WaitingInv => EndsInTime
  BY DEF WaitingInv
<1> QED
  BY <1>1, WaitingInvariant, PTL

\* A wait or a retry times out only if the status was not kept for one lap
\* before the end.
THEOREM WaitsSeeWhatIsKept == Spec => []KeptIsSeen
<1>1. WaitingInv => KeptIsSeen
  BY DEF WaitingInv
<1> QED
  BY <1>1, WaitingInvariant, PTL

\* An operation of Azure that has ended in time does not time out, unless the
\* last answer was a Retry-After.
THEOREM RequestsSeeTheEnd == Spec => []AzureEndIsSeen
<1>1. WaitingInv => AzureEndIsSeen
  BY DEF WaitingInv
<1> QED
  BY <1>1, WaitingInvariant, PTL

\* A machine that nobody else touches takes one request of a call, and a
\* prepaid one that is deleted two, however often they are sent; all but a
\* machine of aws that is started and does not show it.
THEOREM MachinesAreAskedOnce == Spec => []SentOnce
<1>1. WaitingInv => SentOnce
  <2>1. ASSUME Numbers, Powered PROVE SentOnce
    BY <2>1 DEF Numbers, Powered, Starts, Stops, Deletes, SentOnce, PowerFunctions
  <2> QED
    BY <2>1 DEF WaitingInv
<1> QED
  BY <1>1, WaitingInvariant, PTL

\* If nobody meddles, StartVM is refused only after its own request has been
\* taken without showing, or without an answer, and StopVM only then, or while
\* the machine is on its way up or down.
THEOREM RefusalsAreByOthers == Spec => []RefusedByOthers
<1>1. WaitingInv => RefusedByOthers
  BY DEF WaitingInv, Powered
<1> QED
  BY <1>1, WaitingInvariant, PTL

=============================================================================
