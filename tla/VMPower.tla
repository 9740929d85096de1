------------------------------ MODULE VMPower ------------------------------
(***************************************************************************)
(* StartVM, StopVM and DeleteVM of the instances of four providers         *)
(* (aliyun, aws, huawei, qcloud).  Each of them looks at the status, looks *)
(* again in the region's function of the same name (not in aws), sends the *)
(* request and waits with the functions of Waiting; the machine changes    *)
(* between any two of these steps, by itself or by another client's hand.  *)
(* A request may have been taken although its answer is lost, and may show *)
(* late; below the region's functions, aliyun and qcloud send it again.    *)
(***************************************************************************)
EXTENDS Waiting

VARIABLES
  provider,
  prepaid,    \* a machine of qcloud that has to be deleted twice
  lags,       \* whether the effect of a request may show late
  stage,      \* how far it is: "begin", "cached", "shutdown", "last"
  sent,       \* how often this request has been sent in vain
  pending,    \* the status that a taken request has led to, if it does not show yet
  sends,      \* history: how many requests the cloud has taken
  meddled     \* history: another client has changed the machine

powerVars == <<provider, prepaid, lags, stage, sent, pending, sends, meddled>>
requestVars == <<sent, pending, sends, meddled>>
PowerFunctions == {"StartVM", "StopVM", "DeleteVM"}

\* What becomes of a machine when nobody interferes.
Settles ==
  [starting |-> "running", stopping |-> "ready", closing |-> "shutdown", deleting |-> "gone"]
Machine == DOMAIN Settles \cup {"ready", "running", "shutdown", "gone"}

Wanted == [StartVM |-> "running", StopVM |-> "ready", DeleteVM |-> "gone"][fn]

\* DeleteVM of aws, which ends with a waiter of the SDK, is left out.
PowerInit ==
  /\ \E f \in PowerFunctions :
       /\ Called(f, {}, "begin", 0, {"ready", "starting", "running", "stopping"})
       /\ provider \in {"aliyun", "aws", "huawei", "qcloud"}
       /\ f = "DeleteVM" => provider # "aws"
  /\ prepaid \in IF provider = "qcloud" /\ fn = "DeleteVM" THEN BOOLEAN ELSE {FALSE}
  /\ lags \in BOOLEAN
  /\ stage = "begin"
  /\ sent = 0
  /\ pending = "none"
  /\ sends = 0
  /\ meddled = FALSE

NoPower ==
  /\ provider = "" /\ prepaid = FALSE /\ lags = FALSE /\ stage = "begin"
  /\ sent = 0 /\ pending = "none" /\ sends = 0 /\ meddled = FALSE

-----------------------------------------------------------------------------
\* The call of the region's function: it asks for the status first.  Only
\* StartVM makes it inside the loop with the timeout; for the others the clock
\* stands still meanwhile, since startTime is taken afterwards.
CallRegion ==
  /\ pc' = IF provider = "aws" THEN "send" ELSE "status"
  /\ due' = IF fn = "StartVM" THEN now + 2 * CallTime ELSE now

Loop == pc' = "loop" /\ start' = now

\* Mutant: every provider trusts the status that it has cached.
TrustsCacheAlways == answer = Wanted

\* huawei returns at once when the status of the last refresh is the wanted one.
TrustsCache ==
  /\ provider = "huawei"
  /\ answer = Wanted \/ (fn = "StopVM" /\ answer = "gone")

Begin ==
  /\ pc = "begin"
  /\ \/ TrustsCache /\ Returns("nil") /\ stage' = "cached" /\ UNCHANGED <<start, due>>
     \/ /\ ~TrustsCache
        /\ IF fn = "StartVM" THEN Loop /\ UNCHANGED due ELSE CallRegion /\ UNCHANGED start
        /\ UNCHANGED <<ret, stage>>
  /\ UNCHANGED <<paramVars, now, answer, tried, cloudVars, provider, prepaid, lags, requestVars>>

\* Mutant: StartVM also sends the request to a machine that is starting.
StartsFromStarting(s) == s \in {"ready", "starting"}

\* Mutant: and aws, which does not mind.
StartsFromStartingAws(s) == s = "ready" \/ (provider = "aws" /\ s = "starting")

StartsFrom(s) == s = "ready"

\* The body of StartVM's loop: Refresh, compare, start it when it is off.
StartHandle ==
  /\ fn = "StartVM"
  /\ Compare(answer = "running", answer \in {"error", "gone"},
             IF StartsFrom(answer) THEN CallRegion /\ UNCHANGED tried ELSE Sleep(Interval))
  /\ UNCHANGED powerVars

\* WaitStatus(VM_READY) of StopVM, WaitDeleted of DeleteVM.
WaitHandle ==
  /\ \/ fn = "StopVM" /\ Compare(answer = "ready", answer \in {"error", "gone"}, Sleep(Interval))
     \/ /\ fn = "DeleteVM" /\ stage = "last"
        /\ Compare(answer = "gone", answer = "error", Sleep(Interval))
  /\ UNCHANGED powerVars

\* qcloud waits until a prepaid machine is in the recycle bin, or until the
\* timeout, and deletes it once more.
ShutdownHandle ==
  /\ fn = "DeleteVM" /\ stage = "shutdown"
  /\ \/ pc = "answered" /\ answer # "shutdown" /\ Sleep(Interval) /\ UNCHANGED stage
     \/ /\ (pc = "answered" /\ answer = "shutdown") \/ (pc = "loop" /\ ~GoesOn)
        /\ CallRegion /\ stage' = "last" /\ UNCHANGED tried
  /\ UNCHANGED <<paramVars, now, start, answer, ret, cloudVars, provider, prepaid, lags, requestVars>>

-----------------------------------------------------------------------------
(* The region's functions.                                                 *)

\* Mutant: without a status the region's function asks again and again.
OnErrorAgain(s) == "again"

\* What the region's function does when it does not get a status: only qcloud
\* takes a machine that is not there for deleted.
OnError(s) ==
  IF s = "gone" /\ fn = "DeleteVM" /\ provider = "qcloud" THEN "content" ELSE "error"

\* What it does about the status s: send the request, or be content without,
\* or return ErrInvalidStatus.
OnStatus(s) ==
  IF s \in {"gone", "error"} THEN OnError(s)
  ELSE CASE fn = "StartVM" /\ s = "ready" -> "send"
         [] fn = "StartVM" /\ s = "running" /\ provider = "huawei" -> "content"
         [] fn = "StopVM" /\ s = "ready" -> "content"
         [] fn = "StopVM" /\ s # "ready" /\ (s = "running" \/ provider = "qcloud") -> "send"
         [] fn = "DeleteVM" /\ (s = "ready" \/ provider # "huawei") -> "send"
         [] OTHER -> "invalid"

\* The region's function returns nil: sleep, or wait for the end.
Content ==
  \/ fn = "StartVM" /\ Sleep(Interval) /\ UNCHANGED <<start, stage>>
  \/ /\ fn # "StartVM"
     /\ Loop
     /\ stage' = IF prepaid /\ stage = "begin" THEN "shutdown" ELSE "last"
     /\ UNCHANGED <<due, tried>>

\* GetInstanceStatus, and the decision.
RegionStatus ==
  /\ pc = "status"
  /\ \E s \in {cloud, "error"} :
       \/ OnStatus(s) = "send" /\ pc' = "send" /\ UNCHANGED <<start, due, tried, ret, stage>>
       \/ OnStatus(s) = "content" /\ Content /\ UNCHANGED ret
       \/ OnStatus(s) \in {"error", "invalid"} /\ Returns(OnStatus(s))
          /\ UNCHANGED <<start, due, tried, stage>>
  /\ UNCHANGED <<paramVars, now, answer, cloudVars, provider, prepaid, lags, requestVars>>

\* What the request makes of a machine; the other statuses refuse it.  aws
\* takes a request that asks for what is already the case.
Effect ==
  CASE fn = "StartVM" -> [ready |-> "starting"]
    [] fn = "StopVM" -> [running |-> "stopping"]
    [] prepaid -> [ready |-> "closing", running |-> "closing", shutdown |-> "deleting"]
    [] OTHER -> [ready |-> "deleting", running |-> "deleting", stopping |-> "deleting"]
Same == IF provider # "aws" THEN {} ELSE {Wanted} \cup {s \in DOMAIN Settles : Settles[s] = Wanted}

\* The status that the cloud itself goes by.
Real == IF pending = "none" THEN cloud ELSE pending

\* The request is taken: its effect shows at once, or later.
Take(s) ==
  /\ sends' = sends + 1
  /\ \/ cloud' = s /\ since' = now /\ had' = had \cup {s} /\ UNCHANGED pending
     \/ lags /\ pending' = s /\ UNCHANGED <<cloud, since, had>>
  /\ UNCHANGED changes

\* The refusals that are as good as success, or that are tried again: qcloud
\* says that the machine runs, or is gone, aliyun that there is none to be
\* deleted, or that it is initializing.
Excused ==
  /\ Real = Wanted
  /\ \/ fn = "DeleteVM" /\ provider = "aliyun"
     \/ fn # "StopVM" /\ provider = "qcloud"
TryLater == provider = "aliyun" /\ fn = "DeleteVM" /\ Real = "starting"

\* How often the layer below sends one request, and whether it does so when
\* the answer got lost; huawei does so only when there are too many requests.
Transmissions == [aliyun |-> 3, aws |-> 1, huawei |-> 4, qcloud |-> 3][provider]
ResendsLost   == provider \in {"aliyun", "qcloud"}

\* The ways out of the layer below: nil, an error, a pause before the next try
\* (the pause after the last one is left out, nobody looks at the clock then).
Succeeds == Content /\ sent' = 0 /\ UNCHANGED ret
Gives(r) == Returns(r) /\ sent' = 0 /\ UNCHANGED <<start, due, tried, stage>>
SendsAgain ==
  /\ sent + 1 < Transmissions
  /\ sent' = sent + 1
  /\ pc' = "pause"
  /\ due' = IF fn = "StartVM" THEN now + Unit * (sent + 1) ELSE now
  /\ UNCHANGED <<start, tried, ret, stage>>

\* The request is sent: it is taken, and the answer may be lost; or it fails
\* without effect, the machine being in operation, say; or it is refused.
RegionSend ==
  /\ pc = "send"
  /\ \/ /\ Real \in DOMAIN Effect /\ Take(Effect[Real])
        /\ Succeeds \/ Gives("error") \/ (ResendsLost /\ SendsAgain)
     \/ (Gives("error") \/ SendsAgain) /\ UNCHANGED <<cloudVars, pending, sends>>
     \/ /\ Real \notin DOMAIN Effect
        /\ \/ Real \in Same /\ Succeeds /\ sends' = sends + 1
           \/ Excused /\ (IF fn = "StartVM" THEN Gives("nil") ELSE Succeeds) /\ UNCHANGED sends
           \/ TryLater /\ pc' = "status" /\ sent' = 0 /\ UNCHANGED <<start, due, tried, ret, stage, sends>>
           \/ Real \notin Same /\ ~Excused /\ ~TryLater /\ Gives("invalid") /\ UNCHANGED sends
        /\ UNCHANGED <<cloudVars, pending>>
  /\ UNCHANGED <<paramVars, now, answer, provider, prepaid, lags, meddled>>

Resend ==
  /\ pc = "pause"
  /\ now = due
  /\ pc' = "send"
  /\ UNCHANGED <<paramVars, now, start, due, answer, tried, ret, cloudVars, powerVars>>

\* What a request has led to shows at last.
Show ==
  /\ pc # "returned"
  /\ pending # "none"
  /\ cloud' = pending /\ pending' = "none"
  /\ since' = now
  /\ had' = had \cup {pending}
  /\ UNCHANGED <<paramVars, pc, now, start, due, answer, tried, ret, changes,
                 provider, prepaid, lags, stage, sent, sends, meddled>>

\* The machine goes on with what it has begun: this is no change that counts.
Settle ==
  /\ pc # "returned"
  /\ cloud \in DOMAIN Settles
  /\ cloud' = Settles[cloud]
  /\ since' = now
  /\ had' = had \cup {cloud'}
  /\ UNCHANGED <<paramVars, pc, now, start, due, answer, tried, ret, changes, powerVars>>

Meddle ==
  /\ Real \notin DOMAIN Settles \cup {"gone"}
  /\ Change
  /\ meddled' = TRUE
  /\ UNCHANGED <<provider, prepaid, lags, stage, sent, pending, sends>>

PowerStep ==
  \/ Begin \/ StartHandle \/ WaitHandle \/ ShutdownHandle \/ RegionStatus \/ RegionSend \/ Resend
  \/ /\ ~(fn = "DeleteVM" /\ stage = "shutdown" /\ pc = "loop" /\ ~GoesOn)
     /\ Wake \/ LoopTest \/ Answer
     /\ UNCHANGED powerVars

-----------------------------------------------------------------------------
\* nil means that the machine has been in the wanted status since the call,
\* also when others start, stop and delete it meanwhile.  The exception is
\* huawei, which believes a status from before the call (instance.go:572).
PowerNilReached ==
  fn \in PowerFunctions /\ ret = "nil" => 
    Wanted \in had \/ (provider = "huawei" /\ stage = "cached")

\* Looking twice and then sending is not atomic, but it is others who spoil
\* it: if nobody meddles, StopVM is refused only while the machine is on its
\* way up or down, and both StartVM and StopVM if the machine has taken their
\* own request before: when they look it does not show yet, or its answer was
\* lost and it was sent again.
RefusedByOthers ==
  ret = "invalid" /\ ~meddled =>
    \/ fn \in {"StartVM", "StopVM"} /\ sends = 1 /\ (lags \/ ResendsLost)
    \/ fn = "StopVM" /\ had \cap {"starting", "stopping"} # {}
    \/ fn = "DeleteVM"

\* However often the loop goes round, and the layer below sends again, one
\* request is taken by a machine that nobody else touches, and a second one
\* to delete a prepaid machine.  Only StartVM of aws, which does not look
\* again, repeats a start that does not show yet.
SentOnce ==
  ~meddled => \/ sends <= IF prepaid THEN 2 ELSE 1
              \/ fn = "StartVM" /\ provider = "aws" /\ lags

=============================================================================
