---------------------------- MODULE AzureRequest ----------------------------
(***************************************************************************)
(* _jsonRequest of azure/azure.go: a request whose answer may name an      *)
(* operation that goes on, which is then polled with cloudprovider.Wait.   *)
(* The status of the operation is the status in the cloud.                 *)
(***************************************************************************)
EXTENDS Waiting

CONSTANT RetryAfter     \* the value of the header Retry-After

VARIABLE style    \* what the answer to the request is like

\* The first two name a header with the location of the operation.  With
\* "id" there is such a header, and the body already describes the resource.
Style == {"Azure-Asyncoperation", "Location", "id", "plain"}

\* "Accepted" stands for the statuses of which the code does not know; with
\* "OSProvisioning" the machine is there, its system did not answer in time.
Operation == {"InProgress", "Accepted", "Succeeded", "Failed", "OSProvisioning"}
Ended     == {"Succeeded", "Failed", "OSProvisioning"}

\* An answer without a status cannot be taken for one.
ASSUME AzureAssumption ==
  /\ RetryAfter \in Nat
  /\ Operation \subseteq Status
  /\ Status \cap {"Retry-After", "resource", "empty"} = {}

AzureInit ==
  /\ Called("_jsonRequest", {}, "request", 0, {"InProgress", "Accepted"})
  /\ style \in Style

\* cli.Send of the request itself, and what its answer is like.
SendRequest ==
  /\ pc = "request"
  /\ \/ Returns("error") /\ UNCHANGED start
     \/ style \in {"id", "plain"} /\ Returns("nil") /\ UNCHANGED start
     \/ style \notin {"id", "plain"} /\ pc' = "loop" /\ start' = now /\ UNCHANGED ret
  /\ UNCHANGED <<paramVars, now, due, answer, tried, cloudVars, style>>

\* What the server may answer when it is asked for the operation: its status,
\* or, under a Location, an empty body until it has ended, and then the
\* resource; an error when it has failed.  Any call may fail, and any answer
\* may have a Retry-After.
Polled(s) ==
  {"error", "Retry-After"} \cup
  CASE s = "OSProvisioning" -> {s}
    [] s # "OSProvisioning" /\ style = "Azure-Asyncoperation" -> {s}
    [] s = "Succeeded" /\ style = "Location" -> {"resource"}
    [] s = "Failed" /\ style = "Location" -> {"error"}
    [] OTHER -> {"empty"}

Poll ==
  /\ fn = "_jsonRequest"
  /\ pc = "call"
  /\ answer' \in Polled(cloud)
  /\ pc' = "answered"
  /\ UNCHANGED <<paramVars, now, start, due, tried, ret, cloudVars, style>>

\* Mutant: only an answer with a status can be the end.
DoneStatus == answer \in {"OSProvisioning", "Succeeded"}

Done == answer \in {"OSProvisioning", "resource", "Succeeded"}

Broken == answer \in {"error", "Failed", "Accepted"}

\* The callback; a Retry-After is obeyed before anything else is looked at,
\* and the interval comes on top of it.
PollHandle ==
  /\ fn = "_jsonRequest"
  /\ Compare(Done, Broken,
             Sleep(IF answer = "Retry-After" THEN RetryAfter + Interval ELSE Interval))
  /\ UNCHANGED style

AzureStep ==
  \/ SendRequest \/ Poll \/ PollHandle
  \/ (Wake \/ LoopTest) /\ UNCHANGED style

-----------------------------------------------------------------------------
\* The body that is returned after polling is the one of an operation that
\* has ended well (or whose machine is there); only when the first answer
\* already describes the resource does nobody wait for the end.
AzureNilMeansEnded ==
  fn = "_jsonRequest" /\ ret = "nil" =>
    style \in {"id", "plain"} \/ had \cap {"Succeeded", "OSProvisioning"} # {}

\* An operation that ends in time is not reported as timed out, unless the
\* server goes on sending Retry-After, which the code obeys even with the
\* answer that the operation has ended.
AzureEndIsSeen ==
  fn = "_jsonRequest" /\ ret = "timeout" /\ timeout > 0
    /\ cloud \in Ended /\ answer # "Retry-After" =>
      since >= start + timeout - (Interval + RetryAfter + CallTime)

=============================================================================
