------------------------------- MODULE Upload -------------------------------
(***************************************************************************)
(* Upload of azure/upload.go: a goroutine reads the ranges of the disk,    *)
(* the calling goroutine turns each of them into a request for the         *)
(* balancer, the workers write blocks to the blob and report their bytes   *)
(* to the progress tracker, and one more goroutine listens for the errors. *)
(* Range r of the disk is the request r of the balancer.                   *)
(***************************************************************************)
EXTENDS Balancer, Progress

ASSUME UploadAssumption ==
  /\ ReportersCount = WorkerCount     \* cxt.Parallelism, twice
  /\ Block = Request

VARIABLES
  gPc,                \* the goroutine of GetDataWithRanges: where it is
  gNext,              \* the next range that it reads
  uPc,                \* Upload: where it is
  err,                \* Upload: is err set (by the stream)
  ePc,                \* the error listener: where it is
  allWorkSucceeded,   \* the variable that it shares with Upload
  ret,                \* what Upload returned
  stored,             \* the blob: the ranges that have been written
  reporting           \* the workers whose WriteRange has returned nil

blobVars   == <<stored, reporting>>
uploadVars == <<gPc, gNext, uPc, err, ePc, allWorkSucceeded, ret>>
vars == <<balancerVars, progressVars, uploadVars, blobVars>>

UploadTypeOK ==
  /\ TypeOK
  /\ ProgressTypeOK
  /\ gPc \in {"read", "data", "error", "closed", "done"}
  /\ gNext \in 1 .. NumRequests + 1
  /\ uPc \in {"select", "send", "teardown", "wait", "close", "result", "returned"}
  /\ err \in BOOLEAN
  /\ ePc \in {"recv", "set"}
  /\ allWorkSucceeded \in BOOLEAN
  /\ ret \in {"none", "nil", "read error", "incomplete"}
  /\ stored \subseteq Request
  /\ reporting \subseteq Worker

UploadInit ==
  /\ BalancerInit
  /\ ProgressInit
  /\ gPc = "read"
  /\ gNext = 1
  /\ uPc = "select"
  /\ err = FALSE
  /\ ePc = "recv"
  /\ allWorkSucceeded = TRUE
  /\ ret = "none"
  /\ stored = {}
  /\ reporting = {}

-----------------------------------------------------------------------------
(* GetDataWithRanges.                                                      *)

\* Seek and ReadFull of the next range, either of which may fail.
ReadRange ==
  /\ gPc = "read"
  /\ gNext <= NumRequests
  /\ gPc' \in {"data", "error"}
  /\ UNCHANGED <<balancerVars, progressVars, blobVars, gNext, uPc, err, ePc, allWorkSucceeded, ret>>

\* close(dataWithRangeChan) after the last range.
CloseData ==
  /\ gPc = "read"
  /\ gNext > NumRequests
  /\ gPc' = "closed"
  /\ UNCHANGED <<balancerVars, progressVars, blobVars, gNext, uPc, err, ePc, allWorkSucceeded, ret>>

-----------------------------------------------------------------------------
(* Upload itself.                                                          *)

RecvData ==
  /\ uPc = "select"
  /\ gPc = "data"
  /\ uPc' = "send"
  /\ gPc' = "read"
  /\ gNext' = gNext + 1
  /\ UNCHANGED <<balancerVars, progressVars, blobVars, err, ePc, allWorkSucceeded, ret>>

\* requtestChan <- req.
SendWork ==
  /\ uPc = "send"
  /\ SendRequest
  /\ uPc' = "select"
  /\ UNCHANGED <<progressVars, blobVars, gPc, gNext, err, ePc, allWorkSucceeded, ret>>

\* Mutant: requtestChan stays open.
RecvDataClosedKeepsOpen ==
  /\ uPc = "select"
  /\ gPc = "closed"
  /\ uPc' = "wait"
  /\ UNCHANGED <<balancerVars, progressVars, blobVars, gPc, gNext, err, ePc, allWorkSucceeded, ret>>

RecvDataClosed ==
  /\ uPc = "select"
  /\ gPc = "closed"
  /\ CloseRequests
  /\ uPc' = "wait"
  /\ UNCHANGED <<progressVars, blobVars, gPc, gNext, err, ePc, allWorkSucceeded, ret>>

RecvReadError ==
  /\ uPc = "select"
  /\ gPc = "error"
  /\ CloseRequests
  /\ uPc' = "teardown"
  /\ gPc' = "done"
  /\ err' = TRUE
  /\ UNCHANGED <<progressVars, blobVars, gNext, ePc, allWorkSucceeded, ret>>

TearDown ==
  /\ uPc = "teardown"
  /\ TearDownWorkers
  /\ uPc' = "wait"
  /\ UNCHANGED <<progressVars, blobVars, gPc, gNext, err, ePc, allWorkSucceeded, ret>>

\* <-allWorkersFinishedChan.
WaitFinished ==
  /\ uPc = "wait"
  /\ AllWorkersFinished
  /\ uPc' = "close"
  /\ UNCHANGED <<progressVars, blobVars, gPc, gNext, err, ePc, allWorkSucceeded, ret>>

CloseProgress ==
  /\ uPc = "close"
  /\ Close
  /\ uPc' = "result"
  /\ UNCHANGED <<balancerVars, blobVars, gPc, gNext, err, ePc, allWorkSucceeded, ret>>

\* Mutant: only the stream's error counts.
ReturnIgnoresWorkers ==
  /\ uPc = "result"
  /\ ret' = IF err THEN "read error" ELSE "nil"
  /\ uPc' = "returned"
  /\ UNCHANGED <<balancerVars, progressVars, blobVars, gPc, gNext, err, ePc, allWorkSucceeded>>

Return ==
  /\ uPc = "result"
  /\ ret' = IF ~allWorkSucceeded THEN "incomplete"
            ELSE IF err THEN "read error" ELSE "nil"
  /\ uPc' = "returned"
  /\ UNCHANGED <<balancerVars, progressVars, blobVars, gPc, gNext, err, ePc, allWorkSucceeded>>

Main ==
  \/ RecvData \/ SendWork \/ RecvDataClosed \/ RecvReadError \/ TearDown
  \/ WaitFinished \/ CloseProgress \/ Return

-----------------------------------------------------------------------------
(* The Work of a request, and the listener for the errors.                 *)

\* WriteRange writes the block and returns nil, or the answer is lost.
WriteRange(w) ==
  /\ wPc[w] = "running" /\ w \notin reporting
  /\ stored' = stored \cup {wReq[w]}
  /\ reporting' \in {reporting, reporting \cup {w}}
  /\ UNCHANGED <<balancerVars, progressVars, uploadVars>>

\* Mutant: the error of WriteRange is not looked at.
BlockWrittenUnchecked(w) ==
  /\ WorkSucceeds(w)
  /\ Report(Length[wReq[w]])
  /\ reporting' = reporting \ {w}
  /\ UNCHANGED <<uploadVars, stored>>

\* ReportBytesProcessedCount, and Work returns nil.
BlockWritten(w) ==
  /\ w \in reporting
  /\ WorkSucceeds(w)
  /\ Report(Length[wReq[w]])
  /\ reporting' = reporting \ {w}
  /\ UNCHANGED <<uploadVars, stored>>

\* fmt.Println(<-workerErrorChan), with the send of the worker.
ErrorRecv(w) ==
  /\ ePc = "recv"
  /\ ReportError(w)
  /\ ePc' = "set"
  /\ UNCHANGED <<progressVars, blobVars, gPc, gNext, uPc, err, allWorkSucceeded, ret>>

\* allWorkSucceeded = false.
ErrorSet ==
  /\ ePc = "set"
  /\ allWorkSucceeded' = FALSE
  /\ ePc' = "recv"
  /\ UNCHANGED <<balancerVars, progressVars, blobVars, gPc, gNext, uPc, err, ret>>

-----------------------------------------------------------------------------
Idle == UNCHANGED <<progressVars, uploadVars, blobVars>>

\* Work returns an error only if WriteRange has.
WorkStep(w) ==
  \/ WriteRange(w) \/ BlockWritten(w) \/ ErrorRecv(w)
  \/ w \notin reporting /\ WorkerLocal(w) /\ Idle

UploadCore ==
  \/ ReadRange \/ CloseData \/ Main \/ ErrorSet
  \/ \E w \in Worker : WorkStep(w)
  \/ (Dispatcher \/ Listener) /\ Idle

\* The tracker's receiver.  Its sender and its consumer, which only read the
\* sum and which nothing in Upload waits for, take no step here.
CountStep == Receiver /\ UNCHANGED <<balancerVars, uploadVars, blobVars>>

UploadNext == ~panicked /\ (UploadCore \/ CountStep)

\* Every goroutine that can run does run, the reads of the disk and the
\* writes to the blob return.
UploadFairness ==
  /\ WF_vars(~panicked /\ (ReadRange \/ CloseData))
  /\ WF_vars(~panicked /\ Main)
  /\ WF_vars(~panicked /\ ErrorSet)
  /\ WF_vars(~panicked /\ Dispatcher /\ Idle)
  /\ WF_vars(~panicked /\ Listener /\ Idle)
  /\ WF_vars(~panicked /\ CountStep)
  /\ \A w \in Worker : WF_vars(~panicked /\ WorkStep(w))

UploadSpec == UploadInit /\ [][UploadNext]_vars /\ UploadFairness

-----------------------------------------------------------------------------
(* What makes Upload correct.                                              *)

Failed == {r \in Request : result[r] = "failed"}

\* status.go:84: a report to a closed tracker panics.  Upload closes it when
\* no worker is left that could still report.
NoReportAfterClose == bytesClosed => \A w \in Worker : wPc[w] = "exited"

\* The bytes of a block are counted once, when its work has come to its end,
\* whatever was retried, stolen or torn down, and never before the block is in
\* the blob: progress is never ahead of it, though it may fall behind.
WrittenBytesCounted ==
  /\ bytesProcessed + SumOf(bytesChan) = Bytes({r \in Request : result[r] = "ok"})
  /\ \A r \in Request : result[r] = "ok" => r \in stored

\* When Upload returns nil, the work of every range of the disk was run to
\* its end, and at most one block failed: the one whose error the listener
\* has received and not recorded yet.
NilMissesAtMostOne ==
  ret = "nil" =>
    /\ \A r \in Request : result[r] # "none"
    /\ Cardinality(Failed) <= 1

\* Upload returns, whether the disk can be read and the blocks written or
\* not (or the balancer has crashed the process).
UploadReturns == <>(uPc = "returned" \/ panicked)

\* upload.go:147 and worker.go:57: a block that failed after all retries is
\* reported, and Upload then says that the upload is incomplete.
NilMeansAllWritten == ret = "nil" => Failed = {}

=============================================================================
