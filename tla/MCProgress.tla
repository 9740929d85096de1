----------------------------- MODULE MCProgress -----------------------------
(***************************************************************************)
(* The beginning and the end of an upload: the detection of the empty      *)
(* ranges, and the progress tracker with reporters of its own.  Each range *)
(* that is left is reported once, in any order, and Close may be called as *)
(* soon as nobody reports.                                                 *)
(***************************************************************************)
EXTENDS Progress, EmptyRanges

VARIABLE reported     \* the blocks that have been reported

vars == <<progressVars, emptyVars, reported>>

BlockLength == [b \in Block |-> b]    \* blocks of different lengths

Init == ProgressInit /\ EmptyRangesInit /\ reported = {}

\* Block b is the range b - 1.
ReportBlock ==
  /\ dPc = "returned"
  /\ \E b \in Block \ reported :
       /\ \E k \in DOMAIN uploadableRanges : uploadableRanges[k] = b - 1
       /\ Report(Length[b])
       /\ reported' = reported \cup {b}
  /\ UNCHANGED emptyVars

Next ==
  \/ DetectStep /\ UNCHANGED <<progressVars, reported>>
  \/ ReportBlock
  \/ dPc = "returned" /\ Close /\ UNCHANGED <<emptyVars, reported>>
  \/ dPc = "returned" /\ ProgressNext /\ UNCHANGED <<emptyVars, reported>>

\* Both goroutines of the detection run.
Spec ==
  /\ Init /\ [][Next]_vars
  /\ ProgressFairness
  /\ WF_emptyVars(DetectStep)

\* The bytes that have been counted and those that wait in the channel are
\* the bytes of the blocks that were reported: closing loses none of them.
BytesConserved ==
  bytesProcessed + SumOf(bytesChan) = Bytes(reported)

\* The detection never hangs: it returns the list or the error, and the
\* goroutine that reads the disk, if there is one, has ended or closed its
\* channel.
DetectionEnds ==
  <>(dPc \in {"returned", "error"} /\ lPc \in IF fixed THEN {"closed", "ended"} ELSE {"none"})

=============================================================================
