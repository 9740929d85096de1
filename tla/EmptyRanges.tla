---------------------------- MODULE EmptyRanges ----------------------------
(***************************************************************************)
(* DetectEmptyRanges and LocateNonEmptyRangeIndices of azure/upload.go:    *)
(* before the upload of a fixed disk a goroutine reads all of it and sends *)
(* the indices of the ranges that are not all zero, one by one, and the    *)
(* caller strikes the others from its list in place.  The list of any      *)
(* other disk is returned as it is.  Both channels are unbuffered; the     *)
(* indices count from 0.                                                   *)
(***************************************************************************)
EXTENDS Integers, FiniteSets

CONSTANT TotalRanges     \* totalRangesCount

ASSUME EmptyRangesAssumption == TotalRanges \in Nat

Index == 0 .. TotalRanges - 1

VARIABLES
  fixed,             \* GetDiskType() is DiskTypeFixed
  zero,              \* the ranges of the disk that hold nothing but zeros
  lPc,               \* the goroutine that locates: where it is
  index,             \* the range that it is at
  dPc,               \* DetectEmptyRanges: where it is
  bmap,              \* the bits that are set
  lastIndex, emptyRangesCount,
  uploadableRanges,  \* the list, as the indices of its ranges
  i, j               \* the variables of the last loop

emptyVars ==
  <<fixed, zero, lPc, index, dPc, bmap, lastIndex, emptyRangesCount, uploadableRanges, i, j>>

EmptyRangesInit ==
  /\ fixed \in BOOLEAN
  /\ zero \in SUBSET Index
  /\ lPc = "none" /\ index = 0
  /\ dPc = "start"
  /\ bmap = {}
  /\ lastIndex = -1 /\ emptyRangesCount = 0
  /\ uploadableRanges = [k \in Index |-> k]
  /\ i = 0 /\ j = 0

-----------------------------------------------------------------------------
(* LocateNonEmptyRangeIndices.                                             *)

\* Seek, ReadFull and isAllZero; the first two may fail.
ReadDisk ==
  /\ lPc = "read" /\ index \in Index
  /\ \/ index \in zero /\ index' = index + 1 /\ UNCHANGED lPc
     \/ index \notin zero /\ lPc' = "sendIndex" /\ UNCHANGED index
     \/ lPc' = "sendError" /\ UNCHANGED index
  /\ UNCHANGED <<fixed, zero, dPc, bmap, lastIndex, emptyRangesCount, uploadableRanges, i, j>>

\* Mutant: the goroutine ends without a word.
CloseIndexChanForgotten ==
  /\ lPc = "read" /\ index \notin Index
  /\ lPc' = "ended"
  /\ UNCHANGED <<fixed, zero, index, dPc, bmap, lastIndex, emptyRangesCount, uploadableRanges, i, j>>

CloseIndexChan ==
  /\ lPc = "read" /\ index \notin Index
  /\ lPc' = "closed"
  /\ UNCHANGED <<fixed, zero, index, dPc, bmap, lastIndex, emptyRangesCount, uploadableRanges, i, j>>

-----------------------------------------------------------------------------
(* DetectEmptyRanges.                                                      *)

\* The early return, or the call that starts the goroutine.
GetDiskType ==
  /\ dPc = "start"
  /\ \/ ~fixed /\ dPc' = "returned" /\ UNCHANGED lPc
     \/ fixed /\ dPc' = "select" /\ lPc' = "read"
  /\ UNCHANGED <<fixed, zero, index, bmap, lastIndex, emptyRangesCount, uploadableRanges, i, j>>

\* An index is handed over, and the goroutine goes on with the next range.
RecvIndex ==
  /\ dPc = "select" /\ lPc = "sendIndex"
  /\ bmap' = bmap \cup {index}
  /\ emptyRangesCount' = emptyRangesCount + (index - lastIndex - 1)
  /\ lastIndex' = index
  /\ lPc' = "read" /\ index' = index + 1
  /\ UNCHANGED <<fixed, zero, dPc, uploadableRanges, i, j>>

\* break L
RecvIndexClosed ==
  /\ dPc = "select" /\ lPc = "closed"
  /\ dPc' = "compact"
  /\ UNCHANGED <<fixed, zero, lPc, index, bmap, lastIndex, emptyRangesCount, uploadableRanges, i, j>>

RecvLocateError ==
  /\ dPc = "select" /\ lPc = "sendError"
  /\ lPc' = "ended" /\ dPc' = "error"
  /\ UNCHANGED <<fixed, zero, index, bmap, lastIndex, emptyRangesCount, uploadableRanges, i, j>>

\* Mutant: i goes on with j.
CompactGap ==
  /\ dPc = "compact" /\ j \in Index
  /\ uploadableRanges' = IF j \in bmap THEN [uploadableRanges EXCEPT ![i] = uploadableRanges[j]]
                                       ELSE uploadableRanges
  /\ i' = i + 1
  /\ j' = j + 1
  /\ UNCHANGED <<fixed, zero, lPc, index, dPc, bmap, lastIndex, emptyRangesCount>>

\* One round of the loop that moves the ranges to the front.
Compact ==
  /\ dPc = "compact" /\ j \in Index
  /\ IF j \in bmap
     THEN uploadableRanges' = [uploadableRanges EXCEPT ![i] = uploadableRanges[j]] /\ i' = i + 1
     ELSE UNCHANGED <<uploadableRanges, i>>
  /\ j' = j + 1
  /\ UNCHANGED <<fixed, zero, lPc, index, dPc, bmap, lastIndex, emptyRangesCount>>

\* uploadableRanges[:i]
Truncate ==
  /\ dPc = "compact" /\ j \notin Index
  /\ uploadableRanges' = [k \in 0 .. i - 1 |-> uploadableRanges[k]]
  /\ dPc' = "returned"
  /\ UNCHANGED <<fixed, zero, lPc, index, bmap, lastIndex, emptyRangesCount, i, j>>

DetectStep ==
  \/ GetDiskType \/ ReadDisk \/ CloseIndexChan \/ RecvIndex \/ RecvIndexClosed \/ RecvLocateError
  \/ Compact \/ Truncate

-----------------------------------------------------------------------------
\* What is returned of a fixed disk without an error is exactly what is not
\* zero, each range once and in order, although the list is written while it
\* is read.  Of any other disk it is every range, the empty ones too.
ExactlyData ==
  dPc = "returned" =>
    /\ {uploadableRanges[k] : k \in DOMAIN uploadableRanges} = IF fixed THEN Index \ zero ELSE Index
    /\ \A k, m \in DOMAIN uploadableRanges : k < m => uploadableRanges[k] < uploadableRanges[m]

=============================================================================
