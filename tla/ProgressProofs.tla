--------------------------- MODULE ProgressProofs ---------------------------
(***************************************************************************)
(* The callback of an upload sees percentages that only grow, and the      *)
(* detection of the empty ranges finds exactly what holds data, for any    *)
(* number of ranges and of reporters and for blocks of any length.         *)
(***************************************************************************)
EXTENDS MCProgress, ListsProofs

\* A record that is being overwritten holds the last percentage or a newer
\* one, and none is ahead of the count.
Behind ==
  /\ called <= percent
  /\ percent <= bytesProcessed

\* The places of the two goroutines; the bits that are set are those of the
\* ranges with data up to the index.
Located ==
  /\ index \in 0 .. TotalRanges
  /\ bmap = {k \in Index : k < index /\ k \notin zero}
  /\ zero \subseteq Index
  /\ lPc = "sendIndex" => index \in Index /\ index \notin zero
  /\ lPc = "closed" => index = TotalRanges
  /\ dPc = "compact" => fixed /\ lPc = "closed"
  /\ dPc = "select" => fixed

\* The front of the list: the data among the ranges that the loop has seen,
\* each once and in order.
FrontIs(front, seen) ==
  /\ {uploadableRanges[k] : k \in front} = seen
  /\ \A k, m \in front : k < m => uploadableRanges[k] < uploadableRanges[m]

\* The loop writes behind where it reads: what it has not seen is unchanged.
Compacting ==
  dPc # "returned" =>
    /\ uploadableRanges \in [Index -> Index]
    /\ j \in 0 .. TotalRanges /\ i \in 0 .. j
    /\ \A k \in Index : k >= j => uploadableRanges[k] = k
    /\ dPc # "compact" => j = 0
    /\ FrontIs(0 .. i - 1, {k \in bmap : k < j})

DetectInv == Located /\ Compacting /\ ExactlyData

-----------------------------------------------------------------------------
(* The tracker.                                                            *)

\* Every step of the tracker keeps the types and the order of the counts,
\* and shows the callback nothing smaller.
LEMMA TrackerStep ==
  ASSUME ProgressTypeOK, Behind, ProgressNext
  PROVE  /\ ProgressTypeOK' /\ Behind'
         /\ called' >= called /\ called' <= bytesProcessed'
<1> USE DEF ProgressTypeOK, Behind, recordVars
<1>1. CASE Receive
  <2>1. Head(bytesChan) \in Nat /\ Tail(bytesChan) \in Seq(Nat)
    BY <1>1 DEF Receive
  <2> QED
    BY <1>1, <2>1 DEF Receive
<1>2. CASE ReceiveClosed
  BY <1>2 DEF ReceiveClosed
<1>3. CASE Tick
  BY <1>3 DEF Tick
<1>4. CASE Record
  BY <1>4 DEF Record
<1>5. CASE SendRecord \/ CloseOut
  BY <1>5 DEF SendRecord, CloseOut
<1>6. CASE Done
  BY <1>6 DEF Done
<1>7. CASE Callback
  BY <1>7 DEF Callback
<1>8. CASE ConsumeClosed
  BY <1>8 DEF ConsumeClosed
<1> QED
  BY <1>1, <1>2, <1>3, <1>4, <1>5, <1>6, <1>7, <1>8 DEF ProgressNext, Receiver, Sender, Consumer

\* So does every step.
LEMMA ProgressStep ==
  ASSUME ProgressTypeOK, Behind, [Next]_vars
  PROVE  /\ ProgressTypeOK' /\ Behind'
         /\ called' >= called /\ called' <= bytesProcessed'
<1>1. CASE UNCHANGED progressVars
  BY <1>1 DEF ProgressTypeOK, Behind, progressVars
<1>2. CASE ReportBlock
  <2>1. PICK b \in Block : Report(Length[b])
    BY <1>2 DEF ReportBlock
  <2>2. Length[b] \in Nat
    BY ProgressAssumption
  <2>3. Append(bytesChan, Length[b]) \in Seq(Nat)
    BY <2>2 DEF ProgressTypeOK
  <2> QED
    BY <2>1, <2>3 DEF Report, ProgressTypeOK, Behind, recordVars
<1>3. CASE Close
  BY <1>3 DEF Close, ProgressTypeOK, Behind, recordVars
<1>4. CASE ProgressNext
  BY <1>4, TrackerStep
<1> QED
  BY <1>1, <1>2, <1>3, <1>4 DEF Next, vars

\* The tracker's types, and the order of its counts, in every state.
LEMMA ProgressInvariant == Spec => [](ProgressTypeOK /\ Behind)
<1>1. Init => ProgressTypeOK /\ Behind
  <2> SUFFICES ASSUME ProgressInit PROVE ProgressTypeOK /\ Behind
    BY DEF Init
  <2>1. bytesChan \in Seq(Nat)
    BY DEF ProgressInit
  <2>2. bytesClosed \in BOOLEAN
    BY DEF ProgressInit
  <2> QED
    BY <2>1, <2>2 DEF ProgressInit, ProgressTypeOK, Behind
<1>2. ProgressTypeOK /\ Behind /\ [Next]_vars => (ProgressTypeOK /\ Behind)'
  BY ProgressStep
<1> QED
  BY <1>1, <1>2, PTL DEF Spec

\* The percentages that readAndPrintProgress gives to the callback never go
\* down and never run ahead of what was counted, although they are read
\* through a pointer to a record that the sender may be overwriting.
THEOREM CallbackOnlyGrows == Spec => CallbackMonotone
<1>1. ProgressTypeOK /\ Behind /\ [Next]_vars
      => [called' >= called /\ called' <= bytesProcessed']_progressVars
  BY ProgressStep
<1> QED
  BY <1>1, ProgressInvariant, PTL DEF Spec, CallbackMonotone

-----------------------------------------------------------------------------
(* The bytes.                                                              *)

\* The bytes of some of the blocks, and of one more.
LEMMA BytesFacts ==
  ASSUME NEW blocks \in SUBSET Block
  PROVE  /\ Bytes(blocks) \in Nat
         /\ Bytes({}) = 0
         /\ \A b \in Block \ blocks : Bytes(blocks \cup {b}) = Bytes(blocks) + Length[b]
<1>1. PICK N \in Nat : Block = 1 .. N
  BY ProgressAssumption, FS_CardinalityType
<1>2. Length \in [1 .. N -> Nat]
  BY <1>1, ProgressAssumption
<1> QED
  BY <1>1, <1>2, SumOver DEF Bytes

\* What is counted, and what was reported: the blocks of a set.
Counted == BytesConserved /\ reported \subseteq Block

\* The receiver moves bytes from the channel to the sum.
LEMMA ReceiveCounts ==
  ASSUME ProgressTypeOK, Receive
  PROVE  bytesProcessed' + SumOf(bytesChan') = bytesProcessed + SumOf(bytesChan)
<1>1. bytesChan \in Seq(Nat) /\ bytesChan # << >> /\ bytesProcessed \in Nat
  BY DEF ProgressTypeOK, Receive
<1>2. Head(bytesChan) \in Nat /\ Tail(bytesChan) \in Seq(Nat)
  BY <1>1
<1>3. SumOf(bytesChan) = Head(bytesChan) + SumOf(Tail(bytesChan)) /\ SumOf(Tail(bytesChan)) \in Nat
  BY <1>1, <1>2, SumTail, SumAppend
<1> QED
  BY <1>1, <1>2, <1>3 DEF Receive

\* Every step keeps the count.
LEMMA CountedStep ==
  ASSUME ProgressTypeOK, Counted, [Next]_vars
  PROVE  Counted'
<1> USE DEF Counted, BytesConserved
<1>1. CASE UNCHANGED <<bytesChan, bytesProcessed, reported>>
  BY <1>1 DEF Bytes
<1>2. CASE ReportBlock
  <2>1. PICK b \in Block \ reported : Report(Length[b]) /\ reported' = reported \cup {b}
    BY <1>2 DEF ReportBlock
  <2>2. Length[b] \in Nat /\ bytesChan \in Seq(Nat) /\ bytesProcessed \in Nat
    BY ProgressAssumption DEF ProgressTypeOK
  <2>3. bytesChan' = Append(bytesChan, Length[b]) /\ bytesProcessed' = bytesProcessed
    BY <2>1 DEF Report
  <2>4. SumOf(bytesChan) \in Nat /\ SumOf(bytesChan') = SumOf(bytesChan) + Length[b]
    BY <2>2, <2>3, SumAppend
  <2>5. Bytes(reported) \in Nat /\ Bytes(reported') = Bytes(reported) + Length[b]
    BY <2>1, BytesFacts
  <2>6. Bytes(reported)' = Bytes(reported')
    BY DEF Bytes
  <2> QED
    BY <2>1, <2>2, <2>3, <2>4, <2>5, <2>6
<1>3. CASE Receive /\ UNCHANGED reported
  <2>1. bytesProcessed' + SumOf(bytesChan') = Bytes(reported)
    BY <1>3, ReceiveCounts
  <2> QED
    BY <1>3, <2>1 DEF Bytes
<1>4. CASE Close /\ UNCHANGED reported
  BY <1>1, <1>4 DEF Close
<1>5. CASE ProgressNext /\ ~Receive /\ UNCHANGED reported
  BY <1>1, <1>5 DEF ProgressNext, Receiver, ReceiveClosed, Sender, Tick, Record, SendRecord, CloseOut,
     Done, Consumer, Callback, ConsumeClosed
<1> QED
  BY <1>1, <1>2, <1>3, <1>4, <1>5 DEF Next, vars, progressVars

\* bytesProcessedCountReceiver loses no report and counts none twice: at any
\* time the sum and what waits in the channel are the bytes of the blocks
\* that were reported, also after Close.
THEOREM BytesAreConserved == Spec => []BytesConserved
<1>1. Init => Counted
  <2> SUFFICES ASSUME Init PROVE Counted
    OBVIOUS
  <2>1. bytesChan = << >> /\ bytesProcessed = 0 /\ reported = {}
    BY DEF Init, ProgressInit
  <2>2. SumOf(<< >>) = 0
    <3>1. << >> \in Seq(Nat) /\ 0 \in Nat
      OBVIOUS
    <3> QED
      BY <3>1, SumAppend
  <2>3. Bytes({}) = 0
    BY BytesFacts
  <2> QED
    BY <2>1, <2>2, <2>3 DEF Counted, BytesConserved
<1>2. ProgressTypeOK /\ Counted /\ [Next]_vars => Counted'
  BY CountedStep
<1>3. Counted => BytesConserved
  BY DEF Counted
<1> QED
  BY <1>1, <1>2, <1>3, ProgressInvariant, PTL DEF Spec

-----------------------------------------------------------------------------
(* The detection of the empty ranges.                                      *)

\* The goroutine that reads the disk, and the bits that it makes the caller
\* set.
LEMMA LocatedStep ==
  ASSUME Located, DetectStep
  PROVE  Located'
<1> USE EmptyRangesAssumption DEF Located, Index
<1>1. CASE ReadDisk
  <2>1. UNCHANGED <<fixed, zero, dPc, bmap>> /\ lPc = "read" /\ index \in Index
    BY <1>1 DEF ReadDisk
  <2>2. CASE index \in zero /\ index' = index + 1 /\ lPc' = lPc
    <3>1. index' \in 0 .. TotalRanges
      BY <2>1, <2>2
    <3>2. bmap' = {k \in Index : k < index' /\ k \notin zero'}
      BY <2>1, <2>2
    <3> QED
      BY <2>1, <2>2, <3>1, <3>2
  <2>3. CASE index' = index /\ lPc' \in {"sendIndex", "sendError"} /\ (lPc' = "sendIndex" => index \notin zero)
    BY <2>1, <2>3
  <2> QED
    BY <1>1, <2>2, <2>3 DEF ReadDisk
<1>2. CASE CloseIndexChan
  BY <1>2 DEF CloseIndexChan
<1>3. CASE RecvIndex
  <2>1. /\ UNCHANGED <<fixed, zero, dPc>> /\ dPc = "select" /\ lPc = "sendIndex" /\ lPc' = "read"
        /\ bmap' = bmap \cup {index} /\ index' = index + 1
    BY <1>3 DEF RecvIndex
  <2>2. index \in Index /\ index \notin zero
    BY <2>1
  <2>3. bmap' = {k \in Index : k < index' /\ k \notin zero'}
    BY <2>1, <2>2
  <2> QED
    BY <2>1, <2>2, <2>3
<1>4. CASE RecvIndexClosed \/ RecvLocateError
  BY <1>4 DEF RecvIndexClosed, RecvLocateError
<1>5. CASE Compact \/ Truncate
  BY <1>5 DEF Compact, Truncate
<1>6. CASE GetDiskType
  BY <1>6 DEF GetDiskType
<1> QED
  BY <1>1, <1>2, <1>3, <1>4, <1>5, <1>6 DEF DetectStep

\* Nothing is compacted before the last bit is set.
LEMMA CompactingWaits ==
  ASSUME Located', Compacting, dPc \in {"start", "select"}, dPc' # "returned", UNCHANGED <<uploadableRanges, i, j>>
  PROVE  Compacting'
<1>1. j = 0 /\ i = 0
  BY DEF Compacting
<1>2. 0 .. i - 1 = {}
  BY <1>1
<1>3. {k \in bmap' : k < j} = {}
  BY <1>1 DEF Located, Index
<1>4. FrontIs(0 .. i - 1, {k \in bmap : k < j})'
  BY <1>2, <1>3 DEF FrontIs
<1> QED
  BY <1>1, <1>4 DEF Compacting

\* One round of the loop: a range with data goes behind those that are there.
LEMMA CompactStep ==
  ASSUME Located, Compacting, Compact
  PROVE  Compacting'
<1>0. /\ TotalRanges \in Nat /\ bmap \subseteq Index
      /\ uploadableRanges \in [Index -> Index] /\ j \in Index /\ i \in 0 .. j
      /\ \A k \in Index : k >= j => uploadableRanges[k] = k
      /\ dPc = "compact" /\ dPc' = "compact" /\ bmap' = bmap /\ j' = j + 1
      /\ {uploadableRanges[k] : k \in 0 .. i - 1} = {k \in bmap : k < j}
      /\ \A k, m \in 0 .. i - 1 : k < m => uploadableRanges[k] < uploadableRanges[m]
  BY EmptyRangesAssumption DEF Located, Compacting, Compact, FrontIs
<1>a. \A k \in bmap : k < j' <=> k < j \/ k = j
  BY <1>0 DEF Index
<1>1. CASE j \in bmap
  <2>1. uploadableRanges' = [uploadableRanges EXCEPT ![i] = j] /\ i' = i + 1 /\ i \in Index
    BY <1>0, <1>1 DEF Compact, Index
  <2>2. /\ uploadableRanges' \in [Index -> Index] /\ uploadableRanges'[i] = j
        /\ \A k \in Index : k # i => uploadableRanges'[k] = uploadableRanges[k]
    BY <1>0, <2>1
  <2>3. j' \in 0 .. TotalRanges /\ i' \in 0 .. j' /\ \A k \in Index : k >= j' => uploadableRanges'[k] = k
    BY <1>0, <2>1, <2>2 DEF Index
  <2>4. 0 .. i' - 1 = (0 .. i - 1) \cup {i} /\ i \notin 0 .. i - 1 /\ 0 .. i - 1 \subseteq Index
    BY <1>0, <2>1 DEF Index
  <2>5. \A k \in 0 .. i - 1 : uploadableRanges'[k] = uploadableRanges[k] /\ uploadableRanges[k] \in bmap /\ uploadableRanges[k] < j
    BY <1>0, <2>2, <2>4
  <2>6. {uploadableRanges'[k] : k \in 0 .. i' - 1} = {uploadableRanges[k] : k \in 0 .. i - 1} \cup {j}
    BY <2>2, <2>4, <2>5
  <2>7. {k \in bmap : k < j'} = {k \in bmap : k < j} \cup {j}
    BY <1>0, <1>a, <1>1
  <2>8. ASSUME NEW k \in 0 .. i' - 1, NEW m \in 0 .. i' - 1, k < m
        PROVE  uploadableRanges'[k] < uploadableRanges'[m]
    <3>1. k \in 0 .. i - 1
      BY <1>0, <2>1, <2>8
    <3>2. CASE m = i
      BY <2>2, <2>5, <3>1, <3>2
    <3>3. CASE m \in 0 .. i - 1
      BY <1>0, <2>5, <2>8, <3>1, <3>3
    <3> QED
      BY <2>4, <3>2, <3>3
  <2>9. FrontIs(0 .. i - 1, {k \in bmap : k < j})'
    BY <1>0, <2>6, <2>7, <2>8 DEF FrontIs
  <2> QED
    BY <1>0, <2>2, <2>3, <2>9 DEF Compacting
<1>2. CASE j \notin bmap
  <2>1. UNCHANGED <<uploadableRanges, i>>
    BY <1>2 DEF Compact
  <2>2. {k \in bmap : k < j'} = {k \in bmap : k < j}
    BY <1>a, <1>2
  <2>3. j' \in 0 .. TotalRanges /\ i \in 0 .. j' /\ \A k \in Index : k >= j' => uploadableRanges[k] = k
    BY <1>0 DEF Index
  <2>4. FrontIs(0 .. i - 1, {k \in bmap : k < j})'
    BY <1>0, <2>1, <2>2 DEF FrontIs
  <2> QED
    BY <1>0, <2>1, <2>3, <2>4 DEF Compacting
<1> QED
  BY <1>1, <1>2

\* At the end of the loop all bits are set and all ranges seen.
LEMMA TruncateStep ==
  ASSUME Located, Compacting, Truncate
  PROVE  ExactlyData'
<1>0. /\ TotalRanges \in Nat /\ dPc = "compact" /\ fixed' /\ j \in 0 .. TotalRanges /\ j \notin Index /\ i \in 0 .. j
      /\ uploadableRanges' = [k \in 0 .. i - 1 |-> uploadableRanges[k]] /\ zero' = zero /\ zero \subseteq Index
      /\ index = TotalRanges /\ bmap = {k \in Index : k < index /\ k \notin zero}
      /\ {uploadableRanges[k] : k \in 0 .. i - 1} = {k \in bmap : k < j}
      /\ \A k, m \in 0 .. i - 1 : k < m => uploadableRanges[k] < uploadableRanges[m]
  BY EmptyRangesAssumption DEF Located, Compacting, Truncate, FrontIs
<1>1. {k \in bmap : k < j} = Index \ zero
  BY <1>0 DEF Index
<1>2. {uploadableRanges'[k] : k \in 0 .. i - 1} = {uploadableRanges[k] : k \in 0 .. i - 1}
  BY <1>0
<1>3. DOMAIN uploadableRanges' = 0 .. i - 1
  BY <1>0
<1> QED
  BY <1>0, <1>1, <1>2, <1>3 DEF ExactlyData

\* The list of a disk that is not fixed is returned before any of it is
\* struck.
LEMMA ReturnsAtOnce ==
  ASSUME Compacting, GetDiskType, ~fixed
  PROVE  ExactlyData'
<1>1. /\ uploadableRanges \in [Index -> Index] /\ j = 0 /\ \A k \in Index : k >= j => uploadableRanges[k] = k
      /\ uploadableRanges' = uploadableRanges /\ ~fixed'
  BY DEF Compacting, GetDiskType
<1>2. \A k \in Index : uploadableRanges[k] = k
  BY <1>1, EmptyRangesAssumption DEF Index
<1>3. DOMAIN uploadableRanges = Index
  BY <1>1
<1> QED
  BY <1>1, <1>2, <1>3 DEF ExactlyData

\* Every step keeps the detection right.
LEMMA DetectStepKeeps ==
  ASSUME DetectInv, [Next]_vars
  PROVE  DetectInv'
<1> USE DEF DetectInv
<1>1. CASE UNCHANGED emptyVars
  BY <1>1 DEF emptyVars, Located, Compacting, FrontIs, ExactlyData
<1>2. CASE DetectStep
  <2>0. Located'
    BY <1>2, LocatedStep
  <2>1. CASE ReadDisk \/ CloseIndexChan
    <3>1. UNCHANGED <<fixed, zero, dPc, bmap, uploadableRanges, i, j>>
      BY <2>1 DEF ReadDisk, CloseIndexChan
    <3> QED
      BY <2>0, <3>1 DEF Compacting, FrontIs, ExactlyData
  <2>2. CASE RecvIndex \/ RecvIndexClosed \/ RecvLocateError
    <3>1. dPc = "select" /\ dPc' # "returned" /\ UNCHANGED <<uploadableRanges, i, j>>
      BY <2>2 DEF RecvIndex, RecvIndexClosed, RecvLocateError
    <3>2. Compacting'
      BY <2>0, <3>1, CompactingWaits
    <3> QED
      BY <2>0, <3>1, <3>2 DEF ExactlyData
  <2>3. CASE Compact
    <3>1. dPc' = "compact"
      BY <2>3 DEF Compact
    <3> QED
      BY <2>0, <2>3, <3>1, CompactStep DEF ExactlyData
  <2>4. CASE Truncate
    <3>1. dPc' = "returned"
      BY <2>4 DEF Truncate
    <3> QED
      BY <2>0, <2>4, <3>1, TruncateStep DEF Compacting
  <2>5. CASE GetDiskType
    <3>1. CASE fixed
      <4>1. dPc = "start" /\ dPc' = "select" /\ UNCHANGED <<uploadableRanges, i, j>>
        BY <2>5, <3>1 DEF GetDiskType
      <4>2. Compacting'
        BY <2>0, <4>1, CompactingWaits
      <4> QED
        BY <2>0, <4>1, <4>2 DEF ExactlyData
    <3>2. CASE ~fixed
      <4>1. dPc' = "returned"
        BY <2>5, <3>2 DEF GetDiskType
      <4> QED
        BY <2>0, <2>5, <3>2, <4>1, ReturnsAtOnce DEF Compacting
    <3> QED
      BY <3>1, <3>2
  <2> QED
    BY <1>2, <2>1, <2>2, <2>3, <2>4, <2>5 DEF DetectStep
<1> QED
  BY <1>1, <1>2 DEF Next, ReportBlock, vars

\* DetectEmptyRanges returns exactly the ranges of a fixed disk that are not
\* all zero, each once and in order, although it strikes the others from the
\* list in place while it reads it, and learns of them one by one from another
\* goroutine; of any other disk it returns all ranges.
THEOREM DetectsExactlyData == Spec => []ExactlyData
<1>1. Init => DetectInv
  <2> SUFFICES ASSUME EmptyRangesInit PROVE DetectInv
    BY DEF Init
  <2>1. Located
    BY EmptyRangesAssumption DEF EmptyRangesInit, Located, Index
  <2>2. bmap = {} /\ 0 .. i - 1 = {} /\ j = 0 /\ i = 0 /\ uploadableRanges = [k \in Index |-> k]
    BY DEF EmptyRangesInit
  <2>3. FrontIs(0 .. i - 1, {k \in bmap : k < j})
    BY <2>2 DEF FrontIs
  <2>4. Compacting
    BY <2>2, <2>3, EmptyRangesAssumption DEF Compacting
  <2>5. ExactlyData
    BY DEF EmptyRangesInit, ExactlyData
  <2> QED
    BY <2>1, <2>4, <2>5 DEF DetectInv
<1>2. DetectInv /\ [Next]_vars => DetectInv'
  BY DetectStepKeeps
<1>3. DetectInv => ExactlyData
  BY DEF DetectInv
<1> QED
  BY <1>1, <1>2, <1>3, PTL DEF Spec

=============================================================================
