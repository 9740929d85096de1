----------------------------- MODULE Multipart -----------------------------
(***************************************************************************)
(* UploadObject and CopyObject of cloudprovider/objectstore.go: an object  *)
(* that is not smaller than a block is sent in parts to a multipart upload *)
(* of the destination bucket, which is completed at the end or aborted     *)
(* when a call fails.  There are three kinds of buckets:                   *)
(*   "s3"      the upload has an identifier, its parts have numbers, and   *)
(*             the object appears when it is completed (the buckets of all *)
(*             other providers);                                           *)
(*   "azure"   the upload is a lease on the destination, which an empty    *)
(*             blob has replaced (azure/storageaccount.go);                *)
(*   "google"  the parts are sent with the places of their bytes, and the  *)
(*             object appears with its last byte (google/bucket.go).       *)
(* Every call may return an error, with or without effect.  The services   *)
(* behind the buckets are external.  The bytes of the source are numbered, *)
(* and a part is the range of them that it holds.                          *)
(***************************************************************************)
EXTENDS Integers, Sequences

CONSTANTS
  Sizes,              \* the sizes of the objects, in bytes
  BlockSizes,         \* what a caller may pass as blocksz
  MaxPutSizeBytes,    \* MAX_PUT_OBJECT_SIZEBYTES
  MaxPartCount,       \* bucket.MaxPartCount()
  MaxPartSizeBytes    \* bucket.MaxPartSizeBytes()

(***************************************************************************)
(* A block is at most what a part may be, and at least MaxPartCount - 1    *)
(* bytes: blocks of a real bucket have some megabytes, and it takes no     *)
(* more than 10000 parts.  Without the second bound, the last part of the  *)
(* plan can have no bytes, or fewer than none.                             *)
(***************************************************************************)
ASSUME MultipartAssumption ==
  /\ Sizes \subseteq Nat
  /\ BlockSizes \subseteq Int
  /\ MaxPartCount \in Nat \ {0}
  /\ MaxPartSizeBytes \in Nat
  /\ \A b \in BlockSizes \cup {MaxPutSizeBytes} :
       b > 0 => b \in MaxPartCount - 1 .. MaxPartSizeBytes
  /\ MaxPutSizeBytes \in Nat \ {0}

VARIABLES
  kind,        \* the destination bucket
  before,      \* the destination before the call: "old" or "absent"
  op,          \* the function that was called: "upload" or "copy"
  sizeBytes,   \* the size of the source
  blocksz,     \* the parameter, later its effective value
  pc,          \* where the function is
  partSize,
  partCount,
  i,           \* the part that is sent next, from 0
  offset,      \* what UploadPart is told about where the part begins
  pos,         \* how far the input stream of UploadObject has been read
  upload,      \* the multipart upload in the bucket
  parts,       \* the parts that were sent to it, in the order of their numbers
  dest,        \* the destination: what it was before, "empty", or "new"
  object,      \* the content of the destination when it is new
  failed,      \* the bucket's calls that returned an error
  ret          \* what the function returned

planVars == <<kind, before, op, sizeBytes, blocksz>>
loopVars == <<partSize, partCount, i, offset, pos>>
destVars == <<dest, object>>
vars == <<planVars, pc, loopVars, upload, parts, destVars, failed, ret>>

Part == [from : Int, len : Int, at : Int]
Pc   == {"find", "plan", "get", "put", "new", "read", "part", "complete",
         "abort", "returned"}
Call == {"find", "get", "put", "new", "read", "part", "complete", "abort"}

MultipartTypeOK ==
  /\ kind \in {"s3", "azure", "google"}
  /\ before \in {"old", "absent"}
  /\ op \in {"upload", "copy"}
  /\ sizeBytes \in Sizes
  /\ blocksz \in BlockSizes \cup {MaxPutSizeBytes}
  /\ pc \in Pc
  /\ partSize \in Nat
  /\ partCount \in 0 .. MaxPartCount
  /\ i \in 0 .. partCount
  /\ offset \in 0 .. sizeBytes
  /\ pos \in 0 .. sizeBytes
  /\ upload \in {"none", "open", "completed", "aborted"}
  /\ parts \in Seq(Part)
  /\ dest \in {"old", "absent", "empty", "new"}
  /\ object \in Seq(Part)
  /\ failed \subseteq Call
  /\ ret \in {"none", "nil", "error"}

Init ==
  /\ kind \in {"s3", "azure", "google"}
  /\ before \in {"old", "absent"}
  /\ op \in {"upload", "copy"}
  /\ sizeBytes \in Sizes
  /\ blocksz \in BlockSizes
  /\ pc = IF op = "copy" THEN "find" ELSE "plan"
  /\ partSize = 0
  /\ partCount = 0
  /\ i = 0
  /\ offset = 0
  /\ pos = 0
  /\ upload = "none"
  /\ parts = << >>
  /\ dest = before
  /\ object = << >>
  /\ failed = {}
  /\ ret = "none"

-----------------------------------------------------------------------------
(* The plan of the parts.                                                  *)

\* Mutant: the division is not rounded up.
PartsOfFloor(a, b) == a \div b

\* a / b, and one more when that does not reach a.
PartsOf(a, b) == IF (a \div b) * b < a THEN a \div b + 1 ELSE a \div b

TooMany(size, block)  == PartsOf(size, block) > MaxPartCount
TooLarge(size, block) ==
  TooMany(size, block) /\ PartsOf(size, MaxPartCount) > MaxPartSizeBytes

CountOf(size, block) ==
  IF TooMany(size, block) THEN MaxPartCount ELSE PartsOf(size, block)

PartSizeOf(size, block) ==
  IF TooMany(size, block) THEN PartsOf(size, MaxPartCount) ELSE block

\* The last part is what the others leave.
PartLen ==
  IF i = partCount - 1 THEN sizeBytes - partSize * (partCount - 1) ELSE partSize

Block == IF blocksz <= 0 THEN MaxPutSizeBytes ELSE blocksz

\* Up to the choice between one shot, parts, and an object that is too large.
Plan ==
  /\ pc = "plan"
  /\ blocksz' = Block
  /\ \/ /\ sizeBytes < Block
        /\ pc' = IF op = "copy" THEN "get" ELSE "put"
        /\ UNCHANGED <<partSize, partCount, ret>>
     \/ /\ sizeBytes >= Block
        /\ TooLarge(sizeBytes, Block)
        /\ pc' = "returned"
        /\ ret' = "error"
        /\ UNCHANGED <<partSize, partCount>>
     \/ /\ sizeBytes >= Block
        /\ ~TooLarge(sizeBytes, Block)
        /\ pc' = "new"
        /\ partCount' = CountOf(sizeBytes, Block)
        /\ partSize' = PartSizeOf(sizeBytes, Block)
        /\ UNCHANGED ret
  /\ UNCHANGED <<kind, before, op, sizeBytes, i, offset, pos, upload, parts, destVars, failed>>

-----------------------------------------------------------------------------
(* One shot.                                                               *)

\* A call at "at" fails, and the function returns its error.
Fail(at) ==
  /\ pc = at
  /\ failed' = failed \cup {at}
  /\ pc' = "returned"
  /\ ret' = "error"

\* CopyObject: GetIObject(srcBucket, srcKey).
Find ==
  /\ \/ pc = "find" /\ pc' = "plan" /\ UNCHANGED <<failed, ret>>
     \/ Fail("find")
  /\ UNCHANGED <<planVars, loopVars, upload, parts, destVars>>

\* CopyObject: srcBucket.GetObject without a range.
GetWhole ==
  /\ \/ pc = "get" /\ pc' = "put" /\ UNCHANGED <<failed, ret>>
     \/ Fail("get")
  /\ UNCHANGED <<planVars, loopVars, upload, parts, destVars>>

WholeSource == <<[from |-> 0, len |-> sizeBytes, at |-> 0]>>

\* The destination has this content.
Becomes(content) == dest' = "new" /\ object' = content

\* It may have taken effect when it fails.
PutObject ==
  /\ \/ /\ pc = "put"
        /\ pc' = "returned"
        /\ ret' = "nil"
        /\ Becomes(WholeSource)
        /\ UNCHANGED failed
     \/ Fail("put") /\ (Becomes(WholeSource) \/ UNCHANGED destVars)
  /\ UNCHANGED <<planVars, loopVars, upload, parts>>

-----------------------------------------------------------------------------
(* In parts.                                                               *)

FirstOf(function) == IF function = "copy" THEN "read" ELSE "part"

\* Azure: CreateBlockBlob, then AcquireLease, whose identifier is the upload's.
Created == dest' = IF kind = "azure" THEN "empty" ELSE dest

NewMultipartUpload ==
  /\ \/ pc = "new" /\ pc' = FirstOf(op) /\ upload' = "open" /\ Created /\ UNCHANGED <<failed, ret>>
     \/ Fail("new") /\ upload' \in {"none", "open"} /\ Created
     \/ Fail("new") /\ UNCHANGED <<upload, dest>>
  /\ UNCHANGED <<planVars, loopVars, parts, object>>

\* A call for a part fails, and AbortMultipartUpload is called.
FailPart(at) ==
  /\ pc = at
  /\ failed' = failed \cup {at}
  /\ pc' = "abort"

\* CopyObject: srcBucket.GetObject with the range of the part.
GetRange ==
  /\ \/ pc = "read" /\ pc' = "part" /\ UNCHANGED failed
     \/ FailPart("read")
  /\ UNCHANGED <<planVars, loopVars, upload, parts, destVars, ret>>

NextPart == IF i + 1 = partCount THEN "complete" ELSE FirstOf(op)

\* The part that is sent.  UploadObject reads it from the stream, CopyObject
\* from the source.
CurrentPart ==
  [from |-> IF op = "upload" THEN pos ELSE i * partSize, len |-> PartLen, at |-> offset]

\* Google's service puts the bytes where Content-Range says, and makes the
\* object when it has the last one.
PartArrives(part) ==
  IF kind = "google" /\ part.at + part.len = sizeBytes
  THEN upload' = "completed" /\ Becomes(Append(parts, part))
  ELSE UNCHANGED <<upload, destVars>>

\* Mutant: offset is advanced before the call.
UploadPartOffsetFirst ==
  /\ op = "upload"
  /\ pc = "part"
  /\ LET part == [CurrentPart EXCEPT !.at = offset + PartLen]
     IN  PartArrives(part) /\ parts' = Append(parts, part)
  /\ partSize' = PartLen
  /\ pos' = pos + PartLen
  /\ offset' = offset + PartLen
  /\ i' = i + 1
  /\ pc' = NextPart
  /\ UNCHANGED <<planVars, partCount, failed, ret>>

\* UploadObject advances offset with the stream.
UploadPart ==
  /\ op = "upload"
  /\ pc = "part"
  /\ PartArrives(CurrentPart)
  /\ parts' = Append(parts, CurrentPart)
  /\ partSize' = PartLen
  /\ pos' = pos + PartLen
  /\ offset' = offset + PartLen
  /\ i' = i + 1
  /\ pc' = NextPart
  /\ UNCHANGED <<planVars, partCount, failed, ret>>

\* CopyObject continues with the next part before it reaches the statement
\* that advances offset.
CopyPart ==
  /\ op = "copy"
  /\ pc = "part"
  /\ PartArrives(CurrentPart)
  /\ parts' = Append(parts, CurrentPart)
  /\ partSize' = PartLen
  /\ i' = i + 1
  /\ pc' = NextPart
  /\ UNCHANGED <<planVars, partCount, offset, pos, failed, ret>>

\* The part may have arrived.  What CopyObject still adds to offset is not
\* read again.
PartFails ==
  /\ FailPart("part")
  /\ PartArrives(CurrentPart) \/ UNCHANGED <<upload, destVars>>
  /\ UNCHANGED <<planVars, loopVars, parts, ret>>

\* S3 makes the object of the parts; Azure puts the list of the blocks and
\* then releases the lease; Google only looks for an object with the key,
\* which may be the old one.
Completed ==
  IF kind = "google" THEN dest # "absent" /\ UNCHANGED <<upload, destVars>>
                     ELSE upload' = "completed" /\ Becomes(parts)

\* A call that fails did nothing or all of it; or, on Azure, the lease was
\* not released although the object is there.
CompletedInPart ==
  \/ UNCHANGED <<upload, destVars>>
  \/ Completed
  \/ kind = "azure" /\ UNCHANGED upload /\ Becomes(parts)

\* Mutant: its error is returned without the abort.
CompleteMultipartUploadKeeps ==
  /\ \/ /\ pc = "complete"
        /\ pc' = "returned"
        /\ ret' = "nil"
        /\ Completed
        /\ UNCHANGED failed
     \/ Fail("complete") /\ CompletedInPart
  /\ UNCHANGED <<planVars, loopVars, parts>>

CompleteMultipartUpload ==
  /\ \/ /\ pc = "complete"
        /\ pc' = "returned"
        /\ ret' = "nil"
        /\ Completed
        /\ UNCHANGED failed
     \/ /\ FailPart("complete")
        /\ CompletedInPart
        /\ UNCHANGED ret
  /\ UNCHANGED <<planVars, loopVars, parts>>

\* Azure deletes the destination once the lease is released.
Deleted == dest' = IF kind = "azure" THEN "absent" ELSE dest

\* Mutant: it goes on when the upload is not open any more, and takes back
\* what the upload has written.
AbortTakesBack ==
  /\ pc = "abort"
  /\ pc' = "returned"
  /\ ret' = "error"
  /\ upload' = IF upload = "open" THEN "aborted" ELSE upload
  /\ dest' = IF kind = "azure" THEN "absent" ELSE before
  /\ UNCHANGED <<planVars, loopVars, parts, object, failed>>

\* An upload that is not open cannot be aborted.  The error of the abort is
\* only logged.
AbortMultipartUpload ==
  /\ pc = "abort"
  /\ pc' = "returned"
  /\ ret' = "error"
  /\ \/ upload = "open" /\ upload' = "aborted" /\ Deleted /\ UNCHANGED failed
     \/ /\ failed' = failed \cup {"abort"}
        /\ \/ UNCHANGED <<upload, dest>>
           \/ upload = "open" /\ upload' = "aborted" /\ (Deleted \/ UNCHANGED dest)
  /\ UNCHANGED <<planVars, loopVars, parts, object>>

Next ==
  \/ Plan \/ Find \/ GetWhole \/ PutObject
  \/ NewMultipartUpload \/ GetRange \/ UploadPart \/ CopyPart \/ PartFails
  \/ CompleteMultipartUpload \/ AbortMultipartUpload

Spec == Init /\ [][Next]_vars

-----------------------------------------------------------------------------
(* What makes the two functions correct.                                   *)

\* The parts of a content follow each other and hold all bytes of the source,
\* and where the bucket looks at their places these are right.
Whole(content) ==
  /\ content # << >>
  /\ content[1].from = 0
  /\ \A k \in 1 .. Len(content) - 1 :
       content[k].from + content[k].len = content[k + 1].from
  /\ content[Len(content)].from + content[Len(content)].len = sizeBytes
  /\ kind = "google" => \A k \in 1 .. Len(content) : content[k].at = content[k].from

\* The case in which CopyObject does not work: it sends every part with the
\* place 0, and a bucket of Google never has the last byte.
CopyLost == kind = "google" /\ op = "copy" /\ partCount > 1

\* Whatever fails, with or without effect: an object that appears has all
\* bytes of the source in their places, it is there when nil is returned, and
\* until then the destination is what it was, except on Azure, where an empty
\* blob or nothing may have replaced it.  CopyObject in parts to Google never
\* writes the object: nil then means only that there was one before.
AllOrNothing ==
  /\ dest = "new" => Whole(object)
  /\ ret = "nil" => dest = IF CopyLost THEN "old" ELSE "new"
  /\ dest \in {before, "new"} \/ kind = "azure"
  /\ CopyLost => dest = before

\* An object that has appeared is not taken away again, except by the abort
\* that follows a CompleteMultipartUpload of Azure that wrote the object and
\* returned an error.
FinishedStays ==
  [][dest = "new" /\ dest' # "new" => kind = "azure" /\ "complete" \in failed /\ ret' = "error"]_vars

\* A multipart upload (on Azure: the lease, which never expires) is left open
\* in the bucket only if the call that should have told its identifier or the
\* one that should have aborted it has failed, or if CopyObject was lost.
NoUploadLeft ==
  pc = "returned" /\ upload = "open" =>
    failed \cap {"new", "abort"} # {} \/ (CopyLost /\ ret = "nil")

\* No part is empty or larger than the bucket takes, and there are not more
\* of them than it takes, wherever the size lies between the limits.
PartsWithinLimits ==
  /\ Len(parts) <= MaxPartCount
  /\ \A k \in 1 .. Len(parts) : parts[k].len \in 1 .. MaxPartSizeBytes

=============================================================================
