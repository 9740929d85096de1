-------------------------- MODULE MultipartProofs --------------------------
(***************************************************************************)
(* For every size, block and limit and every kind of bucket: the parts are *)
(* within the limits and hold the object, and no failure leaves a piece of *)
(* it.                                                                     *)
(***************************************************************************)
EXTENDS Multipart, TLAPS

-----------------------------------------------------------------------------
(* Arithmetic.                                                             *)

\* One more part is one more part's bytes.
LEMMA OneMore == ASSUME NEW n \in Int, NEW p \in Int PROVE (n + 1) * p = n * p + p
OBVIOUS

\* Fewer parts have fewer bytes.
LEMMA FewerParts ==
  ASSUME NEW m \in Nat, NEW n \in Nat, m <= n, NEW p \in Nat
  PROVE  m * p <= n * p
OBVIOUS

\* Rounding up: b fits less than PartsOf(a, b) times into a, and that many
\* cover it.
LEMMA RoundsUp ==
  ASSUME NEW a \in Nat, NEW b \in Nat \ {0}
  PROVE  /\ PartsOf(a, b) \in Nat
         /\ a > 0 => PartsOf(a, b) >= 1
         /\ a > 0 => (PartsOf(a, b) - 1) * b < a
         /\ a <= PartsOf(a, b) * b
<1> DEFINE q == a \div b
<1>1. q \in Nat /\ q * b <= a /\ a < q * b + b
  BY Z3
<1>2. CASE q * b < a
  <2>1. PartsOf(a, b) = q + 1
    BY <1>2 DEF PartsOf
  <2>2. (q + 1) * b = q * b + b
    BY <1>1, OneMore
  <2> HIDE DEF q
  <2> QED
    BY <1>1, <1>2, <2>1, <2>2
<1>3. CASE ~(q * b < a)
  <2>1. PartsOf(a, b) = q
    BY <1>3 DEF PartsOf
  <2>2. ((q - 1) + 1) * b = (q - 1) * b + b
    BY <1>1, OneMore
  <2>3. a > 0 => q >= 1
    BY <1>1, <1>3
  <2>4. (q - 1) + 1 = q
    BY <1>1
  <2> HIDE DEF q
  <2> QED
    BY <1>1, <1>3, <2>1, <2>2, <2>3, <2>4
<1> QED
  BY <1>2, <1>3

\* The blocks that a caller may ask for, after the default.
Allowed(b) == b \in Nat \ {0} /\ b \in MaxPartCount - 1 .. MaxPartSizeBytes

\* What the plan must give: parts within the limits, of which the last has a
\* byte at least and is not longer than the others.
Fits(count, part, size) ==
  /\ count \in 1 .. MaxPartCount
  /\ part \in 1 .. MaxPartSizeBytes
  /\ size - part * (count - 1) \in 1 .. part

\* The plan that UploadObject and CopyObject make fits, unless they say that
\* the object is too large.
LEMMA PlanFits ==
  ASSUME NEW size \in Nat, NEW b, Allowed(b), size >= b, ~TooLarge(size, b)
  PROVE  Fits(CountOf(size, b), PartSizeOf(size, b), size)
<1> USE MultipartAssumption DEF Allowed
<1> DEFINE c == PartsOf(size, b)
           n == MaxPartCount
           p == PartsOf(size, n)
<1>0. size > 0 /\ n \in Nat \ {0}
  OBVIOUS
<1>1. c \in Nat /\ c >= 1 /\ (c - 1) * b < size /\ size <= c * b
  BY <1>0, RoundsUp
<1>2. CASE ~TooMany(size, b)
  <2>1. c <= n
    BY <1>1, <1>2 DEF TooMany
  <2>2. ((c - 1) + 1) * b = (c - 1) * b + b /\ (c - 1) + 1 = c
    BY <1>1, OneMore
  <2>3. b * (c - 1) = (c - 1) * b
    BY <1>1
  <2> HIDE DEF c, n
  <2>4. size - b * (c - 1) \in 1 .. b
    BY <1>1, <2>2, <2>3
  <2> QED
    BY <1>1, <1>2, <2>1, <2>4 DEF Fits, CountOf, PartSizeOf, c, n
<1>3. CASE TooMany(size, b)
  <2>1. c > n
    BY <1>3 DEF TooMany
  <2>2. p \in Nat /\ p >= 1 /\ (p - 1) * n < size /\ size <= p * n
    BY <1>0, RoundsUp
  <2>3. p <= MaxPartSizeBytes
    BY <1>3, <2>2 DEF TooLarge
  <2>4. n * b <= (c - 1) * b
    BY <1>0, <1>1, <2>1, FewerParts
  <2>5. b < p
    <3>1. SUFFICES ASSUME p <= b PROVE FALSE
      BY <2>2
    <3>2. p * n <= b * n
      BY <1>0, <2>2, <3>1, FewerParts
    <3>3. b * n = n * b
      BY <1>0
    <3> HIDE DEF c, n, p
    <3> QED
      BY <1>0, <1>1, <2>2, <2>4, <3>2, <3>3
  <2>6. ((p - 1) + 1) * n = (p - 1) * n + n /\ (p - 1) + 1 = p
    BY <1>0, <2>2, OneMore
  <2>7. p * (n - 1) = p * n - p
    <3>1. ((n - 1) + 1) * p = (n - 1) * p + p /\ (n - 1) + 1 = n
      BY <1>0, <2>2, OneMore
    <3>2. n * p = p * n /\ (n - 1) * p = p * (n - 1)
      BY <1>0, <2>2
    <3> HIDE DEF n, p
    <3> QED
      BY <1>0, <2>2, <3>1, <3>2
  <2>8. n <= p
    BY <1>0, <2>2, <2>5
  <2> HIDE DEF c, n, p
  <2>9. size - p * (n - 1) \in 1 .. p
    BY <1>0, <2>2, <2>6, <2>7, <2>8
  <2> QED
    BY <1>0, <1>3, <2>2, <2>3, <2>9 DEF Fits, CountOf, PartSizeOf, n, p
<1> QED
  BY <1>2, <1>3

-----------------------------------------------------------------------------
(* The invariant.                                                          *)

Chained(content) ==
  /\ content # << >> => content[1].from = 0
  /\ \A k \in 1 .. Len(content) - 1 :
       content[k].from + content[k].len = content[k + 1].from

EndOf(content) ==
  IF content = << >> THEN 0
  ELSE content[Len(content)].from + content[Len(content)].len

Before  == pc \in {"find", "plan", "get", "put", "new"}
Sending == pc \in {"read", "part"}

\* The parts that were sent follow each other; UploadObject gave them their
\* places, CopyObject sent all of them to the first one.
PartsInv ==
  /\ Len(parts) = i
  /\ Chained(parts)
  /\ \A k \in 1 .. Len(parts) : parts[k].len \in 1 .. MaxPartSizeBytes
  /\ op = "upload" => \A k \in 1 .. Len(parts) : parts[k].at = parts[k].from

\* While parts are left, those before have the size of the plan, and the
\* stream and the offset are where the next one begins; at the end the parts
\* are the object, which Google has then.
LoopInv ==
  /\ Before => i = 0 /\ offset = 0 /\ pos = 0 /\ upload = "none" /\ dest = before
  /\ Before /\ pc # "new" => partCount = 0
  /\ pc = "new" \/ Sending => Fits(partCount, partSize, sizeBytes) /\ i < partCount
  /\ Sending => EndOf(parts) = i * partSize
  /\ Sending /\ op = "upload" => pos = i * partSize /\ offset = i * partSize
  /\ op = "copy" => offset = 0
  /\ pc = "complete" /\ ~CopyLost =>
       /\ Whole(parts)
       /\ kind = "google" => upload = "completed" /\ dest = "new"

\* Nothing is returned yet; and Azure has the object before that only after a
\* completion that failed.
LateInv ==
  /\ pc # "returned" => ret = "none"
  /\ kind = "azure" /\ dest = "new" => pc = "returned" \/ (pc = "abort" /\ "complete" \in failed)

Inv ==
  /\ MultipartTypeOK
  /\ PartsInv
  /\ LoopInv
  /\ LateInv
  /\ AllOrNothing
  /\ NoUploadLeft

\* A part that begins where the others end lengthens the chain.
LEMMA AppendPart ==
  ASSUME NEW list \in Seq(Part), Chained(list), NEW x \in Part, x.from = EndOf(list)
  PROVE  /\ Append(list, x) \in Seq(Part)
         /\ Append(list, x) # << >>
         /\ Len(Append(list, x)) = Len(list) + 1
         /\ \A k \in 1 .. Len(list) : Append(list, x)[k] = list[k]
         /\ Append(list, x)[Len(list) + 1] = x
         /\ Chained(Append(list, x))
         /\ EndOf(Append(list, x)) = x.from + x.len
<1> DEFINE new == Append(list, x)
<1>1. /\ new \in Seq(Part)
      /\ Len(list) \in Nat
      /\ Len(new) = Len(list) + 1
      /\ \A k \in 1 .. Len(list) : new[k] = list[k]
      /\ new[Len(list) + 1] = x
  OBVIOUS
<1>2. new # << >>
  BY <1>1
<1>3. (list = << >>) <=> (Len(list) = 0)
  OBVIOUS
<1> HIDE DEF new
<1>4. new[1].from = 0
  <2>1. CASE list = << >>
    BY <1>1, <1>3, <2>1 DEF EndOf
  <2>2. CASE list # << >>
    BY <1>1, <1>3, <2>2 DEF Chained
  <2> QED
    BY <2>1, <2>2
<1>5. ASSUME NEW k \in 1 .. Len(new) - 1
      PROVE  new[k].from + new[k].len = new[k + 1].from
  <2>1. CASE k < Len(list)
    BY <1>1, <2>1 DEF Chained
  <2>2. CASE k = Len(list)
    BY <1>1, <1>3, <2>2 DEF EndOf
  <2> QED
    BY <1>1, <2>1, <2>2
<1> QED
  BY <1>1, <1>2, <1>4, <1>5 DEF Chained, EndOf, new

\* The length of the part that is sent next, and the places where it begins
\* and ends.
LEMMA PartLenFits ==
  ASSUME MultipartTypeOK, Fits(partCount, partSize, sizeBytes), i < partCount
  PROVE  /\ PartLen \in 1 .. MaxPartSizeBytes
         /\ i * partSize \in 0 .. sizeBytes
         /\ i * partSize + PartLen \in 0 .. sizeBytes
         /\ i + 1 < partCount => PartLen = partSize /\ i * partSize + PartLen = (i + 1) * partSize
         /\ i + 1 = partCount => i * partSize + PartLen = sizeBytes
<1> USE MultipartAssumption
<1>0. /\ i \in Nat /\ partSize \in Nat /\ partSize > 0 /\ partCount \in Nat /\ sizeBytes \in Nat
      /\ partSize \in 1 .. MaxPartSizeBytes
      /\ sizeBytes - partSize * (partCount - 1) \in 1 .. partSize
  BY DEF MultipartTypeOK, Fits
<1>1. i * partSize \in Nat /\ partSize * (partCount - 1) \in Int
  BY <1>0
<1>2. (i + 1) * partSize = i * partSize + partSize
  BY <1>0, OneMore
<1>3. partSize * (partCount - 1) = (partCount - 1) * partSize
  BY <1>0
<1>4. CASE i = partCount - 1
  <2>1. PartLen = sizeBytes - partSize * (partCount - 1)
    BY <1>4 DEF PartLen
  <2>2. i * partSize = partSize * (partCount - 1)
    BY <1>3, <1>4
  <2> QED
    BY <1>0, <1>1, <1>4, <2>1, <2>2
<1>5. CASE i # partCount - 1
  <2>1. PartLen = partSize
    BY <1>5 DEF PartLen
  <2>2. i + 1 <= partCount - 1 /\ partCount - 1 \in Nat
    BY <1>0, <1>5
  <2>3. (i + 1) * partSize <= (partCount - 1) * partSize
    BY <1>0, <2>2, FewerParts
  <2> QED
    BY <1>0, <1>1, <1>2, <1>3, <2>1, <2>2, <2>3
<1> QED
  BY <1>4, <1>5

\* The function has just been called.
LEMMA InvInit == Init => Inv
<1> SUFFICES ASSUME Init PROVE Inv
  OBVIOUS
<1> USE MultipartAssumption DEF Init
<1>1. MultipartTypeOK
  BY DEF MultipartTypeOK, Pc
<1>2. PartsInv
  BY DEF PartsInv, Chained
<1>3. LoopInv /\ LateInv
  BY DEF LoopInv, LateInv, Before, Sending
<1>4. AllOrNothing /\ NoUploadLeft
  BY DEF AllOrNothing, NoUploadLeft, CopyLost
<1> QED
  BY <1>1, <1>2, <1>3, <1>4 DEF Inv

\* The part that is sent next continues the chain.  It has the last byte of
\* the object at its place if it is the last one and has its place; a part
\* that CopyObject sends to Google has it only if it is the only one.
LEMMA NextPartFits ==
  ASSUME Inv, pc = "part"
  PROVE  /\ CurrentPart \in Part
         /\ CurrentPart.from = i * partSize /\ CurrentPart.len = PartLen /\ CurrentPart.at = offset
         /\ Chained(parts) /\ EndOf(parts) = i * partSize
         /\ op = "upload" => offset = i * partSize
         /\ op = "copy" => offset = 0
         /\ i + 1 = partCount /\ ~CopyLost => Whole(Append(parts, CurrentPart))
         /\ kind = "google" /\ CurrentPart.at + CurrentPart.len = sizeBytes =>
              ~CopyLost /\ Whole(Append(parts, CurrentPart))
         /\ kind = "google" /\ i + 1 = partCount /\ ~CopyLost => CurrentPart.at + CurrentPart.len = sizeBytes
<1> USE MultipartAssumption
<1> DEFINE x == CurrentPart
<1>0. MultipartTypeOK /\ Fits(partCount, partSize, sizeBytes) /\ i < partCount /\ PartsInv
  BY DEF Inv, LoopInv, Sending
<1>1. /\ i \in Nat /\ partCount \in Nat /\ partSize \in Nat /\ sizeBytes \in Nat /\ i * partSize \in Nat
      /\ offset \in 0 .. sizeBytes /\ parts \in Seq(Part) /\ op \in {"upload", "copy"}
  BY <1>0 DEF MultipartTypeOK
<1>2. /\ PartLen \in 1 .. MaxPartSizeBytes
      /\ i * partSize + PartLen \in 0 .. sizeBytes
      /\ i + 1 = partCount => i * partSize + PartLen = sizeBytes
  BY <1>0, PartLenFits
<1>3. /\ op = "upload" => pos = i * partSize /\ offset = i * partSize
      /\ op = "copy" => offset = 0
      /\ EndOf(parts) = i * partSize
  BY DEF Inv, LoopInv, Sending
<1>4. x.from = i * partSize /\ x.len = PartLen /\ x.at = offset
  BY <1>3 DEF CurrentPart
<1>5. x \in Part
  BY <1>1, <1>2, <1>3 DEF CurrentPart, Part
<1>6. Chained(parts) /\ Len(parts) = i
  BY <1>0 DEF PartsInv
<1> HIDE DEF x
<1>7. /\ Append(parts, x) \in Seq(Part)
      /\ Append(parts, x) # << >>
      /\ Len(Append(parts, x)) = i + 1
      /\ \A k \in 1 .. i : Append(parts, x)[k] = parts[k]
      /\ Append(parts, x)[i + 1] = x
      /\ Chained(Append(parts, x))
  BY <1>1, <1>3, <1>4, <1>5, <1>6, AppendPart
<1>8. op = "upload" => \A k \in 1 .. i + 1 : Append(parts, x)[k].at = Append(parts, x)[k].from
  <2>1. op = "upload" => \A k \in 1 .. i : parts[k].at = parts[k].from
    BY <1>0, <1>6 DEF PartsInv
  <2> QED
    BY <1>1, <1>3, <1>4, <1>7, <2>1
<1>9. op = "copy" /\ kind = "google" /\ (PartLen = sizeBytes \/ ~CopyLost) => partCount = 1 /\ i = 0
  <2> SUFFICES ASSUME op = "copy", kind = "google", PartLen = sizeBytes \/ ~CopyLost, partCount # 1
               PROVE  FALSE
    BY <1>0, <1>1
  <2>1. partCount >= 2 /\ PartLen = sizeBytes
    BY <1>0, <1>1 DEF CopyLost, Fits
  <2>2. 1 * partSize <= (partCount - 1) * partSize
    BY <1>1, <2>1, FewerParts
  <2>3. partSize * (partCount - 1) = (partCount - 1) * partSize /\ 1 * partSize = partSize
    BY <1>1
  <2>4. sizeBytes - partSize * (partCount - 1) \in 1 .. partSize
    BY <1>0 DEF Fits
  <2>5. partSize * (partCount - 1) \in Int
    BY <1>1
  <2>6. partSize < sizeBytes
    BY <1>1, <2>2, <2>3, <2>4, <2>5
  <2>7. PartLen <= partSize
    BY <1>1, <2>4, <2>5 DEF PartLen
  <2> QED
    BY <1>1, <1>2, <2>1, <2>6, <2>7
<1>10. op = "copy" /\ kind = "google" /\ (PartLen = sizeBytes \/ ~CopyLost) =>
         \A k \in 1 .. i + 1 : Append(parts, x)[k].at = Append(parts, x)[k].from
  <2> SUFFICES ASSUME op = "copy", kind = "google", PartLen = sizeBytes \/ ~CopyLost, NEW k \in 1 .. i + 1
               PROVE  Append(parts, x)[k].at = Append(parts, x)[k].from
    OBVIOUS
  <2>1. i = 0 /\ k = 1
    BY <1>9
  <2>2. x.at = 0 /\ x.from = 0
    BY <1>1, <1>3, <1>4, <2>1
  <2> QED
    BY <1>7, <2>1, <2>2
<1>11. ASSUME i * partSize + PartLen = sizeBytes,
              kind = "google" => \A k \in 1 .. i + 1 : Append(parts, x)[k].at = Append(parts, x)[k].from
       PROVE  Whole(Append(parts, x))
  BY <1>1, <1>4, <1>7, <1>11 DEF Whole, Chained
<1>12. i + 1 = partCount /\ ~CopyLost => Whole(Append(parts, x))
  BY <1>1, <1>2, <1>8, <1>10, <1>11
<1>13. kind = "google" /\ x.at + x.len = sizeBytes => ~CopyLost /\ Whole(Append(parts, x))
  <2> SUFFICES ASSUME kind = "google", offset + PartLen = sizeBytes
               PROVE  ~CopyLost /\ Whole(Append(parts, x))
    BY <1>4
  <2>1. CASE op = "upload"
    BY <1>3, <1>8, <1>11, <2>1 DEF CopyLost
  <2>2. CASE op = "copy"
    <3>1. PartLen = sizeBytes
      BY <1>1, <1>2, <1>3, <2>2
    <3>2. i = 0 /\ partCount = 1 /\ i * partSize + PartLen = sizeBytes
      BY <1>1, <1>2, <1>9, <2>2, <3>1
    <3> QED
      BY <1>10, <1>11, <2>2, <3>1, <3>2 DEF CopyLost
  <2> QED
    BY <1>1, <2>1, <2>2
<1>14. kind = "google" /\ i + 1 = partCount /\ ~CopyLost => x.at + x.len = sizeBytes
  <2>1. CASE op = "upload"
    BY <1>2, <1>3, <1>4, <2>1
  <2>2. CASE op = "copy"
    BY <1>1, <1>2, <1>3, <1>4, <1>9, <2>2
  <2> QED
    BY <1>1, <2>1, <2>2
<1> QED
  BY <1>3, <1>4, <1>5, <1>6, <1>12, <1>13, <1>14 DEF x

\* A part that arrives at a bucket of Google may be the last one, and then
\* there is a whole object.
LEMMA Arrives ==
  ASSUME Inv, pc = "part", PartArrives(CurrentPart) \/ UNCHANGED <<upload, destVars>>, UNCHANGED planVars,
         partCount' = partCount
  PROVE  /\ upload' \in {upload, "completed"}
         /\ dest' \in {"old", "absent", "empty", "new"}
         /\ object' \in Seq(Part)
         /\ dest' = "new" => Whole(object')
         /\ dest' \in {before, "new"} \/ kind = "azure"
         /\ CopyLost => dest' = before
         /\ kind = "azure" => dest' = dest
<1>1. MultipartTypeOK /\ AllOrNothing
  BY DEF Inv
<1>2. CASE UNCHANGED <<upload, destVars>>
  BY <1>1, <1>2 DEF MultipartTypeOK, AllOrNothing, destVars
<1>3. CASE kind = "google" /\ CurrentPart.at + CurrentPart.len = sizeBytes /\ upload' = "completed" /\ Becomes(Append(parts, CurrentPart))
  <2>1. ~CopyLost /\ Whole(Append(parts, CurrentPart)) /\ CurrentPart \in Part
    BY <1>3, NextPartFits
  <2>2. Append(parts, CurrentPart) \in Seq(Part)
    BY <1>1, <2>1 DEF MultipartTypeOK
  <2> QED
    BY <1>3, <2>1, <2>2 DEF Becomes
<1> QED
  BY <1>2, <1>3 DEF PartArrives

\* A part has been sent: by UploadObject, which advances the stream and the
\* offset, or by CopyObject, which does not.
LEMMA PartSent ==
  ASSUME Inv, UploadPart \/ CopyPart
  PROVE  Inv'
<1> USE MultipartAssumption
<1> DEFINE x == CurrentPart
<1>a. pc = "part" /\ PartArrives(x)
  BY DEF UploadPart, CopyPart
<1>0. MultipartTypeOK /\ Fits(partCount, partSize, sizeBytes) /\ i < partCount /\ PartsInv /\ AllOrNothing
  BY <1>a DEF Inv, LoopInv, Sending
<1>1. /\ i \in Nat /\ partCount \in Nat /\ partSize \in Nat /\ sizeBytes \in Nat /\ i * partSize \in Nat
      /\ offset \in 0 .. sizeBytes /\ parts \in Seq(Part) /\ op \in {"upload", "copy"}
  BY <1>0 DEF MultipartTypeOK
<1>2. /\ PartLen \in 1 .. MaxPartSizeBytes
      /\ i * partSize + PartLen \in 0 .. sizeBytes
      /\ i + 1 < partCount => PartLen = partSize /\ i * partSize + PartLen = (i + 1) * partSize
      /\ i + 1 = partCount => i * partSize + PartLen = sizeBytes
  BY <1>0, PartLenFits
<1>3. /\ x \in Part /\ x.from = i * partSize /\ x.len = PartLen /\ x.at = offset
      /\ Chained(parts) /\ EndOf(parts) = i * partSize
      /\ op = "upload" => offset = i * partSize
      /\ op = "copy" => offset = 0
      /\ i + 1 = partCount /\ ~CopyLost => Whole(Append(parts, x))
      /\ kind = "google" /\ i + 1 = partCount /\ ~CopyLost => x.at + x.len = sizeBytes
  BY <1>a, NextPartFits
<1>b. Len(parts) = i
  BY <1>0 DEF PartsInv
<1>4. /\ parts' = Append(parts, x)
      /\ op = "upload" => offset' = offset + PartLen /\ pos' = offset'
      /\ op # "upload" => UNCHANGED <<offset, pos>>
  <2>1. op = "upload" => pos = offset
    BY <1>a DEF Inv, LoopInv, Sending
  <2> QED
    BY <2>1 DEF UploadPart, CopyPart
<1>5. /\ i' = i + 1 /\ pc' = NextPart /\ partSize' = PartLen
      /\ UNCHANGED <<kind, before, op, sizeBytes, blocksz, partCount, failed, ret>>
  BY DEF UploadPart, CopyPart, planVars
<1>c. UNCHANGED planVars
  BY DEF UploadPart, CopyPart
<1>d. /\ upload' \in {upload, "completed"}
      /\ dest' \in {"old", "absent", "empty", "new"}
      /\ object' \in Seq(Part)
      /\ dest' = "new" => Whole(object')
      /\ dest' \in {before, "new"} \/ kind = "azure"
      /\ CopyLost => dest' = before
      /\ kind = "azure" => dest' = dest
  BY <1>a, <1>5, <1>c, Arrives
<1>e. kind = "google" /\ i + 1 = partCount /\ ~CopyLost => upload' = "completed" /\ dest' = "new"
  BY <1>a, <1>3 DEF PartArrives, Becomes
<1> HIDE DEF x
<1>6. /\ parts' \in Seq(Part)
      /\ parts' # << >>
      /\ Len(parts') = i + 1
      /\ \A k \in 1 .. i : parts'[k] = parts[k]
      /\ parts'[i + 1] = x
      /\ Chained(parts')
      /\ EndOf(parts') = i * partSize + PartLen
  BY <1>1, <1>3, <1>b, <1>4, AppendPart
<1>7. pc' \in {"complete", "read", "part"} /\ (pc' = "complete" <=> i + 1 = partCount)
  BY <1>5 DEF NextPart, FirstOf
<1>8. MultipartTypeOK'
  <2>1. offset' \in 0 .. sizeBytes /\ pos' \in 0 .. sizeBytes
    BY <1>0, <1>1, <1>2, <1>3, <1>4, <1>5 DEF MultipartTypeOK
  <2> QED
    BY <1>0, <1>1, <1>2, <1>5, <1>6, <1>7, <1>d, <2>1 DEF MultipartTypeOK, Pc
<1>9. PartsInv'
  <2>2. /\ \A k \in 1 .. i : parts[k].len \in 1 .. MaxPartSizeBytes
        /\ op = "upload" => \A k \in 1 .. i : parts[k].at = parts[k].from
    BY <1>0, <1>b DEF PartsInv
  <2>1. x.len \in 1 .. MaxPartSizeBytes
    BY <1>2, <1>3
  <2>3. \A k \in 1 .. i + 1 : parts'[k].len \in 1 .. MaxPartSizeBytes
    <3>1. \A k \in 1 .. i + 1 : k \in 1 .. i \/ k = i + 1
      BY <1>1
    <3> QED
      BY <1>6, <2>1, <2>2, <3>1
  <2>4. op = "upload" => \A k \in 1 .. i + 1 : parts'[k].at = parts'[k].from
    <3>1. \A k \in 1 .. i + 1 : k \in 1 .. i \/ k = i + 1
      BY <1>1
    <3>2. op = "upload" => x.at = x.from
      BY <1>3
    <3> QED
      BY <1>6, <2>2, <3>1, <3>2
  <2> QED
    BY <1>5, <1>6, <2>3, <2>4 DEF PartsInv, Chained
<1>f. CopyLost' = CopyLost
  BY <1>5 DEF CopyLost
<1>10. LoopInv'
  <2>1. ~Before'
    BY <1>7 DEF Before
  <2>0. op' = "copy" => offset' = 0
    BY <1>3, <1>4, <1>5
  <2>2. CASE i + 1 = partCount
    <3>1. ~CopyLost => Whole(parts)'
      BY <1>3, <1>4, <1>5, <2>2 DEF Whole
    <3> QED
      BY <1>5, <1>7, <1>e, <1>f, <2>0, <2>1, <2>2, <3>1 DEF LoopInv, Sending
  <2>3. CASE i + 1 # partCount
    <3>1. i + 1 < partCount /\ partSize' = partSize
      BY <1>0, <1>1, <1>2, <1>5, <2>3
    <3>2. (Fits(partCount, partSize, sizeBytes) /\ i < partCount)'
      BY <1>0, <1>5, <3>1 DEF Fits
    <3>3. EndOf(parts)' = (i + 1) * partSize
      BY <1>2, <1>6, <3>1 DEF EndOf
    <3>4. op' = "upload" => pos' = (i + 1) * partSize /\ offset' = (i + 1) * partSize
      BY <1>2, <1>3, <1>4, <1>5, <3>1
    <3>5. (i * partSize)' = (i + 1) * partSize
      BY <1>5, <3>1
    <3> QED
      BY <1>7, <2>0, <2>1, <2>3, <3>2, <3>3, <3>4, <3>5 DEF LoopInv
  <2> QED
    BY <2>2, <2>3
<1>11. LateInv'
  BY <1>5, <1>a, <1>d DEF Inv, LateInv
<1>12. AllOrNothing'
  <2>1. dest' = "new" => Whole(object)'
    BY <1>5, <1>d DEF Whole
  <2>2. ret' # "nil"
    <3>1. ret # "nil"
      BY <1>a DEF Inv, LateInv
    <3> QED
      BY <1>5, <3>1
  <2> QED
    BY <1>5, <1>d, <1>f, <2>1, <2>2 DEF AllOrNothing
<1>13. NoUploadLeft'
  BY <1>7 DEF NoUploadLeft
<1> QED
  BY <1>8, <1>9, <1>10, <1>11, <1>12, <1>13 DEF Inv

\* Every step keeps the invariant.
LEMMA InvNext == Inv /\ [Next]_vars => Inv'
<1> SUFFICES ASSUME Inv, [Next]_vars PROVE Inv'
  OBVIOUS
<1> USE MultipartAssumption
<1>1. MultipartTypeOK /\ PartsInv /\ LoopInv /\ LateInv /\ AllOrNothing /\ NoUploadLeft
  BY DEF Inv
<1>a. CASE UNCHANGED vars
  BY <1>1, <1>a DEF Inv, MultipartTypeOK, PartsInv, Chained, LoopInv, LateInv, Before, Sending, EndOf, Fits, Whole,
     AllOrNothing, NoUploadLeft, CopyLost, vars, planVars, loopVars, destVars
<1>b. CASE Plan
  <2>1. Allowed(Block) /\ Block \in BlockSizes \cup {MaxPutSizeBytes}
    BY <1>1 DEF Block, Allowed, MultipartTypeOK
  <2>2. pc' = "new" => Fits(partCount', partSize', sizeBytes)
    BY <1>1, <1>b, <2>1, PlanFits DEF Plan, MultipartTypeOK
  <2>3. /\ i = 0 /\ offset = 0 /\ pos = 0 /\ upload = "none" /\ dest = before /\ ret = "none" /\ partCount = 0
        /\ UNCHANGED <<i, offset, pos, upload, parts, dest, object, kind, before, op, sizeBytes>>
    BY <1>1, <1>b DEF Plan, LoopInv, LateInv, Before, destVars
  <2>4. MultipartTypeOK'
    BY <1>1, <1>b, <2>1, <2>2, <2>3 DEF MultipartTypeOK, Plan, Fits, Pc
  <2>5. LoopInv'
    BY <1>b, <2>2, <2>3 DEF LoopInv, Plan, Before, Sending, Fits
  <2>6. PartsInv' /\ LateInv'
    BY <1>1, <1>b, <2>3 DEF Plan, PartsInv, Chained, LateInv, MultipartTypeOK
  <2>7. AllOrNothing' /\ NoUploadLeft'
    BY <1>1, <1>b, <2>3 DEF Plan, AllOrNothing, NoUploadLeft, MultipartTypeOK
  <2> QED
    BY <2>4, <2>5, <2>6, <2>7 DEF Inv
<1>c. CASE Find \/ GetWhole \/ GetRange
  <2>1. UNCHANGED <<kind, before, op, sizeBytes, blocksz, partSize, partCount, i, offset, pos, upload, parts, dest, object>>
    BY <1>c DEF Find, GetWhole, GetRange, planVars, loopVars, destVars
  <2>2. MultipartTypeOK'
    <3>1. /\ pc' \in {"plan", "put", "part", "abort", "returned"}
          /\ failed' \in {failed, failed \cup {"find"}, failed \cup {"get"}, failed \cup {"read"}}
          /\ ret' \in {ret, "error"}
      BY <1>c DEF Find, GetWhole, GetRange, Fail, FailPart
    <3> QED
      BY <1>1, <2>1, <3>1 DEF MultipartTypeOK, Pc, Call
  <2>3. PartsInv' /\ LateInv'
    BY <1>1, <1>c, <2>1 DEF Find, GetWhole, GetRange, Fail, FailPart, PartsInv, Chained, LateInv, LoopInv, Before, MultipartTypeOK
  <2>4. LoopInv'
    BY <1>1, <1>c, <2>1 DEF Find, GetWhole, GetRange, Fail, FailPart, LoopInv, Before, Sending, EndOf, Fits
  <2>5. AllOrNothing'
    BY <1>1, <1>c, <2>1 DEF Find, GetWhole, GetRange, Fail, FailPart, AllOrNothing, CopyLost, Whole
  <2>6. NoUploadLeft'
    BY <1>1, <1>c, <2>1 DEF Find, GetWhole, GetRange, Fail, FailPart, NoUploadLeft, LoopInv, Before
  <2> QED
    BY <2>2, <2>3, <2>4, <2>5, <2>6 DEF Inv
<1>h. CASE NewMultipartUpload
  <2>1. UNCHANGED <<kind, before, op, sizeBytes, blocksz, partSize, partCount, i, offset, pos, parts, object>>
    BY <1>h DEF NewMultipartUpload, planVars, loopVars
  <2>2. /\ pc = "new" /\ upload = "none" /\ dest = before /\ before # "new" /\ ret = "none"
        /\ parts = << >> /\ i = 0 /\ offset = 0 /\ pos = 0
    BY <1>1, <1>h DEF NewMultipartUpload, Fail, LoopInv, Before, PartsInv, MultipartTypeOK, LateInv
  <2>3. dest' \in {dest, "empty"} /\ (kind # "azure" => dest' = dest)
    BY <1>h DEF NewMultipartUpload, Created
  <2>4. 0 * partSize = 0
    BY <1>1 DEF MultipartTypeOK
  <2>5. MultipartTypeOK'
    <3>1. /\ pc' \in {"read", "part", "returned"} /\ upload' \in {"none", "open"}
          /\ failed' \in {failed, failed \cup {"new"}} /\ ret' \in {ret, "error"}
      BY <1>h, <2>2 DEF NewMultipartUpload, Fail, FirstOf
    <3> QED
      BY <1>1, <2>1, <2>3, <3>1 DEF MultipartTypeOK, Pc, Call
  <2>6. PartsInv' /\ LateInv'
    BY <1>1, <1>h, <2>1, <2>2, <2>3 DEF NewMultipartUpload, Fail, FirstOf, PartsInv, Chained, LateInv
  <2>7. LoopInv'
    BY <1>1, <1>h, <2>1, <2>2, <2>4 DEF NewMultipartUpload, Fail, FirstOf, LoopInv, Before, Sending, EndOf, Fits
  <2>8. AllOrNothing'
    BY <1>1, <1>h, <2>1, <2>2, <2>3 DEF NewMultipartUpload, Fail, AllOrNothing, CopyLost
  <2>9. NoUploadLeft'
    BY <1>h DEF NewMultipartUpload, Fail, FirstOf, NoUploadLeft
  <2> QED
    BY <2>5, <2>6, <2>7, <2>8, <2>9 DEF Inv
<1>i. CASE PartFails
  <2>1. UNCHANGED <<kind, before, op, sizeBytes, blocksz, partSize, partCount, i, offset, pos, parts, ret>> /\ UNCHANGED planVars
    BY <1>i DEF PartFails, planVars, loopVars
  <2>2. pc = "part" /\ pc' = "abort" /\ failed' = failed \cup {"part"} /\ ret = "none"
    BY <1>1, <1>i DEF PartFails, FailPart, LateInv
  <2>3. PartArrives(CurrentPart) \/ UNCHANGED <<upload, destVars>>
    BY <1>i DEF PartFails
  <2>4. /\ upload' \in {upload, "completed"}
        /\ dest' \in {"old", "absent", "empty", "new"}
        /\ object' \in Seq(Part)
        /\ dest' = "new" => Whole(object')
        /\ dest' \in {before, "new"} \/ kind = "azure"
        /\ CopyLost => dest' = before
        /\ kind = "azure" => dest' = dest
    BY <2>1, <2>2, <2>3, Arrives
  <2>5. MultipartTypeOK'
    BY <1>1, <2>1, <2>2, <2>4 DEF MultipartTypeOK, Pc, Call
  <2>6. PartsInv' /\ LateInv' /\ LoopInv'
    BY <1>1, <2>1, <2>2, <2>4 DEF PartsInv, Chained, LateInv, LoopInv, Before, Sending
  <2>7. AllOrNothing'
    <3>1. dest' = "new" => Whole(object)'
      BY <2>1, <2>4 DEF Whole
    <3> QED
      BY <2>1, <2>2, <2>4, <3>1 DEF AllOrNothing, CopyLost
  <2>8. NoUploadLeft'
    BY <2>2 DEF NoUploadLeft
  <2> QED
    BY <2>5, <2>6, <2>7, <2>8 DEF Inv
<1>d. CASE PutObject
  <2>1. UNCHANGED <<kind, before, op, sizeBytes, blocksz, partSize, partCount, i, offset, pos, parts, upload>>
    BY <1>d DEF PutObject, planVars, loopVars
  <2>2. pc' = "returned" /\ upload = "none" /\ partCount = 0 /\ dest = before
    BY <1>1, <1>d DEF PutObject, Fail, LoopInv, Before
  <2>3. PartsInv' /\ LateInv' /\ LoopInv' /\ NoUploadLeft'
    BY <1>1, <2>1, <2>2 DEF PartsInv, Chained, LateInv, LoopInv, Before, Sending, NoUploadLeft
  <2>4. WholeSource \in Seq(Part) /\ Whole(WholeSource)
    BY <1>1 DEF Whole, WholeSource, Part, MultipartTypeOK
  <2>5. \/ dest' = "new" /\ object' = WholeSource
        \/ dest' = dest /\ object' = object /\ ret' = "error"
    BY <1>d DEF PutObject, Fail, Becomes, destVars
  <2>6. failed' \subseteq Call /\ ret' \in {"none", "nil", "error"}
    BY <1>1, <1>d DEF PutObject, Fail, MultipartTypeOK, Call
  <2>7. MultipartTypeOK'
    BY <1>1, <2>1, <2>2, <2>4, <2>5, <2>6 DEF MultipartTypeOK, Pc
  <2>8. AllOrNothing'
    <3>0. ~CopyLost'
      BY <2>1, <2>2 DEF CopyLost
    <3>1. CASE dest' = dest /\ object' = object /\ ret' = "error"
      BY <1>1, <2>1, <2>2, <3>0, <3>1 DEF AllOrNothing, Whole
    <3>2. CASE dest' = "new" /\ object' = WholeSource
      BY <2>1, <2>4, <3>0, <3>2 DEF AllOrNothing, Whole
    <3>3. QED
      BY <2>5, <3>1, <3>2
  <2>9. QED
    BY <2>3, <2>7, <2>8 DEF Inv
<1>e. CASE UploadPart \/ CopyPart
  BY <1>e, PartSent
<1>f. CASE CompleteMultipartUpload
  <2>1. UNCHANGED <<kind, before, op, sizeBytes, blocksz, partSize, partCount, i, offset, pos, parts>>
    BY <1>f DEF CompleteMultipartUpload, planVars, loopVars
  <2>2. /\ pc = "complete" /\ ret = "none"
        /\ ~CopyLost => Whole(parts) /\ (kind = "google" => upload = "completed" /\ dest = "new")
        /\ \/ pc' = "returned" /\ ret' = "nil" /\ Completed /\ failed' = failed
           \/ pc' = "abort" /\ ret' = ret /\ CompletedInPart /\ failed' = failed \cup {"complete"}
    BY <1>1, <1>f DEF CompleteMultipartUpload, FailPart, LoopInv, LateInv
  <2>3. /\ upload' \in {upload, "completed"}
        /\ \/ UNCHANGED <<dest, object>>
           \/ kind # "google" /\ dest' = "new" /\ object' = parts
        /\ kind = "google" => UNCHANGED <<upload, dest, object>>
        /\ ret' = "nil" => /\ kind = "google" => dest # "absent"
                           /\ kind # "google" => upload' = "completed" /\ dest' = "new"
    BY <2>2 DEF Completed, CompletedInPart, Becomes, destVars
  <2>4. MultipartTypeOK'
    BY <1>1, <2>1, <2>2, <2>3 DEF MultipartTypeOK, Pc, Call
  <2>5. PartsInv' /\ LoopInv' /\ LateInv'
    BY <1>1, <2>1, <2>2, <2>3 DEF PartsInv, Chained, LoopInv, LateInv, Before, Sending
  <2>6. CopyLost' = CopyLost /\ (CopyLost => kind = "google")
    BY <2>1 DEF CopyLost
  <2>7. AllOrNothing'
    <3>1. dest' = "new" => Whole(object)'
      BY <1>1, <2>1, <2>2, <2>3, <2>6 DEF AllOrNothing, Whole
    <3>2. (dest \in {before, "new"} \/ kind = "azure")' /\ (CopyLost => dest = before)'
      BY <1>1, <2>1, <2>3, <2>6 DEF AllOrNothing
    <3>3. ret' = "nil" => dest' = IF CopyLost' THEN "old" ELSE "new"
      BY <1>1, <2>1, <2>2, <2>3, <2>6, <3>2 DEF MultipartTypeOK
    <3> QED
      BY <3>1, <3>2, <3>3 DEF AllOrNothing
  <2>8. NoUploadLeft'
    BY <2>2, <2>3, <2>6 DEF NoUploadLeft
  <2> QED
    BY <2>4, <2>5, <2>7, <2>8 DEF Inv
<1>g. CASE AbortMultipartUpload
  <2>1. UNCHANGED <<kind, before, op, sizeBytes, blocksz, partSize, partCount, i, offset, pos, parts, object>>
    BY <1>g DEF AbortMultipartUpload, planVars, loopVars
  <2>2. pc' = "returned" /\ ret' = "error" /\ dest' \in {dest, "absent"} /\ (kind # "azure" => dest' = dest)
    BY <1>g DEF AbortMultipartUpload, Deleted
  <2>3. MultipartTypeOK'
    BY <1>1, <1>g, <2>1, <2>2 DEF MultipartTypeOK, AbortMultipartUpload, Pc, Call
  <2>4. PartsInv' /\ LoopInv' /\ LateInv'
    BY <1>1, <2>1, <2>2 DEF PartsInv, Chained, LoopInv, LateInv, Before, Sending
  <2>5. AllOrNothing'
    BY <1>1, <2>1, <2>2 DEF AllOrNothing, CopyLost, Whole
  <2>6. NoUploadLeft'
    BY <1>1, <1>g DEF AbortMultipartUpload, NoUploadLeft
  <2> QED
    BY <2>3, <2>4, <2>5, <2>6 DEF Inv
<1> QED
  BY <1>a, <1>b, <1>c, <1>d, <1>e, <1>f, <1>g, <1>h, <1>i DEF Next

\* The invariant holds in every state.
LEMMA Invariant == Spec => []Inv
BY InvInit, InvNext, PTL DEF Spec

\* Every variable keeps its type; the stream is never read beyond its end.
THEOREM MultipartTypeCorrect == Spec => []MultipartTypeOK
<1>1. Inv => MultipartTypeOK
  BY DEF Inv
<1> QED
  BY <1>1, Invariant, PTL

\* For every size, block, limit and kind of bucket, and whatever calls fail
\* with or without effect: an object that appears is whole and in its place,
\* nil means that it is there, and the old one is lost only on Azure and only
\* with an error; except that CopyObject in parts to Google never writes it.
THEOREM NothingInBetween == Spec => []AllOrNothing
<1>1. Inv => AllOrNothing
  BY DEF Inv
<1> QED
  BY <1>1, Invariant, PTL

\* Only Azure's abort takes a finished object away, after a completion that
\* had written it and returned an error.
THEOREM FinishedObjectsStay == Spec => FinishedStays
<1> DEFINE Kept == dest = "new" /\ dest' # "new" => kind = "azure" /\ "complete" \in failed /\ ret' = "error"
<1>1. Inv /\ [Next]_vars => [Kept]_vars
  <2> SUFFICES ASSUME Inv, Next, dest = "new", dest' # "new"
               PROVE  kind = "azure" /\ "complete" \in failed /\ ret' = "error"
    BY DEF vars
  <2>1. MultipartTypeOK /\ LoopInv /\ LateInv
    BY DEF Inv
  <2>2. before # "new"
    BY <2>1 DEF MultipartTypeOK
  <2>3. ~NewMultipartUpload
    BY <2>1, <2>2 DEF NewMultipartUpload, Fail, LoopInv, Before
  <2>4. ~(Plan \/ Find \/ GetWhole \/ GetRange \/ PutObject)
    BY DEF Plan, Find, GetWhole, GetRange, PutObject, Becomes, destVars
  <2>5. ~(UploadPart \/ CopyPart \/ PartFails \/ CompleteMultipartUpload)
    BY DEF UploadPart, CopyPart, PartFails, PartArrives, CompleteMultipartUpload, Completed, CompletedInPart, Becomes, destVars
  <2>6. AbortMultipartUpload
    BY <2>3, <2>4, <2>5 DEF Next
  <2> QED
    BY <2>1, <2>6 DEF AbortMultipartUpload, Deleted, LateInv
<1> QED
  BY <1>1, Invariant, PTL DEF Spec, FinishedStays

\* No part is empty or too large, and there are not too many of them.
THEOREM PartsFit == Spec => []PartsWithinLimits
<1>1. Inv => PartsWithinLimits
  BY MultipartAssumption DEF Inv, PartsInv, PartsWithinLimits, MultipartTypeOK
<1> QED
  BY <1>1, Invariant, PTL

\* An upload is left open only if the bucket's own calls have failed, or a
\* copy to Google was lost.
THEOREM UploadIsClosed == Spec => []NoUploadLeft
<1>1. Inv => NoUploadLeft
  BY DEF Inv
<1> QED
  BY <1>1, Invariant, PTL

=============================================================================
