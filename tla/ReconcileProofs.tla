--------------------------- MODULE ReconcileProofs ---------------------------
(***************************************************************************)
(* Theorems about what brings the cloud from one configuration to another. *)
(* No disk is lost when a system disk is replaced, however many calls fail *)
(* and one failure leaves only what the code says; a sync of DNS records   *)
(* that returns nil has done its work, however many tries have failed; and *)
(* a call for the CORS rules of a bucket changes what it names, where what *)
(* is lost is lost to overlapping calls.  The invariants say what there is *)
(* at each call.                                                           *)
(***************************************************************************)
EXTENDS MCReconcile, ListsProofs

-----------------------------------------------------------------------------
(* The system disk.                                                        *)

\* The disk that a machine has exists, and no two machines have the same.
DisksInv ==
  /\ boot \in {"old", "new", "none"}
  /\ second \in {"new", "none", "gone"}
  /\ boot = "new" \/ "old" \in disks
  /\ boot \in disks \cup {"none"}
  /\ second = "new" => "new" \in disks /\ boot # "new"

\* Calls before which the machine has not been given the new disk; calls at
\* which the new disk is there; calls after which the machine has it.
Before  == {"nic", "create", "stop", "detachOld", "detachNew", "detach"}
Present == {"stop", "detachOld", "detachNew", "attach", "deleteNic", "swap", "detach"}
After   == {"userData", "deleteOld", "pruneOld", "deploy"}

\* The new disk is given to the machine when nobody else has it, and the old
\* one is deleted when the machine has the new one.
StepInv ==
  /\ rPc \in Before => boot # "new"
  /\ rPc \in Present => "new" \in disks
  /\ rPc = "deleteSecond" /\ host = "azure" => "new" \in disks
  /\ rPc \in After => boot = "new"
  /\ rPc = "attach" => second # "new"
  /\ rPc \in {"nic", "create", "detach"} => second = "gone"
  /\ host = "google" => second = "gone"
  /\ rRet = "nil" => boot = "new"

RootInv == DisksInv /\ StepInv

-----------------------------------------------------------------------------
\* No call of aws's ReplaceSystemDisk breaks the invariant.
LEMMA AwsKeepsInv == RootInv /\ AwsReplaceSystemDisk => RootInv'
<1> USE DEF RootInv, DisksInv, StepInv, Before, Present, After, sysVars,
            Try, TryOnly, Goes, Returned, Attached, Boot, Remove
<1> SUFFICES ASSUME RootInv, host = "aws",
                    AwsCreate \/ AwsStop \/ AwsDetachOld \/ AwsDetachNew \/ AwsAttach
                      \/ AwsUserData \/ AwsDeleteOld \/ AwsDeleteSecond
             PROVE  RootInv'
  BY DEF AwsReplaceSystemDisk
<1>1. CASE AwsCreate
  BY <1>1 DEF AwsCreate, MakeSecond
<1>2. CASE AwsStop
  BY <1>2 DEF AwsStop
<1>3. CASE AwsDetachOld
  BY <1>3 DEF AwsDetachOld
<1>4. CASE AwsDetachNew
  BY <1>4 DEF AwsDetachNew
<1>5. CASE AwsAttach
  BY <1>5 DEF AwsAttach
<1>6. CASE AwsUserData
  BY <1>6 DEF AwsUserData
<1>7. CASE AwsDeleteOld
  BY <1>7 DEF AwsDeleteOld
<1>8. CASE AwsDeleteSecond
  BY <1>8 DEF AwsDeleteSecond
<1>. QED BY <1>1, <1>2, <1>3, <1>4, <1>5, <1>6, <1>7, <1>8

\* No call of azure's ReplaceSystemDisk breaks the invariant.
LEMMA AzureKeepsInv == RootInv /\ AzureReplaceSystemDisk => RootInv'
<1> USE DEF RootInv, DisksInv, StepInv, Before, Present, After, sysVars,
            Try, TryOnly, Goes, Returned, Attached, Boot, Remove
<1> SUFFICES ASSUME RootInv, host = "azure",
                    AzureNic \/ AzureCreate \/ AzureDeleteSecond \/ AzureDeleteNic
                      \/ AzureSwap \/ AzurePrune
             PROVE  RootInv'
  BY DEF AzureReplaceSystemDisk
<1>1. CASE AzureNic
  BY <1>1 DEF AzureNic
<1>2. CASE AzureCreate
  BY <1>2 DEF AzureCreate, MakeSecond
<1>3. CASE AzureDeleteSecond
  BY <1>3 DEF AzureDeleteSecond
<1>4. CASE AzureDeleteNic
  BY <1>4 DEF AzureDeleteNic
<1>5. CASE AzureSwap
  BY <1>5 DEF AzureSwap
<1>6. CASE AzurePrune
  BY <1>6 DEF AzurePrune
<1>. QED BY <1>1, <1>2, <1>3, <1>4, <1>5, <1>6

\* No call of google's RebuildRoot breaks the invariant.
LEMMA GoogleKeepsInv == RootInv /\ GoogleRebuildRoot => RootInv'
<1> USE DEF RootInv, DisksInv, StepInv, Before, Present, After, sysVars,
            Try, TryOnly, Goes, Returned, Attached, Boot, Remove
<1> SUFFICES ASSUME RootInv, host = "google",
                    GoogleCreate \/ GoogleDetach \/ GoogleAttach \/ GoogleDropNew
                      \/ GoogleAttachOld \/ GoogleDeleteOld \/ GoogleDeployVM
             PROVE  RootInv'
  BY DEF GoogleRebuildRoot
<1>1. CASE GoogleCreate
  BY <1>1 DEF GoogleCreate
<1>2. CASE GoogleDetach
  BY <1>2 DEF GoogleDetach
<1>3. CASE GoogleAttach
  BY <1>3 DEF GoogleAttach
<1>4. CASE GoogleDropNew
  BY <1>4 DEF GoogleDropNew
<1>5. CASE GoogleAttachOld
  BY <1>5 DEF GoogleAttachOld
<1>6. CASE GoogleDeleteOld
  BY <1>6 DEF GoogleDeleteOld
<1>7. CASE GoogleDeployVM
  BY <1>7 DEF GoogleDeployVM
<1>. QED BY <1>1, <1>2, <1>3, <1>4, <1>5, <1>6, <1>7

\* What no call has touched.
Untouched == boot = "old" /\ disks = {"old"} /\ second = "gone" /\ ~nic

\* How far a function has come before the first call fails, and what there is
\* when the call after it is made.
AwsLeft ==
  /\ ~nic
  /\ rPc = "create" => fails = 0 /\ Untouched
  /\ rPc \in {"stop", "detachOld"} => fails = 0 /\ boot = "old" /\ disks = {"old", "new"} /\ second = "new"
  /\ rPc = "detachNew" => fails = 0 /\ boot = "none" /\ "old" \in disks
  /\ rPc = "attach" => fails = 0 /\ boot = "none" /\ "old" \in disks
  /\ rPc \in {"userData", "deleteOld"} => fails = 0 /\ boot = "new"
  /\ rPc = "deleteSecond" /\ rRet = "error" =>
       /\ fails = 1
       /\ \/ boot = "old" /\ disks = {"old", "new"} /\ second = "new"
          \/ boot = "none" /\ "old" \in disks
          \/ boot = "new"

AzureLeft ==
  /\ rPc = "nic" => fails = 0 /\ Untouched
  /\ rPc \in {"create", "deleteSecond", "deleteNic"} => fails = 0 /\ boot = "old" /\ nic
  /\ rPc \in {"create", "deleteSecond", "deleteNic"} => disks \subseteq {"old", "new"} /\ "old" \in disks
  /\ rPc = "deleteNic" => second = "gone"
  /\ rPc = "swap" => \/ boot = "old" /\ nic /\ fails = 1
                     \/ /\ fails = 0 /\ boot = "old" /\ second = "gone" /\ ~nic
                        /\ disks \subseteq {"old", "new"} /\ "old" \in disks
  /\ rPc = "pruneOld" => rRet = "nil"
  /\ rPc = "pruneNew" => /\ fails = 1 /\ boot = "old"
                         /\ nic \/ (second = "gone" /\ disks \subseteq {"old", "new"} /\ "old" \in disks)

GoogleLeft ==
  /\ second = "gone" /\ ~nic
  /\ rPc = "create" => fails = 0 /\ Untouched
  /\ rPc = "detach" => fails = 0 /\ boot = "old" /\ disks = {"old", "new"}
  /\ rPc = "attach" => fails = 0 /\ boot = "none" /\ "old" \in disks
  /\ rPc = "dropNew" => fails = 1 /\ boot = "old" /\ disks = {"old", "new"}
  /\ rPc \in {"dropNewFirst", "attachOld"} => boot = "none" /\ "old" \in disks
  /\ rPc \in {"deleteOld", "deploy"} => boot = "new"

LeftInv ==
  /\ fails \in Nat /\ second \in {"new", "none", "gone"}
  /\ fails <= 1 /\ ~lost =>
       /\ host = "aws" => AwsLeft
       /\ host = "azure" => AzureLeft
       /\ host = "google" => GoogleLeft
       /\ rPc \notin {"returned", "pruneNew", "deleteSecond", "dropNew", "dropNewFirst", "attachOld"} =>
            rRet # "error"
  /\ OneFailureLeaves

\* The steps of the others, and those that do nothing, change no disk.
LEMMA OtherSteps ==
  ASSUME [Next]_vars, ~RootStep
  PROVE  UNCHANGED rootVars
BY DEF Next, vars

\* At the call nothing is touched.
LEMMA LeftInvInit ==
  ASSUME RootInit \/ NoRootDisk
  PROVE  RootInv /\ LeftInv
BY DEF RootInit, NoRootDisk, RootInv, DisksInv, StepInv, Before, Present, After,
   LeftInv, AwsLeft, AzureLeft, GoogleLeft, Untouched, OneFailureLeaves

\* What a call of aws's ReplaceSystemDisk leaves.
LEMMA AwsKeepsLeft ==
  ASSUME LeftInv, AwsReplaceSystemDisk
  PROVE  LeftInv'
<1> USE DEF LeftInv, AwsLeft, Untouched, OneFailureLeaves, sysVars,
            Try, TryOnly, Goes, Returned, Attached, Boot, Remove
<1>0. host = "aws" /\ MaxFails \in Nat
  BY RootDiskAssumption DEF AwsReplaceSystemDisk
<1>1. CASE AwsCreate
  BY <1>0, <1>1 DEF AwsCreate, MakeSecond
<1>2. CASE AwsStop
  BY <1>0, <1>2 DEF AwsStop
<1>3. CASE AwsDetachOld
  BY <1>0, <1>3 DEF AwsDetachOld
<1>4. CASE AwsDetachNew
  BY <1>0, <1>4 DEF AwsDetachNew
<1>5. CASE AwsAttach
  BY <1>0, <1>5 DEF AwsAttach
<1>6. CASE AwsUserData
  BY <1>0, <1>6 DEF AwsUserData
<1>7. CASE AwsDeleteOld
  BY <1>0, <1>7 DEF AwsDeleteOld
<1>8. CASE AwsDeleteSecond
  <2>1. /\ rPc = "deleteSecond" /\ rPc' = "returned" /\ rRet' = rRet /\ host' = host
        /\ \/ /\ second' = "gone" /\ disks' = disks \ {second} /\ UNCHANGED <<boot, nic, fails, lost>>
           \/ fails' = fails + 1 /\ lost' = TRUE /\ nic' = nic
           \/ fails' = fails + 1 /\ UNCHANGED <<sysVars, lost>>
    BY <1>8 DEF AwsDeleteSecond
  <2>2. CASE second' = "gone" /\ disks' = disks \ {second} /\ UNCHANGED <<boot, nic, fails, lost>>
    <3>1. ASSUME rRet = "error", fails = 1, ~lost
          PROVE  \/ boot = "old" /\ disks' = {"old"}
                 \/ boot = "none" /\ "old" \in disks'
                 \/ boot = "new"
      BY <1>0, <2>1, <2>2, <3>1
    <3> QED
      BY <1>0, <2>1, <2>2, <3>1
  <2>3. CASE fails' = fails + 1 /\ nic' = nic
    <3>1. second' \in {"new", "none", "gone"} /\ fails' \in Nat
      BY <1>8, <2>3 DEF AwsDeleteSecond
    <3>2. fails' = 1 => fails = 0
      BY <2>3
    <3> QED
      BY <1>0, <2>1, <2>3, <3>1, <3>2
  <2> QED
    BY <2>1, <2>2, <2>3
<1>. QED
  BY <1>1, <1>2, <1>3, <1>4, <1>5, <1>6, <1>7, <1>8 DEF AwsReplaceSystemDisk

\* What a call of azure's ReplaceSystemDisk leaves.
LEMMA AzureKeepsLeft ==
  ASSUME LeftInv, AzureReplaceSystemDisk
  PROVE  LeftInv'
<1> USE DEF LeftInv, AzureLeft, Untouched, OneFailureLeaves, sysVars,
            Try, TryOnly, Goes, Returned, Attached, Boot, Remove
<1>0. host = "azure" /\ MaxFails \in Nat
  BY RootDiskAssumption DEF AzureReplaceSystemDisk
<1>1. CASE AzureNic
  BY <1>0, <1>1 DEF AzureNic
<1>2. CASE AzureCreate
  BY <1>0, <1>2 DEF AzureCreate, MakeSecond
<1>3. CASE AzureDeleteSecond
  BY <1>0, <1>3 DEF AzureDeleteSecond
<1>4. CASE AzureDeleteNic
  BY <1>0, <1>4 DEF AzureDeleteNic
<1>5. CASE AzureSwap
  BY <1>0, <1>5 DEF AzureSwap
<1>6. CASE AzurePrune
  BY <1>0, <1>6 DEF AzurePrune
<1>. QED
  BY <1>1, <1>2, <1>3, <1>4, <1>5, <1>6 DEF AzureReplaceSystemDisk

\* What a call of google's RebuildRoot leaves.
LEMMA GoogleKeepsLeft ==
  ASSUME LeftInv, GoogleRebuildRoot
  PROVE  LeftInv'
<1> USE DEF LeftInv, GoogleLeft, Untouched, OneFailureLeaves, sysVars,
            Try, TryOnly, Goes, Returned, Attached, Boot, Remove
<1>0. host = "google" /\ MaxFails \in Nat
  BY RootDiskAssumption DEF GoogleRebuildRoot
<1>1. CASE GoogleCreate
  BY <1>0, <1>1 DEF GoogleCreate
<1>2. CASE GoogleDetach
  BY <1>0, <1>2 DEF GoogleDetach
<1>3. CASE GoogleAttach
  BY <1>0, <1>3 DEF GoogleAttach
<1>4. CASE GoogleDropNew
  BY <1>0, <1>4 DEF GoogleDropNew
<1>5. CASE GoogleAttachOld
  BY <1>0, <1>5 DEF GoogleAttachOld
<1>6. CASE GoogleDeleteOld
  BY <1>0, <1>6 DEF GoogleDeleteOld
<1>7. CASE GoogleDeployVM
  BY <1>0, <1>7 DEF GoogleDeployVM
<1>. QED
  BY <1>1, <1>2, <1>3, <1>4, <1>5, <1>6, <1>7 DEF GoogleRebuildRoot

\* However many calls fail while a system disk is replaced (aws, azure and
\* google), the old disk is there until the machine has the new one, the
\* machine's disk is not deleted, and nil means that it has the new one.
THEOREM NoDiskIsLost == Spec => []NoDiskLost
<1>1. Init => RootInv
  BY LeftInvInit DEF Init
<1>2. RootInv /\ [Next]_vars => RootInv'
  <2> SUFFICES ASSUME RootInv, [Next]_vars
               PROVE  RootInv'
    OBVIOUS
  <2>1. CASE RootStep
    BY <2>1, AwsKeepsInv, AzureKeepsInv, GoogleKeepsInv DEF RootStep
  <2>2. CASE UNCHANGED rootVars
    BY <2>2 DEF rootVars, sysVars, RootInv, DisksInv, StepInv
  <2>. QED BY <2>1, <2>2, OtherSteps
<1>3. RootInv => NoDiskLost
  BY DEF RootInv, DisksInv, StepInv, NoDiskLost
<1>. QED BY <1>1, <1>2, <1>3, PTL DEF Spec

\* What one call that failed without effect can leave behind, at whichever
\* call it was: nothing, the new disk in use, a machine without a disk, or
\* what azure has made for the second machine.
THEOREM OneFailureLeavesOnly == Spec => []OneFailureLeaves
<1>1. Init => LeftInv
  BY LeftInvInit DEF Init
<1>2. LeftInv /\ [Next]_vars => LeftInv'
  <2> SUFFICES ASSUME LeftInv, [Next]_vars
               PROVE  LeftInv'
    OBVIOUS
  <2>1. CASE RootStep
    BY <2>1, AwsKeepsLeft, AzureKeepsLeft, GoogleKeepsLeft DEF RootStep
  <2>2. CASE UNCHANGED rootVars
    BY <2>2 DEF rootVars, sysVars, LeftInv, AwsLeft, AzureLeft, GoogleLeft, Untouched, OneFailureLeaves
  <2>. QED BY <2>1, <2>2, OtherSteps
<1>3. LeftInv => OneFailureLeaves
  BY DEF LeftInv
<1>. QED BY <1>1, <1>2, <1>3, PTL DEF Spec

-----------------------------------------------------------------------------
(* The records of a zone.                                                  *)

\* What has been done is as it should be, and what is left to do is in del,
\* add and update.
SyncInv ==
  /\ seen \in RecordSets
  /\ del \subseteq DOMAIN seen \ DOMAIN local
  /\ add \subseteq DOMAIN local \ DOMAIN seen
  /\ update \subseteq DOMAIN local \cap DOMAIN seen
  /\ DOMAIN remote = (DOMAIN local \ add) \cup del
  /\ \A k \in DOMAIN remote :
       remote[k] = IF k \in DOMAIN seen THEN seen[k]
                   ELSE IF zone = "route53" \/ (dpc = "disable" /\ k = key) THEN Created(local[k])
                   ELSE local[k]
  /\ dpc = "disable" => /\ zone \in TwoSteps
                        /\ key \in DOMAIN local \ DOMAIN seen /\ key \notin add
                        /\ ~local[key].enabled
  /\ dpc = "update" => zone \in TwoSteps /\ key \in update

DnsInv ==
  /\ meddles \in Nat
  /\ zone \in Zones
  /\ outcome = "nil" => dpc = "done"
  /\ dpc # "off" /\ meddles = 0 =>
       /\ local \in RecordSets /\ remote \in RecordSets
       /\ dpc \in {"sync", "disable", "update"} => SyncInv
  /\ SyncedWhenNil

\* A set of records is a function.
LEMMA Records ==
  ASSUME NEW f
  PROVE  f \in RecordSets <=> f \in [DOMAIN f -> Attr] /\ DOMAIN f \subseteq Keys
BY DEF RecordSets

\* What is left of the records without one of them.
LEMMA WithoutRecord ==
  ASSUME NEW f \in RecordSets, NEW k
  PROVE  /\ Without(f, k) \in RecordSets
         /\ DOMAIN Without(f, k) = DOMAIN f \ {k}
         /\ \A x \in DOMAIN f \ {k} : Without(f, k)[x] = f[x]
<1>1. f \in [DOMAIN f -> Attr] /\ DOMAIN f \subseteq Keys
  BY Records
<1>2. Without(f, k) = [x \in DOMAIN f \ {k} |-> f[x]]
  BY DEF Without, Restrict
<1>3. Without(f, k) \in [DOMAIN f \ {k} -> Attr] /\ DOMAIN Without(f, k) = DOMAIN f \ {k}
  BY <1>1, <1>2
<1>4. Without(f, k) \in RecordSets
  BY <1>1, <1>3, Records
<1> QED
  BY <1>2, <1>3, <1>4

\* The records with one more, or with another one in its place.
LEMMA WithRecord ==
  ASSUME NEW f \in RecordSets, NEW k \in Keys, NEW a \in Attr
  PROVE  /\ With(f, k, a) \in RecordSets
         /\ DOMAIN With(f, k, a) = DOMAIN f \cup {k}
         /\ With(f, k, a)[k] = a
         /\ \A x \in DOMAIN f \ {k} : With(f, k, a)[x] = f[x]
<1>1. f \in [DOMAIN f -> Attr] /\ DOMAIN f \subseteq Keys
  BY Records
<1>2. With(f, k, a) \in [DOMAIN f \cup {k} -> Attr] /\ DOMAIN With(f, k, a) = DOMAIN f \cup {k}
  BY <1>1 DEF With
<1>3. With(f, k, a) \in RecordSets
  BY <1>1, <1>2, Records
<1> QED
  BY <1>2, <1>3 DEF With

\* The calls that set the status or the TTL of a record.
LEMMA RecordFields ==
  ASSUME NEW f \in RecordSets, NEW k \in DOMAIN f, NEW b \in BOOLEAN, NEW t \in Ttls
  PROVE  /\ [f EXCEPT ![k].enabled = b] = [f EXCEPT ![k] = [f[k] EXCEPT !.enabled = b]]
         /\ [f EXCEPT ![k].ttl = t] = [f EXCEPT ![k] = [f[k] EXCEPT !.ttl = t]]
         /\ [f EXCEPT ![k].enabled = b] \in RecordSets
         /\ [f EXCEPT ![k].ttl = t] \in RecordSets
<1>1. f \in [DOMAIN f -> Attr] /\ DOMAIN f \subseteq Keys
  BY Records
<1>2. [f[k] EXCEPT !.enabled = b] \in Attr /\ [f[k] EXCEPT !.ttl = t] \in Attr
  BY <1>1 DEF Attr
<1>3. /\ [f EXCEPT ![k].enabled = b] = [f EXCEPT ![k] = [f[k] EXCEPT !.enabled = b]]
      /\ [f EXCEPT ![k].ttl = t] = [f EXCEPT ![k] = [f[k] EXCEPT !.ttl = t]]
  OBVIOUS
<1>4. /\ [f EXCEPT ![k] = [f[k] EXCEPT !.enabled = b]] \in [DOMAIN f -> Attr]
      /\ [f EXCEPT ![k] = [f[k] EXCEPT !.ttl = t]] \in [DOMAIN f -> Attr]
  BY <1>1, <1>2
<1> QED
  BY <1>1, <1>3, <1>4, Records

\* Writing to a record what it is leaves it; a new record is as wanted once
\* its status is; and the code of the second call makes up for the first.
LEMMA Attributes ==
  ASSUME NEW a \in Attr
  PROVE  /\ [a EXCEPT !.enabled = a.enabled] = a
         /\ [a EXCEPT !.ttl = a.ttl] = a
         /\ Created(a) \in Attr
         /\ zone = "dnspod" => Created(a) = a
         /\ a.enabled => Created(a) = a
         /\ zone # "dnspod" /\ ~a.enabled => [Created(a) EXCEPT !.enabled = FALSE] = a
BY DEF Attr, Created

Syncing == {"sync", "disable", "update"}

\* A call leads to records that are as they should be, or it fails, and all
\* is compared again.
LEMMA CallKeeps ==
  ASSUME DnsInv, NEW ok, NEW r, NEW Then, Call(ok, r, Then), dpc \in Syncing, meddles = 0,
         ok => r \in RecordSets,
         ok /\ remote' = r /\ Then /\ UNCHANGED <<zone, local, before, seen, outcome, failures, meddles>> =>
           dpc' \in Syncing /\ SyncInv'
  PROVE  DnsInv'
<1>1. local \in RecordSets /\ remote \in RecordSets /\ outcome # "nil" /\ zone \in Zones
  BY DEF DnsInv, Syncing
<1>2. CASE ok /\ remote' = r /\ Then /\ UNCHANGED <<zone, local, before, seen, outcome, failures, meddles>>
  BY <1>1, <1>2 DEF DnsInv, SyncedWhenNil
<1>3. CASE remote' \in {remote, r} /\ (ok \/ remote' = remote) /\ GiveUp
  BY <1>1, <1>3 DEF DnsInv, SyncedWhenNil, GiveUp
<1> QED
  BY <1>2, <1>3 DEF Call

\* What is seen when a zone is compared.
LEMMA CompareKeeps ==
  ASSUME DnsInv, CompareDnsRecordSet, meddles = 0
  PROVE  DnsInv'
<1>1. /\ dpc = "compare" /\ dpc' = "sync" /\ seen' = remote
      /\ UNCHANGED <<zone, local, remote, outcome, meddles>>
      /\ del' = DOMAIN remote \ DOMAIN local /\ add' = DOMAIN local \ DOMAIN remote
      /\ update' \subseteq DOMAIN local \cap DOMAIN remote
  BY DEF CompareDnsRecordSet
<1>2. local \in RecordSets /\ remote \in RecordSets /\ outcome # "nil"
  BY <1>1 DEF DnsInv
<1>3. DOMAIN remote = (DOMAIN local \ (DOMAIN local \ DOMAIN remote)) \cup (DOMAIN remote \ DOMAIN local)
  OBVIOUS
<1>4. SyncInv'
  BY <1>1, <1>2, <1>3 DEF SyncInv
<1> QED
  BY <1>1, <1>2, <1>4 DEF DnsInv, SyncedWhenNil

\* A record that is not wanted is deleted.
LEMMA DeleteKeeps ==
  ASSUME DnsInv, NEW k \in Keys, Delete(k), meddles = 0
  PROVE  DnsInv'
<1>1. dpc = "sync" /\ k \in del /\ SyncInv /\ remote \in RecordSets
  BY DEF Delete, DnsInv
<1>2. k \in DOMAIN remote /\ k \in DOMAIN seen /\ remote[k] = seen[k]
  BY <1>1 DEF SyncInv
<1> DEFINE Then == del' = del \ {k} /\ UNCHANGED <<dpc, add, update, key>>
           r == Without(remote, k)
<1>3. Call(TRUE, r, Then)
  BY <1>2 DEF Delete, Call
<1>4. /\ r \in RecordSets /\ DOMAIN r = DOMAIN remote \ {k}
      /\ \A x \in DOMAIN remote \ {k} : r[x] = remote[x]
  BY <1>1, WithoutRecord
<1>5. ASSUME remote' = r, Then, UNCHANGED <<zone, local, before, seen, outcome, failures, meddles>>
      PROVE  dpc' \in Syncing /\ SyncInv'
  <2>1. DOMAIN remote' = (DOMAIN local \ add) \cup (del \ {k})
    BY <1>1, <1>4, <1>5 DEF SyncInv
  <2> QED
    BY <1>1, <1>4, <1>5, <2>1 DEF SyncInv, Syncing, Created
<1> HIDE DEF r, Then
<1> QED
  BY <1>1, <1>3, <1>4, <1>5, CallKeeps DEF Syncing

\* A record that is missing is added; aliyun adds it enabled.
LEMMA AddKeeps ==
  ASSUME DnsInv, NEW k \in Keys, Add(k), meddles = 0
  PROVE  DnsInv'
<1>1. /\ dpc = "sync" /\ k \in add /\ SyncInv /\ remote \in RecordSets /\ local \in RecordSets
      /\ zone \in Zones
  BY DEF Add, DnsInv
<1>2. local[k] \in Attr /\ k \in DOMAIN local /\ k \notin DOMAIN seen
  BY <1>1, Records DEF SyncInv
<1> DEFINE Then == /\ dpc' = IF zone \in TwoSteps /\ ~local[k].enabled THEN "disable" ELSE "sync"
                   /\ key' = k
                   /\ add' = add \ {k}
                   /\ UNCHANGED <<del, update>>
           r == With(remote, k, Created(local[k]))
<1>3. Call(k \notin DOMAIN remote, r, Then)
  BY DEF Add
<1>4. /\ r \in RecordSets /\ DOMAIN r = DOMAIN remote \cup {k} /\ r[k] = Created(local[k])
      /\ \A x \in DOMAIN remote \ {k} : r[x] = remote[x]
  <2>1. Created(local[k]) \in Attr
    BY <1>2, Attributes
  <2> QED
    BY <1>1, <2>1, WithRecord
<1>5. ASSUME k \notin DOMAIN remote, remote' = r, Then,
             UNCHANGED <<zone, local, before, seen, outcome, failures, meddles>>
      PROVE  dpc' \in Syncing /\ SyncInv'
  <2>1. DOMAIN remote' = (DOMAIN local \ (add \ {k})) \cup del
    BY <1>1, <1>2, <1>4, <1>5 DEF SyncInv
  <2>2. zone = "route53" \/ dpc' = "disable" \/ Created(local[k]) = local[k]
    BY <1>1, <1>2, <1>5, Attributes DEF Zones, TwoSteps
  <2>3. ASSUME NEW x \in DOMAIN remote'
        PROVE  remote'[x] = IF x \in DOMAIN seen THEN seen[x]
                            ELSE IF zone = "route53" \/ (dpc' = "disable" /\ x = k) THEN Created(local[x])
                            ELSE local[x]
    <3>1. CASE x = k
      BY <1>2, <1>4, <1>5, <2>2, <3>1
    <3>2. CASE x # k
      BY <1>1, <1>4, <1>5, <3>2 DEF SyncInv
    <3> QED
      BY <3>1, <3>2
  <2>4. \A x : Created(local[x])' = Created(local[x])
    BY <1>5 DEF Created
  <2>5. dpc' \in Syncing /\ dpc' # "update"
    BY <1>5 DEF Syncing
  <2> QED
    BY <1>1, <1>2, <1>5, <2>1, <2>3, <2>4, <2>5 DEF SyncInv
<1> HIDE DEF r, Then
<1> QED
  BY <1>1, <1>3, <1>4, <1>5, CallKeeps DEF Syncing

\* The second call for a new record that is not enabled.
LEMMA DisableKeeps ==
  ASSUME DnsInv, Disable, meddles = 0
  PROVE  DnsInv'
<1>1. dpc = "disable" /\ SyncInv /\ remote \in RecordSets /\ local \in RecordSets
  BY DEF Disable, DnsInv
<1>2. /\ key \in DOMAIN local /\ key \notin DOMAIN seen /\ zone \in TwoSteps /\ ~local[key].enabled
      /\ key \in DOMAIN remote /\ remote[key] = Created(local[key]) /\ local[key] \in Attr
  BY <1>1, Records DEF SyncInv
<1> DEFINE Then == dpc' = "sync" /\ UNCHANGED <<del, add, update, key>>
           r == [remote EXCEPT ![key].enabled = FALSE]
<1>3. Call(key \in DOMAIN remote, r, Then)
  BY DEF Disable
<1>4. r \in RecordSets /\ r = [remote EXCEPT ![key] = [remote[key] EXCEPT !.enabled = FALSE]]
  <2>1. PICK t \in Ttls : TRUE
    BY <1>2 DEF Attr
  <2> QED
    BY <1>1, <1>2, <2>1, RecordFields
<1>5. [remote[key] EXCEPT !.enabled = FALSE] = local[key]
  BY <1>2, Attributes DEF TwoSteps
<1>6. ASSUME remote' = r, Then, UNCHANGED <<zone, local, before, seen, outcome, failures, meddles>>
      PROVE  dpc' \in Syncing /\ SyncInv'
  <2>1. DOMAIN r = DOMAIN remote /\ r[key] = local[key] /\ \A x \in DOMAIN remote \ {key} : r[x] = remote[x]
    BY <1>2, <1>4, <1>5
  <2>2. \A x : Created(local[x])' = Created(local[x])
    BY <1>6 DEF Created
  <2>3. zone # "route53"
    BY <1>2 DEF TwoSteps
  <2> HIDE DEF r
  <2> QED
    BY <1>1, <1>2, <1>6, <2>1, <2>2, <2>3 DEF SyncInv, Syncing
<1> HIDE DEF r, Then
<1> QED
  BY <1>1, <1>3, <1>4, <1>6, CallKeeps DEF Syncing

\* A record that differs is written as it was seen: by two calls of aliyun,
\* by one of the others.
LEMMA UpdateKeeps ==
  ASSUME DnsInv, NEW k \in Keys, Update(k), meddles = 0
  PROVE  DnsInv'
<1>1. dpc = "sync" /\ k \in update /\ SyncInv /\ remote \in RecordSets /\ del = {} /\ add = {}
  BY DEF Update, DnsInv
<1>2. k \in DOMAIN local /\ k \in DOMAIN seen /\ k \in DOMAIN remote /\ remote[k] = seen[k]
  BY <1>1 DEF SyncInv
<1>3. seen[k] \in Attr /\ seen[k].enabled \in BOOLEAN /\ seen[k].ttl \in Ttls
  <2>1. seen[k] \in Attr
    BY <1>1, <1>2, Records DEF SyncInv
  <2> QED
    BY <2>1 DEF Attr
<1>4. CASE zone \in TwoSteps
  <2> DEFINE Then == dpc' = "update" /\ key' = k /\ UNCHANGED <<del, add, update>>
             r == [remote EXCEPT ![k].enabled = seen[k].enabled]
  <2>1. Call(k \in DOMAIN remote, r, Then)
    BY <1>4 DEF Update
  <2>2. r = remote
    <3>1. r = [remote EXCEPT ![k] = [remote[k] EXCEPT !.enabled = remote[k].enabled]]
      BY <1>1, <1>2, <1>3, RecordFields
    <3>2. [remote[k] EXCEPT !.enabled = remote[k].enabled] = remote[k]
      BY <1>2, <1>3, Attributes
    <3> QED
      BY <1>1, <1>2, <3>1, <3>2, Records
  <2>3. ASSUME remote' = remote, Then, UNCHANGED <<zone, local, before, seen, outcome, failures, meddles>>
        PROVE  dpc' \in Syncing /\ SyncInv'
    BY <1>1, <1>2, <1>4, <2>3 DEF SyncInv, Syncing, Created
  <2> HIDE DEF r, Then
  <2> QED
    BY <1>1, <2>1, <2>2, <2>3, CallKeeps DEF Syncing
<1>5. CASE zone \notin TwoSteps
  <2> DEFINE Then == update' = update \ {k} /\ UNCHANGED <<dpc, del, add, key>>
             r == With(remote, k, seen[k])
             ok == k \in DOMAIN remote \/ zone = "route53"
  <2>1. Call(ok, r, Then)
    BY <1>5 DEF Update
  <2>2. r = remote
    BY <1>1, <1>2, Records DEF With
  <2>3. ASSUME remote' = remote, Then, UNCHANGED <<zone, local, before, seen, outcome, failures, meddles>>
        PROVE  dpc' \in Syncing /\ SyncInv'
    BY <1>1, <1>2, <2>3 DEF SyncInv, Syncing, Created
  <2> HIDE DEF r, Then, ok
  <2> QED
    BY <1>1, <2>1, <2>2, <2>3, CallKeeps DEF Syncing
<1> QED
  BY <1>4, <1>5

\* The second call for a record that differs.
LEMMA UpdateRecordKeeps ==
  ASSUME DnsInv, UpdateRecord, meddles = 0
  PROVE  DnsInv'
<1>1. dpc = "update" /\ key \in update /\ SyncInv /\ remote \in RecordSets
  BY DEF UpdateRecord, DnsInv, SyncInv
<1>2. /\ key \in DOMAIN local /\ key \in DOMAIN seen
      /\ key \in DOMAIN remote => remote[key] = seen[key]
  BY <1>1 DEF SyncInv
<1>3. seen[key] \in Attr /\ seen[key].enabled \in BOOLEAN /\ seen[key].ttl \in Ttls
  <2>1. seen[key] \in Attr
    BY <1>1, <1>2, Records DEF SyncInv
  <2> QED
    BY <2>1 DEF Attr
<1> DEFINE Then == dpc' = "sync" /\ update' = update \ {key} /\ UNCHANGED <<del, add, key>>
           r == [remote EXCEPT ![key].ttl = seen[key].ttl]
<1>4. Call(key \in DOMAIN remote, r, Then)
  BY DEF UpdateRecord
<1>5. key \in DOMAIN remote => r = remote
  <2> SUFFICES ASSUME key \in DOMAIN remote PROVE r = remote
    OBVIOUS
  <2>1. r = [remote EXCEPT ![key] = [remote[key] EXCEPT !.ttl = remote[key].ttl]]
    BY <1>1, <1>2, <1>3, RecordFields
  <2>2. [remote[key] EXCEPT !.ttl = remote[key].ttl] = remote[key]
    BY <1>2, <1>3, Attributes
  <2> QED
    BY <1>1, <2>1, <2>2, Records
<1>6. ASSUME remote' = remote, Then, UNCHANGED <<zone, local, before, seen, outcome, failures, meddles>>
      PROVE  dpc' \in Syncing /\ SyncInv'
  BY <1>1, <1>2, <1>6 DEF SyncInv, Syncing, Created
<1> HIDE DEF r, Then
<1> QED
  BY <1>1, <1>4, <1>5, <1>6, CallKeeps DEF Syncing

\* The sync returns when nothing is left to do.
LEMMA SyncedKeeps ==
  ASSUME DnsInv, Synced, meddles = 0
  PROVE  DnsInv'
<1>1. /\ dpc = "sync" /\ del = {} /\ add = {} /\ dpc' = "done"
      /\ UNCHANGED <<zone, local, remote, seen, meddles>>
      /\ SyncInv /\ remote \in RecordSets /\ local \in RecordSets
  BY DEF Synced, DnsInv
<1>2. DOMAIN remote = DOMAIN local
  BY <1>1 DEF SyncInv
<1>3. remote = [k \in DOMAIN local |-> remote[k]]
  BY <1>1, <1>2, Records
<1>4. \A k \in DOMAIN local :
        remote[k] = IF k \in DOMAIN seen THEN seen[k]
                    ELSE IF zone = "route53" THEN Created(local[k]) ELSE local[k]
  BY <1>1, <1>2 DEF SyncInv
<1>5. remote = [k \in DOMAIN local |->
                  IF k \in DOMAIN seen THEN seen[k]
                  ELSE IF zone = "route53" THEN Created(local[k]) ELSE local[k]]
  BY <1>3, <1>4
<1>6. SyncedWhenNil'
  BY <1>1, <1>5 DEF SyncedWhenNil, Created
<1> QED
  BY <1>1, <1>6 DEF DnsInv

\* Every step keeps the invariant of the zone.
LEMMA DnsInvStep ==
  ASSUME DnsInv, [Next]_vars
  PROVE  DnsInv'
<1>1. CASE UNCHANGED dnsVars
  BY <1>1 DEF dnsVars, DnsInv, SyncInv, SyncedWhenNil, Created
<1>2. CASE MeddleRecords
  BY <1>2 DEF MeddleRecords, DnsInv, SyncedWhenNil
<1>3. CASE SyncStep
  <2>1. CASE meddles = 0
    BY <1>3, <2>1, CompareKeeps, DeleteKeeps, AddKeeps, DisableKeeps, UpdateKeeps, UpdateRecordKeeps,
       SyncedKeeps DEF SyncStep
  <2>2. CASE meddles # 0
    <3>1. UNCHANGED <<zone, meddles>>
      BY <1>3 DEF SyncStep, CompareDnsRecordSet, Delete, Add, Disable, Update, UpdateRecord, Synced, Call, GiveUp
    <3>2. outcome' = "nil" => dpc' = "done"
      <4>1. dpc # "done" /\ outcome # "nil"
        BY <1>3 DEF SyncStep, CompareDnsRecordSet, Delete, Add, Disable, Update, UpdateRecord, Synced, DnsInv
      <4> QED
        BY <1>3, <4>1 DEF SyncStep, CompareDnsRecordSet, Delete, Add, Disable, Update, UpdateRecord, Synced,
           Call, GiveUp
    <3> QED
      BY <2>2, <3>1, <3>2 DEF DnsInv, SyncedWhenNil
  <2> QED
    BY <2>1, <2>2
<1> QED
  BY <1>1, <1>2, <1>3 DEF Next, vars

\* However many tries of a sync have failed halfway, with or without effect:
\* when SyncDnsRecordSets returns nil and nobody else has touched the zone,
\* the wanted records are there and no others, the new ones as wanted and the
\* others as they were found.
THEOREM NilMeansSynced == Spec => []SyncedWhenNil
<1>1. Init => DnsInv
  BY DEF Init, DnsInit, NoDns, DnsInv, SyncedWhenNil, Zones
<1>2. DnsInv /\ [Next]_vars => DnsInv'
  BY DnsInvStep
<1>3. DnsInv => SyncedWhenNil
  BY DEF DnsInv
<1> QED
  BY <1>1, <1>2, <1>3, PTL DEF Spec

-----------------------------------------------------------------------------
(* The CORS rules of a bucket.                                             *)

Given == [id : Ids, rule : Rules]

\* What the variables hold.  A caller has no result before it has written.
CorsTypes ==
  /\ bucket \in Seq(Rules)
  /\ cpc \in [Callers -> {"off", "get", "put", "done"}]
  /\ op \in [Callers -> {"set", "delete"}]
  /\ given \in [Callers -> Seq(Given)]
  /\ \A c \in Callers : Len(given[c]) <= MaxGiven
  /\ oldRules \in [Callers -> Seq(Rules)]
  /\ result \in [Callers -> {"none", "nil", "error", "nothing"}]
  /\ disturbed \in [Callers -> BOOLEAN]
  /\ \A c \in Callers : result[c] = "nil" => cpc[c] = "done"

\* More rules than there can be in the bucket, if all callers add theirs.
Limit == MaxOld + Cardinality(Callers) * MaxGiven

\* All callers add rules, and no two calls overlap.
OnlyAdded ==
  \A c \in Callers : /\ ~disturbed[c] /\ op[c] = "set"
                     /\ \A j \in DOMAIN given[c] : given[c][j].id >= Limit

Finished == {c \in Callers : cpc[c] = "done"}
IsIn(rule, list) == \E k \in DOMAIN list : list[k] = rule

\* Then the bucket grows by what is given at most, who writes has read what
\* is there, and what was written stays.
AddedInv ==
  OnlyAdded =>
    /\ Len(bucket) <= MaxOld + Cardinality(Finished) * MaxGiven
    /\ \A c \in Callers : cpc[c] = "put" => oldRules[c] = bucket
    /\ \A c \in Callers : result[c] = "nil" =>
         \A j \in DOMAIN given[c] : IsIn(given[c][j].rule, bucket)

\* A function on the numbers 1 to n is a list.
LEMMA ListIs ==
  ASSUME NEW S, NEW n \in Nat, NEW list \in [1 .. n -> S]
  PROVE  list \in Seq(S) /\ Len(list) = n
OBVIOUS

\* A list with at most n elements.
LEMMA UpToFacts ==
  ASSUME NEW S, NEW n \in Nat, NEW list \in UpTo(S, n)
  PROVE  list \in Seq(S) /\ Len(list) <= n
<1>1. PICK k \in 0 .. n : list \in [1 .. k -> S]
  BY DEF UpTo
<1> QED
  BY <1>1

\* The given rules that are not for a position of the bucket.
New(old, g) == {j \in DOMAIN g : ~IsIndex(g[j].id, old)}

\* What SetBucketCORS writes: at a position the last rule given for it, or
\* what is there; then the new rules, in their order.
LEMMA UpdatedFacts ==
  ASSUME NEW old \in Seq(Rules), NEW g \in Seq(Given)
  PROVE  /\ Cardinality(New(old, g)) \in Nat /\ Cardinality(New(old, g)) <= Len(g)
         /\ Updated(old, g) \in Seq(Rules)
         /\ Len(Updated(old, g)) = Len(old) + Cardinality(New(old, g))
         /\ \A k \in DOMAIN old : For(k, old, g) = {} => Updated(old, g)[k] = old[k]
         /\ \A k \in DOMAIN old : For(k, old, g) # {} =>
              \E j \in For(k, old, g) : /\ \A m \in For(k, old, g) : m <= j
                                        /\ Updated(old, g)[k] = g[j].rule
         /\ \A j \in New(old, g) : \E k \in (Len(old) + 1) .. Len(Updated(old, g)) :
              Updated(old, g)[k] = g[j].rule
<1> DEFINE P == New(old, g)
           new == Chosen(g, P)
           Greatest(k) == CHOOSE j \in For(k, old, g) : \A m \in For(k, old, g) : m <= j
           first == [k \in 1 .. Len(old) |-> IF For(k, old, g) = {} THEN old[k] ELSE g[Greatest(k)].rule]
           last == [j \in DOMAIN new |-> new[j].rule]
           C == Cardinality(P)
<1>1. Len(old) \in Nat /\ DOMAIN old = 1 .. Len(old) /\ Len(g) \in Nat /\ DOMAIN g = 1 .. Len(g)
  OBVIOUS
<1>2. P \in SUBSET (DOMAIN g)
  BY DEF New
<1>3. /\ C \in Nat /\ C <= Len(g)
      /\ new \in [1 .. C -> Given]
      /\ \A j \in P : Rank(P, j) \in 1 .. C /\ new[Rank(P, j)] = g[j]
  <2> HIDE DEF P
  <2> QED
    BY <1>2, ChosenFacts
<1>4. Updated(old, g) = first \o last
  BY DEF Updated, New
<1>5. \A k \in 1 .. Len(old) : For(k, old, g) # {} =>
        /\ Greatest(k) \in For(k, old, g)
        /\ \A m \in For(k, old, g) : m <= Greatest(k)
        /\ Greatest(k) \in DOMAIN g
  <2> SUFFICES ASSUME NEW k \in 1 .. Len(old), For(k, old, g) # {}
               PROVE  /\ Greatest(k) \in For(k, old, g)
                      /\ \A m \in For(k, old, g) : m <= Greatest(k)
                      /\ Greatest(k) \in DOMAIN g
    OBVIOUS
  <2>1. For(k, old, g) \in SUBSET (1 .. Len(g)) /\ For(k, old, g) \in SUBSET Nat
    BY <1>1 DEF For
  <2>2. IsFiniteSet(For(k, old, g))
    <3>1. IsFiniteSet(1 .. Len(g))
      BY <1>1, FS_Interval
    <3> QED
      BY <2>1, <3>1, FS_Subset
  <2>3. \E j \in For(k, old, g) : \A m \in For(k, old, g) : m <= j
    BY <2>1, <2>2, GreatestMember
  <2>4. Greatest(k) \in For(k, old, g) /\ \A m \in For(k, old, g) : m <= Greatest(k)
    BY <2>3
  <2> HIDE DEF Greatest
  <2> QED
    BY <1>1, <2>1, <2>4
<1> HIDE DEF P, new, Greatest, C
<1>6. first \in [1 .. Len(old) -> Rules]
  <2>1. ASSUME NEW k \in 1 .. Len(old), For(k, old, g) # {} PROVE g[Greatest(k)].rule \in Rules
    <3>1. g[Greatest(k)] \in Given
      BY <1>5, <2>1
    <3> QED
      BY <3>1 DEF Given
  <2> QED
    BY <1>1, <2>1
<1>7. last \in [1 .. C -> Rules]
  BY <1>3 DEF Given
<1> HIDE DEF last
<1>8. /\ first \in Seq(Rules) /\ Len(first) = Len(old)
      /\ last \in Seq(Rules) /\ Len(last) = C
  <2> DEFINE L == Len(old)
  <2>1. L \in Nat /\ first \in [1 .. L -> Rules]
    BY <1>1, <1>6
  <2> HIDE DEF first, L
  <2>2. first \in Seq(Rules) /\ Len(first) = L
    BY <2>1, ListIs
  <2>3. last \in Seq(Rules) /\ Len(last) = C
    BY <1>3, <1>7, ListIs
  <2> QED
    BY <2>2, <2>3 DEF L
<1>9. \A k \in 1 .. Len(old) : first[k] = IF For(k, old, g) = {} THEN old[k] ELSE g[Greatest(k)].rule
  OBVIOUS
<1> HIDE DEF first
<1>10. /\ Updated(old, g) \in Seq(Rules)
       /\ Len(Updated(old, g)) = Len(old) + C
       /\ \A k \in 1 .. Len(old) : Updated(old, g)[k] = first[k]
       /\ \A n \in 1 .. C : Updated(old, g)[Len(old) + n] = last[n]
  <2>1. first \o last \in Seq(Rules) /\ Len(first \o last) = Len(old) + C
    BY <1>8
  <2>2. \A k \in 1 .. Len(old) : (first \o last)[k] = first[k]
    BY <1>1, <1>3, <1>8
  <2>3. \A n \in 1 .. C : (first \o last)[Len(old) + n] = last[n]
    BY <1>1, <1>3, <1>8
  <2> QED
    BY <1>4, <2>1, <2>2, <2>3
<1>11. ASSUME NEW j \in P
       PROVE  \E k \in (Len(old) + 1) .. Len(Updated(old, g)) : Updated(old, g)[k] = g[j].rule
  <2>1. Rank(P, j) \in 1 .. C /\ new[Rank(P, j)] = g[j]
    BY <1>3
  <2>2. last[Rank(P, j)] = g[j].rule
    BY <1>3, <2>1 DEF last
  <2>3. Len(old) + Rank(P, j) \in (Len(old) + 1) .. Len(Updated(old, g))
    BY <1>1, <1>3, <1>10, <2>1
  <2> QED
    BY <1>10, <2>1, <2>2, <2>3
<1>12. \A k \in DOMAIN old : For(k, old, g) = {} => Updated(old, g)[k] = old[k]
  BY <1>1, <1>9, <1>10
<1>13. \A k \in DOMAIN old : For(k, old, g) # {} =>
         \E j \in For(k, old, g) : (\A m \in For(k, old, g) : m <= j) /\ Updated(old, g)[k] = g[j].rule
  BY <1>1, <1>5, <1>9, <1>10
<1> QED
  BY <1>3, <1>10, <1>11, <1>12, <1>13 DEF P, C

\* What DeleteBucketCORS writes.
LEMMA LeftFacts ==
  ASSUME NEW old \in Seq(Rules), NEW g \in Seq(Given)
  PROVE  LET kept == {k \in DOMAIN old : For(k, old, g) = {}}
         IN  /\ Left(old, g) \in Seq(Rules)
             /\ Cardinality(kept) \in Nat
             /\ Len(Left(old, g)) = Cardinality(kept)
             /\ \A k \in kept : Left(old, g)[Cardinality({m \in kept : m <= k})] = old[k]
<1> DEFINE kept == {k \in DOMAIN old : For(k, old, g) = {}}
<1>1. kept \in SUBSET (DOMAIN old) /\ Left(old, g) = Chosen(old, kept)
  BY DEF Left
<1> HIDE DEF kept
<1>2. /\ Chosen(old, kept) \in Seq(Rules) /\ Cardinality(kept) \in Nat
      /\ Len(Chosen(old, kept)) = Cardinality(kept)
      /\ \A k \in kept : Chosen(old, kept)[Rank(kept, k)] = old[k]
  BY <1>1, ChosenFacts
<1> QED
  BY <1>1, <1>2 DEF kept, Rank

-----------------------------------------------------------------------------
(* Whoever calls.                                                          *)

\* Every step keeps the types.
LEMMA CorsTypesStep ==
  ASSUME CorsTypes, [Next]_vars
  PROVE  CorsTypes'
<1> USE DEF CorsTypes
<1>1. CASE UNCHANGED corsVars
  BY <1>1 DEF corsVars
<1>2. ASSUME NEW c \in Callers, GetCORSRules(c) PROVE CorsTypes'
  BY <1>2 DEF GetCORSRules
<1>3. ASSUME NEW c \in Callers, Write(c) PROVE CorsTypes'
  <2>1. ToWrite(c) \in Seq(Rules)
    BY UpdatedFacts, LeftFacts DEF ToWrite
  <2>2. disturbed' \in [Callers -> BOOLEAN]
    BY <1>3 DEF Write
  <2> QED
    BY <1>3, <2>1, <2>2 DEF Write
<1>4. ASSUME NEW c \in Callers, CorsFails(c) PROVE CorsTypes'
  BY <1>4 DEF CorsFails
<1> QED
  BY <1>1, <1>2, <1>3, <1>4 DEF Next, vars, CorsStep

\* The start: nobody calls, or all may.
LEMMA CorsStarts ==
  ASSUME Init
  PROVE  /\ CorsTypes
         /\ \A c \in Callers : cpc[c] \in {"off", "get"} /\ result[c] = "none"
         /\ Len(bucket) <= MaxOld
<1>0. {MaxOld, MaxGiven} \subseteq Nat
  BY CorsAssumption
<1>1. CASE NoCors
  <2>1. Len(<< >>) = 0 /\ << >> \in Seq(Rules) /\ << >> \in Seq(Given)
    OBVIOUS
  <2> QED
    BY <1>0, <1>1, <2>1 DEF NoCors, CorsTypes
<1>2. CASE CorsInit
  <2>1. bucket \in Seq(Rules) /\ Len(bucket) <= MaxOld
    BY <1>0, <1>2, UpToFacts DEF CorsInit
  <2>2. \A c \in Callers : given[c] \in Seq(Given) /\ Len(given[c]) <= MaxGiven
    <3>1. \A c \in Callers : given[c] \in UpTo(Given, MaxGiven)
      BY <1>2 DEF CorsInit, Given
    <3> QED
      BY <1>0, <3>1, UpToFacts
  <2>3. given = [c \in Callers |-> given[c]]
    BY <1>2 DEF CorsInit
  <2>4. << >> \in Seq(Rules)
    OBVIOUS
  <2>5. given \in [Callers -> Seq(Given)]
    BY <2>2, <2>3
  <2> QED
    BY <1>2, <2>1, <2>2, <2>4, <2>5 DEF CorsInit, CorsTypes
<1> QED
  BY <1>1, <1>2 DEF Init

\* A nil that was not there before is the one of a write.
LEMMA NilIsAWrite ==
  ASSUME CorsTypes, [Next]_vars, NEW c \in Callers, result[c] # "nil", result'[c] = "nil"
  PROVE  Write(c)
<1> USE DEF CorsTypes
<1>1. CASE UNCHANGED corsVars
  BY <1>1 DEF corsVars
<1>2. ASSUME NEW d \in Callers, GetCORSRules(d) PROVE FALSE
  BY <1>2 DEF GetCORSRules
<1>3. ASSUME NEW d \in Callers, CorsFails(d) PROVE FALSE
  BY <1>3 DEF CorsFails
<1>4. ASSUME NEW d \in Callers, Write(d), d # c PROVE FALSE
  BY <1>4 DEF Write
<1> QED
  BY <1>1, <1>2, <1>3, <1>4 DEF Next, vars, CorsStep

\* What SetBucketCORS has changed, if it has read what was there.
LEMMA SetChanges ==
  ASSUME CorsTypes, NEW c \in Callers, op[c] = "set", bucket' = Updated(bucket, given[c])
  PROVE  SetAsNamed(c)
<1> DEFINE g == given[c]
           L == Len(bucket)
           old == DOMAIN bucket
           new == DOMAIN bucket'
           P == New(bucket, g)
<1>0. /\ bucket \in Seq(Rules) /\ g \in Seq(Given) /\ L \in Nat /\ old = 1 .. L
      /\ DOMAIN g = 1 .. Len(g) /\ Len(g) \in Nat
  BY DEF CorsTypes
<1>1. \A j \in DOMAIN g : g[j].id \in Int
  <2>1. \A j \in DOMAIN g : g[j] \in Given
    BY <1>0
  <2> QED
    BY <2>1, CorsAssumption DEF Given
<1>2. /\ Cardinality(P) \in Nat
      /\ bucket' \in Seq(Rules) /\ Len(bucket') = L + Cardinality(P)
      /\ \A k \in old : For(k, bucket, g) = {} => bucket'[k] = bucket[k]
      /\ \A k \in old : For(k, bucket, g) # {} =>
           \E j \in For(k, bucket, g) : (\A m \in For(k, bucket, g) : m <= j) /\ bucket'[k] = g[j].rule
      /\ \A j \in P : \E k \in (L + 1) .. Len(bucket') : bucket'[k] = g[j].rule
  <2> HIDE DEF g
  <2> QED
    BY <1>0, UpdatedFacts DEF g
<1> HIDE DEF g, L
<1>3. new = 1 .. L + Cardinality(P) /\ new \ old = (L + 1) .. L + Cardinality(P)
  <2>1. new = 1 .. L + Cardinality(P)
    BY <1>2
  <2> HIDE DEF P, new, old
  <2> QED
    BY <1>0, <1>2, <2>1
<1>4. \A k \in old : ~Names(c, k) => bucket'[k] = bucket[k]
  <2>1. \A k \in old : ~Names(c, k) => For(k, bucket, g) = {}
    BY DEF Names, For, g
  <2> QED
    BY <1>2, <2>1
<1>5. P = {j \in DOMAIN g : g[j].id + 1 > L}
  <2>1. \A j \in DOMAIN g : ~(g[j].id < L) <=> g[j].id + 1 > L
    BY <1>0, <1>1
  <2> QED
    BY <2>1 DEF New, IsIndex, L
<1>6. Cardinality(new \ old) = Cardinality({j \in DOMAIN g : g[j].id + 1 > L})
  <2>1. Cardinality((L + 1) .. L + Cardinality(P)) = Cardinality(P)
    <3> DEFINE n == Cardinality(P)
    <3>1. L + 1 \in Int /\ L + n \in Int /\ n \in Nat /\ (L + 1 > L + n <=> n = 0)
      BY <1>0, <1>2
    <3> HIDE DEF n
    <3>2. Cardinality((L + 1) .. (L + n)) = IF L + 1 > L + n THEN 0 ELSE (L + n) - (L + 1) + 1
      BY <3>1, FS_Interval
    <3> QED
      BY <1>0, <3>1, <3>2 DEF n
  <2> QED
    BY <1>3, <1>5, <2>1
<1>7. ASSUME NEW j \in DOMAIN g
      PROVE  \/ g[j].id < 0
             \/ /\ g[j].id + 1 \in old
                /\ \/ bucket'[g[j].id + 1] = g[j].rule
                   \/ \E m \in DOMAIN g : m > j /\ g[m].id = g[j].id
             \/ /\ g[j].id + 1 \notin old
                /\ \E k \in new \ old : bucket'[k] = g[j].rule
  <2> DEFINE k == g[j].id + 1
  <2>1. CASE k \in old
    <3>1. k \in Nat /\ g[j].id < L /\ g[j].id = k - 1
      <4>1. g[j].id \in Int
        BY <1>1
      <4>2. g[j].id + 1 \in 1 .. L
        BY <1>0, <2>1
      <4> QED
        BY <1>0, <4>1, <4>2
    <3>2. j \in For(k, bucket, g)
      BY <3>1 DEF For, IsIndex, L
    <3>3. PICK m \in For(k, bucket, g) : j <= m /\ bucket'[k] = g[m].rule
      <4> HIDE DEF k
      <4> QED
        BY <1>2, <2>1, <3>2
    <3>4. m \in DOMAIN g /\ g[m].id = g[j].id
      BY <3>1, <3>3 DEF For
    <3>5. CASE m = j
      BY <2>1, <3>3, <3>5
    <3>6. CASE m # j
      <4>1. m > j
        BY <1>0, <3>3, <3>4, <3>6
      <4> QED
        BY <2>1, <3>4, <4>1
    <3> QED
      BY <3>5, <3>6
  <2>2. CASE k \notin old /\ ~(g[j].id < 0)
    <3>1. g[j].id + 1 > L
      BY <1>0, <1>1, <2>2
    <3>2. j \in P
      BY <1>5, <3>1
    <3>3. PICK n \in (L + 1) .. Len(bucket') : bucket'[n] = g[j].rule
      BY <1>2, <3>2
    <3>4. n \in new \ old
      BY <1>2, <1>3, <3>3
    <3> QED
      BY <2>2, <3>3, <3>4
  <2> QED
    BY <2>1, <2>2
<1> QED
  BY <1>4, <1>6, <1>7 DEF g, L, SetAsNamed, Kept

\* What DeleteBucketCORS has changed, if it has read what was there.
LEMMA DeleteChanges ==
  ASSUME CorsTypes, NEW c \in Callers, bucket' = Left(bucket, given[c])
  PROVE  DeletedAsNamed(c)
<1> DEFINE g == given[c]
           kept == {k \in DOMAIN bucket : ~Names(c, k)}
<1>0. bucket \in Seq(Rules) /\ g \in Seq(Given) /\ Len(bucket) \in Nat /\ DOMAIN bucket = 1 .. Len(bucket)
  BY DEF CorsTypes
<1>1. \A j \in DOMAIN g : g[j].id \in Int
  <2>1. \A j \in DOMAIN g : g[j] \in Given
    BY <1>0
  <2> QED
    BY <2>1, CorsAssumption DEF Given
<1>2. kept = {k \in DOMAIN bucket : For(k, bucket, g) = {}}
  <2>1. ASSUME NEW k \in DOMAIN bucket PROVE Names(c, k) <=> For(k, bucket, g) # {}
    <3>1. \A j \in DOMAIN g : g[j].id = k - 1 => g[j].id < Len(bucket)
      BY <1>0, <1>1
    <3> QED
      BY <3>1 DEF Names, For, IsIndex
  <2> QED
    BY <2>1
<1>3. /\ bucket' \in Seq(Rules) /\ Cardinality(kept) \in Nat /\ Len(bucket') = Cardinality(kept)
      /\ \A k \in kept : bucket'[Cardinality({m \in kept : m <= k})] = bucket[k]
  <2> HIDE DEF g, kept
  <2> QED
    BY <1>0, <1>2, LeftFacts DEF g
<1>4. Cardinality(DOMAIN bucket') = Cardinality(kept)
  <2> DEFINE n == Cardinality(kept)
  <2>1. n \in Nat /\ DOMAIN bucket' = 1 .. n
    BY <1>3
  <2> HIDE DEF n, kept
  <2>2. Cardinality(1 .. n) = n
    BY <2>1, FS_Interval
  <2> QED
    BY <2>1, <2>2 DEF n
<1> QED
  BY <1>3, <1>4 DEF DeletedAsNamed, Kept

\* The types hold in every state.
LEMMA CorsTypesInvariant == Spec => []CorsTypes
<1>1. Init => CorsTypes
  BY CorsStarts
<1>2. CorsTypes /\ [Next]_vars => CorsTypes'
  BY CorsTypesStep
<1> QED
  BY <1>1, <1>2, PTL DEF Spec

\* Who writes what he has read last changes what was named and nothing else,
\* whatever the positions are, named twice or past the end: SetBucketCORS
\* keeps the other rules and appends the new ones, DeleteBucketCORS leaves
\* the rest in its order.
THEOREM CorsChangesWhatIsNamed == Spec => ChangesWhatIsNamed
<1>1. CorsTypes /\ [Next]_vars =>
        [\A c \in Callers : cpc[c] = "put" /\ bucket = oldRules[c] /\ result'[c] = "nil" =>
           IF op[c] = "set" THEN SetAsNamed(c) ELSE DeletedAsNamed(c)]_<<bucket, result>>
  <2> SUFFICES ASSUME CorsTypes, [Next]_vars,
                      NEW c \in Callers, cpc[c] = "put", bucket = oldRules[c], result'[c] = "nil"
               PROVE  IF op[c] = "set" THEN SetAsNamed(c) ELSE DeletedAsNamed(c)
    OBVIOUS
  <2>1. Write(c)
    BY NilIsAWrite DEF CorsTypes
  <2>2. op[c] \in {"set", "delete"}
    BY DEF CorsTypes
  <2>3. bucket' = IF op[c] = "set" THEN Updated(bucket, given[c]) ELSE Left(bucket, given[c])
    BY <2>1 DEF Write, ToWrite
  <2>4. CASE op[c] = "set"
    BY <2>3, <2>4, SetChanges
  <2>5. CASE op[c] # "set"
    BY <2>3, <2>5, DeleteChanges
  <2> QED
    BY <2>4, <2>5
<1> QED
  BY <1>1, CorsTypesInvariant, PTL DEF Spec, ChangesWhatIsNamed

-----------------------------------------------------------------------------
(* Callers that only add rules.                                            *)

\* What is given is new, so that the rules in the bucket stay where they are
\* and all that is given is there.
LEMMA AddingKeeps ==
  ASSUME CorsTypes, NEW c \in Callers,
         \A j \in DOMAIN given[c] : given[c][j].id >= Len(bucket)
  PROVE  LET more == Updated(bucket, given[c])
         IN  /\ Len(more) <= Len(bucket) + MaxGiven
             /\ \A rule : IsIn(rule, bucket) => IsIn(rule, more)
             /\ \A j \in DOMAIN given[c] : IsIn(given[c][j].rule, more)
<1> DEFINE g == given[c]
           L == Len(bucket)
           more == Updated(bucket, g)
<1>0. /\ bucket \in Seq(Rules) /\ g \in Seq(Given) /\ L \in Nat /\ DOMAIN bucket = 1 .. L
      /\ Len(g) \in Nat /\ Len(g) <= MaxGiven /\ MaxGiven \in Nat
  BY CorsAssumption DEF CorsTypes
<1>1. \A j \in DOMAIN g : ~IsIndex(g[j].id, bucket)
  <2>1. \A j \in DOMAIN g : g[j].id \in Int
    <3>1. \A j \in DOMAIN g : g[j] \in Given
      BY <1>0
    <3> QED
      BY <3>1, CorsAssumption DEF Given
  <2> QED
    BY <1>0, <2>1 DEF IsIndex
<1> HIDE DEF g, L
<1>2. New(bucket, g) = DOMAIN g /\ \A k \in DOMAIN bucket : For(k, bucket, g) = {}
  BY <1>1 DEF New, For
<1>3. /\ Cardinality(New(bucket, g)) \in Nat /\ Cardinality(New(bucket, g)) <= Len(g)
      /\ more \in Seq(Rules) /\ Len(more) = L + Cardinality(New(bucket, g))
      /\ \A k \in DOMAIN bucket : more[k] = bucket[k]
      /\ \A j \in DOMAIN g : \E k \in (L + 1) .. Len(more) : more[k] = g[j].rule
  BY <1>0, <1>2, UpdatedFacts DEF L
<1> HIDE DEF more
<1>4. Len(more) <= L + MaxGiven
  BY <1>0, <1>3
<1>5. DOMAIN more = 1 .. Len(more) /\ Len(more) \in Nat /\ L <= Len(more)
  BY <1>0, <1>3
<1>6. \A rule : IsIn(rule, bucket) => IsIn(rule, more)
  BY <1>0, <1>3, <1>5 DEF IsIn
<1>7. \A j \in DOMAIN g : IsIn(g[j].rule, more)
  BY <1>0, <1>3, <1>5 DEF IsIn
<1> QED
  BY <1>4, <1>6, <1>7 DEF g, L, more

\* The bound on the number of rules, before and after one more has finished.
LEMMA LimitFacts ==
  ASSUME NEW S \in SUBSET Callers
  PROVE  /\ IsFiniteSet(S) /\ Cardinality(S) \in Nat
         /\ MaxOld + Cardinality(S) * MaxGiven \in Nat
         /\ MaxOld + Cardinality(S) * MaxGiven <= Limit
         /\ \A c \in Callers \ S :
              MaxOld + Cardinality(S \cup {c}) * MaxGiven = MaxOld + Cardinality(S) * MaxGiven + MaxGiven
<1>0. MaxOld \in Nat /\ MaxGiven \in Nat /\ IsFiniteSet(Callers)
  BY CorsAssumption
<1>1. /\ IsFiniteSet(S) /\ Cardinality(S) \in Nat /\ Cardinality(Callers) \in Nat
      /\ Cardinality(S) <= Cardinality(Callers)
  BY <1>0, FS_Subset, FS_CardinalityType
<1>2. \A m, n, k \in Nat : m <= n => m * k \in Nat /\ n * k \in Nat /\ m * k <= n * k /\ (m + 1) * k = m * k + k
  OBVIOUS
<1>3. Cardinality(S) * MaxGiven \in Nat /\ Cardinality(S) * MaxGiven <= Cardinality(Callers) * MaxGiven
  BY <1>0, <1>1, <1>2
<1>4. ASSUME NEW c \in Callers \ S
      PROVE  Cardinality(S \cup {c}) * MaxGiven = Cardinality(S) * MaxGiven + MaxGiven
  <2>1. Cardinality(S \cup {c}) = Cardinality(S) + 1
    BY <1>1, FS_AddElement
  <2>2. Cardinality(S) <= Cardinality(S)
    BY <1>1
  <2> QED
    BY <1>0, <1>1, <1>2, <2>1, <2>2
<1>5. Cardinality(Callers) * MaxGiven \in Nat
  BY <1>0, <1>1, <1>2
<1> QED
  BY <1>0, <1>1, <1>3, <1>4, <1>5 DEF Limit

\* A step after which all callers have only added comes from such a state.
LEMMA OnlyAddedBefore ==
  ASSUME CorsTypes, [Next]_vars, OnlyAdded'
  PROVE  OnlyAdded
<1>1. CASE UNCHANGED <<op, given, disturbed>>
  BY <1>1 DEF OnlyAdded, Limit
<1>2. ASSUME NEW c \in Callers, Write(c) PROVE OnlyAdded
  <2>1. UNCHANGED <<op, given>> /\ \A d \in Callers : ~disturbed'[d] => ~disturbed[d]
    BY <1>2 DEF Write
  <2> QED
    BY <2>1 DEF OnlyAdded, Limit
<1> QED
  BY <1>1, <1>2 DEF Next, vars, corsVars, CorsStep, GetCORSRules, CorsFails

\* Every step keeps what was added.
LEMMA AddedStep ==
  ASSUME CorsTypes, AddedInv, [Next]_vars
  PROVE  AddedInv'
<1> SUFFICES ASSUME OnlyAdded'
             PROVE  /\ Len(bucket') <= MaxOld + Cardinality(Finished') * MaxGiven
                    /\ \A c \in Callers : cpc'[c] = "put" => oldRules'[c] = bucket'
                    /\ \A c \in Callers : result'[c] = "nil" =>
                         \A j \in DOMAIN given'[c] : IsIn(given'[c][j].rule, bucket')
  BY DEF AddedInv, IsIn, Finished
<1>0. OnlyAdded
  BY OnlyAddedBefore
<1>a. /\ Len(bucket) <= MaxOld + Cardinality(Finished) * MaxGiven
      /\ \A c \in Callers : cpc[c] = "put" => oldRules[c] = bucket
      /\ \A c \in Callers : result[c] = "nil" => \A j \in DOMAIN given[c] : IsIn(given[c][j].rule, bucket)
  BY <1>0 DEF AddedInv
<1>b. Len(bucket) \in Nat /\ Finished \in SUBSET Callers /\ MaxGiven \in Nat
  BY CorsAssumption DEF CorsTypes, Finished
<1>c. /\ MaxOld + Cardinality(Finished) * MaxGiven \in Nat
      /\ MaxOld + Cardinality(Finished) * MaxGiven <= Limit
      /\ \A c \in Callers \ Finished :
           MaxOld + Cardinality(Finished \cup {c}) * MaxGiven
             = MaxOld + Cardinality(Finished) * MaxGiven + MaxGiven
  BY <1>b, LimitFacts
<1>1. CASE UNCHANGED corsVars
  BY <1>a, <1>1 DEF corsVars, Finished
<1>2. ASSUME NEW c \in Callers, cpc[c] \notin {"done"}, cpc'[c] = "done",
             \A d \in Callers \ {c} : cpc'[d] = cpc[d]
      PROVE  Finished' = Finished \cup {c} /\ c \notin Finished
  BY <1>2 DEF Finished
<1>3. ASSUME NEW c \in Callers, GetCORSRules(c), cpc'[c] = "put" PROVE Finished' = Finished
  BY <1>3 DEF GetCORSRules, CorsTypes, Finished
<1>4. CASE \E c \in Callers : GetCORSRules(c)
  <2>1. PICK c \in Callers : GetCORSRules(c)
    BY <1>4
  <2>2. op[c] = "set"
    BY <1>0 DEF OnlyAdded
  <2>3. /\ cpc' = [cpc EXCEPT ![c] = "put"] /\ oldRules' = [oldRules EXCEPT ![c] = bucket]
        /\ UNCHANGED <<bucket, given, result>>
    BY <2>1, <2>2 DEF GetCORSRules
  <2>4. Finished' = Finished
    BY <1>3, <2>1, <2>3 DEF CorsTypes
  <2> QED
    BY <1>a, <2>3, <2>4 DEF CorsTypes
<1>5. CASE \E c \in Callers : CorsFails(c)
  <2>1. PICK c \in Callers : CorsFails(c)
    BY <1>5
  <2>2. /\ cpc' = [cpc EXCEPT ![c] = "done"] /\ result' = [result EXCEPT ![c] = "error"]
        /\ cpc[c] # "done" /\ UNCHANGED <<bucket, given, oldRules>>
    BY <2>1 DEF CorsFails
  <2>3. Finished' = Finished \cup {c} /\ c \notin Finished
    BY <1>2, <2>2 DEF CorsTypes
  <2>4. Len(bucket) <= MaxOld + Cardinality(Finished') * MaxGiven
    <3>1. MaxOld + Cardinality(Finished') * MaxGiven = MaxOld + Cardinality(Finished) * MaxGiven + MaxGiven
      BY <1>c, <2>3
    <3> QED
      BY <1>a, <1>b, <1>c, <3>1
  <2> QED
    BY <1>a, <2>2, <2>4 DEF CorsTypes
<1>6. CASE \E c \in Callers : Write(c)
  <2>1. PICK c \in Callers : Write(c)
    BY <1>6
  <2>2. op[c] = "set" /\ oldRules[c] = bucket /\ cpc[c] = "put"
    BY <1>0, <1>a, <2>1 DEF OnlyAdded, Write
  <2>3. /\ cpc' = [cpc EXCEPT ![c] = "done"] /\ bucket' = Updated(bucket, given[c])
        /\ UNCHANGED <<given, oldRules>> /\ \A d \in Callers \ {c} : result'[d] = result[d]
    BY <2>1, <2>2 DEF Write, ToWrite, CorsTypes
  <2>4. \A d \in Callers \ {c} : cpc[d] # "put"
    BY <2>1 DEF Write, OnlyAdded
  <2>5. \A j \in DOMAIN given[c] : given[c][j].id >= Len(bucket)
    <3>1. \A j \in DOMAIN given[c] : given[c][j].id \in Int
      <4>1. \A j \in DOMAIN given[c] : given[c][j] \in Given
        BY DEF CorsTypes
      <4> QED
        BY <4>1, CorsAssumption DEF Given
    <3>2. Limit \in Nat
      BY LimitFacts DEF Limit
    <3>3. Len(bucket) <= Limit
      BY <1>a, <1>b, <1>c, <3>2
    <3> QED
      BY <1>0, <1>b, <3>1, <3>2, <3>3 DEF OnlyAdded
  <2>6. /\ Len(bucket') <= Len(bucket) + MaxGiven
        /\ \A rule : IsIn(rule, bucket) => IsIn(rule, bucket')
        /\ \A j \in DOMAIN given[c] : IsIn(given[c][j].rule, bucket')
    BY <2>3, <2>5, AddingKeeps
  <2>7. Finished' = Finished \cup {c} /\ c \notin Finished
    BY <1>2, <2>2, <2>3 DEF CorsTypes
  <2>8. Len(bucket') <= MaxOld + Cardinality(Finished') * MaxGiven
    <3>1. MaxOld + Cardinality(Finished') * MaxGiven = MaxOld + Cardinality(Finished) * MaxGiven + MaxGiven
      BY <1>c, <2>7
    <3>2. Len(bucket') \in Nat
      <4>1. bucket' \in Seq(Rules)
        BY CorsTypesStep DEF CorsTypes
      <4> QED
        BY <4>1
    <3> QED
      BY <1>a, <1>b, <1>c, <2>6, <3>1, <3>2
  <2>9. \A d \in Callers : cpc'[d] # "put"
    BY <2>3, <2>4 DEF CorsTypes
  <2>10. \A d \in Callers : result'[d] = "nil" => \A j \in DOMAIN given[d] : IsIn(given[d][j].rule, bucket')
    BY <1>a, <2>3, <2>6
  <2> QED
    BY <2>3, <2>8, <2>9, <2>10
<1> QED
  BY <1>1, <1>4, <1>5, <1>6 DEF Next, vars, CorsStep

\* A rule that was added stays, for any number of callers and of rules, if
\* all only add rules and no two calls overlap: what SetBucketCORS loses, it
\* loses because it writes back what it has read before another has written.
THEOREM OverlapsAreTheOnlyLoss == Spec => []OnlyOverlapsLose
<1>1. Init => AddedInv
  <2> SUFFICES ASSUME Init PROVE AddedInv
    OBVIOUS
  <2>1. \A c \in Callers : cpc[c] \in {"off", "get"} /\ result[c] = "none"
    BY CorsStarts
  <2>2. Finished = {}
    BY <2>1 DEF Finished
  <2>3. Len(bucket) <= MaxOld + Cardinality(Finished) * MaxGiven
    <3>1. Cardinality(Finished) = 0 /\ MaxOld \in Nat /\ MaxGiven \in Nat
      BY <2>2, FS_EmptySet, CorsAssumption
    <3> QED
      BY <3>1, CorsStarts
  <2> QED
    BY <2>1, <2>3 DEF AddedInv
<1>2. CorsTypes /\ AddedInv /\ [Next]_vars => AddedInv'
  BY AddedStep
<1>3. AddedInv => OnlyOverlapsLose
  BY DEF AddedInv, OnlyAdded, OnlyOverlapsLose, IsIn, Limit
<1> QED
  BY <1>1, <1>2, <1>3, CorsTypesInvariant, PTL DEF Spec

=============================================================================
