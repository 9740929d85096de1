------------------------------ MODULE RootDisk ------------------------------
(***************************************************************************)
(* The system disk of a machine is replaced by a new one: aws's and        *)
(* azure's ReplaceSystemDisk, which make a second machine and take its     *)
(* disk, and google's RebuildRoot, which makes a disk.  Each is a sequence *)
(* of calls, any of which fails, with or without effect; what is undone is *)
(* undone by further calls.                                                *)
(***************************************************************************)
EXTENDS Naturals

CONSTANT MaxFails    \* bound: how many calls fail

ASSUME RootDiskAssumption == MaxFails \in Nat

VARIABLES
  host,      \* whose function it is
  rPc,       \* the call that comes next
  rRet,      \* what is or will be returned
  boot,      \* the system disk of the machine: "old", "new" or "none"
  disks,     \* the disks that there are
  second,    \* the disk of the second machine, "none" if it has none, "gone" if there is no machine
  nic,       \* the second machine's network interface is there (azure)
  fails,     \* history: how many calls have failed
  lost       \* history: one of them had its effect all the same

sysVars == <<boot, disks, second, nic>>
rootVars == <<host, rPc, rRet, sysVars, fails, lost>>

RootInit ==
  /\ host \in {"aws", "azure", "google"}
  /\ rPc = IF host = "azure" THEN "nic" ELSE "create"
  /\ rRet = "none"
  /\ boot = "old" /\ disks = {"old"} /\ second = "gone" /\ nic = FALSE
  /\ fails = 0 /\ lost = FALSE

-----------------------------------------------------------------------------
\* The next call, and the result once it is known.
Goes(to, ret) == rPc' = to /\ rRet' = ret

\* A call that the cloud refuses unless ok: it has its effect, and the code
\* does Then, or it fails, with the effect or without, and the code does Else.
Try(call, ok, Effect, Then, Else) ==
  /\ rPc = call
  /\ \/ ok /\ Effect /\ Then /\ UNCHANGED <<fails, lost>>
     \/ /\ ok /\ fails < MaxFails /\ Else
        /\ fails' = fails + 1
        /\ \/ Effect /\ lost' = TRUE
           \/ UNCHANGED <<sysVars, lost>>
     \/ ~ok /\ Else /\ UNCHANGED <<sysVars, fails, lost>>
  /\ UNCHANGED host

\* A call whose result nobody looks at.
TryOnly(call, ok, Effect, After) == Try(call, ok, Effect, After, After)

Returned(ret) == Goes("returned", ret)

Attached(d) == boot = d \/ second = d

MakeSecond == second' = "new" /\ disks' = disks \cup {"new"} /\ UNCHANGED <<boot, nic>>
Remove(d) == disks' = disks \ {d} /\ UNCHANGED <<boot, second, nic>>
Boot(d) == boot' = d /\ UNCHANGED <<disks, second, nic>>

-----------------------------------------------------------------------------
(* aws: from the creation of the second machine on it is deleted at the    *)
(* end in any case, and its disk with it, unless that was detached.        *)

AwsCreate == Try("create", TRUE, MakeSecond, Goes("stop", "none"), Returned("error"))

\* StopVM, and GetInstance, which tells the disk.
AwsStop ==
  Try("stop", TRUE, UNCHANGED sysVars, Goes("detachOld", "none"), Goes("deleteSecond", "error"))

AwsDetachOld ==
  Try("detachOld", TRUE, Boot("none"), Goes("detachNew", "none"), Goes("deleteSecond", "error"))

AwsDetachNew ==
  Try("detachNew", TRUE, second' = "none" /\ UNCHANGED <<boot, disks, nic>>,
      Goes("attach", "none"), Goes("deleteSecond", "error"))

AwsAttach ==
  Try("attach", TRUE, Boot("new"), Goes("userData", "none"), Goes("deleteSecond", "error"))

AwsUserData ==
  Try("userData", TRUE, UNCHANGED sysVars, Goes("deleteOld", "none"), Goes("deleteSecond", "error"))

AwsDeleteOld ==
  TryOnly("deleteOld", ~Attached("old"), Remove("old"), Goes("deleteSecond", "nil"))

\* Mutant: the second machine is not deleted after an error.
AwsDeleteSecondNever == TryOnly("deleteSecond", TRUE, UNCHANGED sysVars, Returned(rRet))

AwsDeleteSecond ==
  TryOnly("deleteSecond", TRUE,
          second' = "gone" /\ disks' = disks \ {second} /\ UNCHANGED <<boot, nic>>,
          Returned(rRet))

AwsReplaceSystemDisk ==
  /\ host = "aws"
  /\ \/ AwsCreate \/ AwsStop \/ AwsDetachOld \/ AwsDetachNew \/ AwsAttach
     \/ AwsUserData \/ AwsDeleteOld \/ AwsDeleteSecond

-----------------------------------------------------------------------------
(* azure: the machine is given the disk of another that is deleted first.  *)

AzureNic ==
  Try("nic", TRUE, nic' = TRUE /\ UNCHANGED <<boot, disks, second>>,
      Goes("create", "none"), Returned("error"))

AzureCreate == Try("create", TRUE, MakeSecond, Goes("deleteSecond", "none"), Returned("error"))

\* An error of deleteVM is logged, and its network interface stays.
AzureDeleteSecond ==
  Try("deleteSecond", TRUE, second' = "gone" /\ UNCHANGED <<boot, disks, nic>>,
      Goes("deleteNic", "none"), Goes("swap", "none"))

AzureDeleteNic ==
  TryOnly("deleteNic", TRUE, nic' = FALSE /\ UNCHANGED <<boot, disks, second>>, Goes("swap", "none"))

\* A disk that another machine has cannot be taken.
AzureSwap ==
  Try("swap", second # "new", Boot("new"), Goes("pruneOld", "nil"), Goes("pruneNew", "error"))

\* For a minute the deletion is tried again; nobody looks at the result.
AzurePrune ==
  \/ TryOnly("pruneOld", ~Attached("old"), Remove("old"), Returned(rRet))
  \/ TryOnly("pruneNew", ~Attached("new"), Remove("new"), Returned(rRet))

AzureReplaceSystemDisk ==
  /\ host = "azure"
  /\ AzureNic \/ AzureCreate \/ AzureDeleteSecond \/ AzureDeleteNic \/ AzureSwap \/ AzurePrune

-----------------------------------------------------------------------------
(* google: the deferred calls come in the order last in, first out.        *)

GoogleCreate ==
  Try("create", TRUE, disks' = disks \cup {"new"} /\ UNCHANGED <<boot, second, nic>>,
      Goes("detach", "none"), Returned("error"))

GoogleDetach ==
  Try("detach", TRUE, Boot("none"), Goes("attach", "none"), Goes("dropNew", "error"))

GoogleAttach ==
  Try("attach", TRUE, Boot("new"), Goes("deleteOld", "none"), Goes("dropNewFirst", "error"))

\* Mutant: the wrong disk is deleted after an error.
GoogleDropOld ==
  \/ TryOnly("dropNew", ~Attached("old"), Remove("old"), Returned(rRet))
  \/ TryOnly("dropNewFirst", ~Attached("old"), Remove("old"), Goes("attachOld", rRet))

\* defer region.Delete(disk.SelfLink)
GoogleDropNew ==
  \/ TryOnly("dropNew", ~Attached("new"), Remove("new"), Returned(rRet))
  \/ TryOnly("dropNewFirst", ~Attached("new"), Remove("new"), Goes("attachOld", rRet))

\* The old disk should be attached again; but it is named by its link, and
\* AttachDisk looks for a disk with this Id, of which there is none.
GoogleAttachOld == TryOnly("attachOld", FALSE, Boot("old"), Returned(rRet))

GoogleDeleteOld ==
  TryOnly("deleteOld", ~Attached("old"), Remove("old"), Goes("deploy", "none"))

\* RebuildRoot of the machine goes on with DeployVM.
GoogleDeployVM ==
  Try("deploy", TRUE, UNCHANGED sysVars, Returned("nil"), Returned("error"))

GoogleRebuildRoot ==
  /\ host = "google"
  /\ \/ GoogleCreate \/ GoogleDetach \/ GoogleAttach \/ GoogleDropNew \/ GoogleAttachOld
     \/ GoogleDeleteOld \/ GoogleDeployVM

RootStep == AwsReplaceSystemDisk \/ AzureReplaceSystemDisk \/ GoogleRebuildRoot

-----------------------------------------------------------------------------
\* Whatever fails, and however often: the old disk is there until the
\* machine has the new one, the machine has no disk that was deleted, and
\* nil means that it has the new one.
NoDiskLost ==
  /\ boot = "new" \/ "old" \in disks
  /\ boot \in disks \cup {"none"}
  /\ rRet = "nil" => boot = "new"

\* What one call that failed, and had no effect, can leave behind: nothing;
\* or the new disk in use, with the old one beside it; or, at aws and google,
\* a machine without a disk, because nothing attaches the old one again; or,
\* at azure, what was made for the second machine.
OneFailureLeaves ==
  rRet = "error" /\ rPc = "returned" /\ fails = 1 /\ ~lost =>
    \/ boot = "old" /\ disks = {"old"} /\ second = "gone" /\ ~nic
    \/ boot = "new" /\ second = "gone" /\ host # "azure"
    \/ boot = "none" /\ "old" \in disks /\ second = "gone" /\ host # "azure"
    \/ boot = "old" /\ host = "azure" /\ nic

=============================================================================
