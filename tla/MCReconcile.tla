---------------------------- MODULE MCReconcile ----------------------------
(* What brings the cloud from one configuration to another by several      *)
(* calls: DNS records, CORS rules and the system disk of a machine.  Init  *)
(* chooses one of them.                                                    *)
EXTENDS DnsSync, Cors, RootDisk

\* A negative position, two in the bucket at most, and one past the end.
MCIds == {-1, 0, 1, 9}

vars == <<dnsVars, corsVars, rootVars>>

NoDns ==
  /\ zone = "dnspod" /\ local = << >> /\ remote = << >> /\ before = << >> /\ dpc = "off"
  /\ seen = << >> /\ del = {} /\ add = {} /\ update = {}
  /\ key = CHOOSE k \in Keys : TRUE
  /\ outcome = "none" /\ failures = 0 /\ meddles = 0

NoCors ==
  /\ bucket = << >>
  /\ cpc = [c \in Callers |-> "off"]
  /\ op = [c \in Callers |-> "set"]
  /\ given = [c \in Callers |-> << >>]
  /\ oldRules = [c \in Callers |-> << >>]
  /\ result = [c \in Callers |-> "none"]
  /\ disturbed = [c \in Callers |-> FALSE]

NoRootDisk ==
  /\ host = "aws" /\ rPc = "off" /\ rRet = "none"
  /\ boot = "old" /\ disks = {"old"} /\ second = "gone" /\ nic = FALSE
  /\ fails = 0 /\ lost = FALSE

Init ==
  \/ DnsInit /\ NoCors /\ NoRootDisk
  \/ NoDns /\ CorsInit /\ NoRootDisk
  \/ NoDns /\ NoCors /\ RootInit

Next ==
  \/ SyncStep /\ UNCHANGED <<corsVars, rootVars>>
  \/ MeddleRecords /\ UNCHANGED <<corsVars, rootVars>>
  \/ (\E c \in Callers : CorsStep(c)) /\ UNCHANGED <<dnsVars, rootVars>>
  \/ RootStep /\ UNCHANGED <<dnsVars, corsVars>>

\* The goroutine that syncs runs, and its caller tries again.
Spec == Init /\ [][Next]_vars /\ WF_vars(SyncStep /\ UNCHANGED <<corsVars, rootVars>>)

=============================================================================
