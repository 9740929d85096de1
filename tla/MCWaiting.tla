----------------------------- MODULE MCWaiting -----------------------------
(* The waiting functions, the operations of machines and the requests of   *)
(* Azure that use them, in one run: Init chooses what is called.           *)
EXTENDS VMPower, AzureRequest

\* The statuses of machines, of tags and of Azure's operations.
MCMoves ==
  [ready |-> {"starting", "deleting"}, starting |-> {"running"},
   running |-> {"stopping", "deleting"}, stopping |-> {"ready"},
   deleting |-> {"gone"}, gone |-> {"starting"},
   closing |-> {"shutdown"}, shutdown |-> {"ready"},
   untagged |-> {"tagged"}, tagged |-> {"untagged"},
   InProgress |-> {"Succeeded", "Failed", "OSProvisioning"},
   Accepted |-> {"InProgress", "Succeeded", "Failed"},
   Succeeded |-> {}, Failed |-> {}, OSProvisioning |-> {}]

vars == <<waitVars, powerVars, style>>

Init ==
  \/ WaitingInit({"ready", "starting", "running", "stopping", "gone"}) /\ NoPower /\ style = "plain"
  \/ PowerInit /\ style = "plain"
  \/ AzureInit /\ NoPower

Step ==
  \/ fn \in WaitFunctions /\ WaitStep /\ UNCHANGED <<powerVars, style>>
  \/ fn \in PowerFunctions /\ PowerStep /\ UNCHANGED style
  \/ fn = "_jsonRequest" /\ AzureStep /\ UNCHANGED powerVars

Environment ==
  \/ fn \notin PowerFunctions /\ Change /\ UNCHANGED <<powerVars, style>>
  \/ fn \in PowerFunctions /\ Meddle /\ UNCHANGED style

Next ==
  \/ Step
  \/ Environment
  \/ fn \in PowerFunctions /\ (Settle \/ Show) /\ UNCHANGED style
  \/ Tick /\ UNCHANGED <<powerVars, style>>

\* The goroutine runs, time passes, requests show, and machines settle.
Spec ==
  /\ Init /\ [][Next]_vars
  /\ WF_vars(Step)
  /\ WF_vars(Tick /\ UNCHANGED <<powerVars, style>>)
  /\ WF_vars(fn \in PowerFunctions /\ Settle /\ UNCHANGED style)
  /\ WF_vars(fn \in PowerFunctions /\ Show /\ UNCHANGED style)

-----------------------------------------------------------------------------
\* nil is the truth, whichever function returns it: a wait has seen what it
\* waited for, the machine has been in the wanted status since the call, and
\* Azure's operation has ended, up to the exceptions that each of them names.
NilIsTrue == NilMeansReached /\ PowerNilReached /\ AzureNilMeansEnded

=============================================================================
