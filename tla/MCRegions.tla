----------------------------- MODULE MCRegions -----------------------------
(* fetchRegions of both providers in one run: Init chooses one of them.    *)
EXTENDS AwsRegions, HuaweiRegions

vars == <<clientVars, awsVars, huaweiVars>>

Init ==
  /\ ClientsInit /\ AwsInit /\ HuaweiInit

Next ==
  /\ \/ provider = "aws" /\ (\E c \in Clients : AwsStep(c)) /\ UNCHANGED huaweiVars
     \/ provider = "huawei" /\ (\E c \in Clients : HuaweiStep(c)) /\ UNCHANGED awsVars
     \/ TimePasses /\ UNCHANGED <<awsVars, huaweiVars>>
  /\ UNCHANGED provider

Spec == Init /\ [][Next]_vars

=============================================================================
