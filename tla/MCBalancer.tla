----------------------------- MODULE MCBalancer -----------------------------
(* The instances of Balancer that TLC checks.                              *)
EXTENDS BalancerRefinement

AlwaysRetry == {TRUE}            \* the ShouldRetry of Upload
AnyRetry    == {TRUE, FALSE}     \* any client's ShouldRetry

=============================================================================
