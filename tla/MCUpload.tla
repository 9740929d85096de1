------------------------------ MODULE MCUpload ------------------------------
(* The instances of Upload that TLC checks.                                *)
EXTENDS Upload

AlwaysRetry == {TRUE}                   \* the ShouldRetry of Upload
BlockLength == [b \in Block |-> b]      \* blocks of different lengths

=============================================================================
