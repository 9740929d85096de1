---------------------------- MODULE MCMultipart ----------------------------
(* The instance of Multipart that TLC checks: sizes on both sides of every *)
(* limit, from nothing to more than all parts can hold.                    *)
EXTENDS Multipart

MCSizes      == 0 .. 36
MCBlockSizes == {-1, 0} \cup 3 .. 6

=============================================================================
