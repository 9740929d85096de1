----------------------------- MODULE MCListing -----------------------------
(* The instances of Listing that TLC checks: the directory's own object,   *)
(* two objects beside a folder with two objects.                           *)
EXTENDS Listing

MCFolder == (1 :> 1) @@ (2 :> 2) @@ (4 :> 3) @@ (5 :> 3) @@ (7 :> 7)

=============================================================================
