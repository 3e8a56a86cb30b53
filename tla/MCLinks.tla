------------------------------- MODULE MCLinks -------------------------------
(***************************************************************************)
(* Links for TLC: two spellings of one address, of which register stores   *)
(* only one.  Users and calls are interchangeable.                         *)
(***************************************************************************)
EXTENDS Links, TLC

CONSTANTS low, capital

MCLower == (low :> low) @@ (capital :> low)
MCSymmetry == Permutations(Users) \cup Permutations(Calls)
=============================================================================
