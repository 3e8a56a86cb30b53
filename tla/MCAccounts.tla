----------------------------- MODULE MCAccounts -----------------------------
(***************************************************************************)
(* Accounts for TLC.  Users, addresses, organisations and calls are        *)
(* interchangeable.                                                        *)
(***************************************************************************)
EXTENDS Accounts, TLC

MCSymmetry == Permutations(Users) \cup Permutations(Emails)
              \cup Permutations(Orgs) \cup Permutations(Calls)
=============================================================================
