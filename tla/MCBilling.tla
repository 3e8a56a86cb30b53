----------------------------- MODULE MCBilling -----------------------------
(* Instances of Billing for TLC.                                             *)
EXTENDS Billing, TLC

MCSymmetry == Permutations(Owners) \cup Permutations(Renamers)
              \cup Permutations(Instances)

=============================================================================
