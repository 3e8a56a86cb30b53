------------------------------ MODULE MCUsage ------------------------------
(* Instances of Usage for TLC.                                               *)
EXTENDS Usage, TLC

\* The limits of the plans: calls a month, and unlimited.
MCBoth == {2, Unlimited}
MCHigh == {3, Unlimited}

MCSymmetry == Permutations(Calls) \cup Permutations(Readers)
                  \cup Permutations(Instances)

=============================================================================
