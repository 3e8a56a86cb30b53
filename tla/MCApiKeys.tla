----------------------------- MODULE MCApiKeys -----------------------------
(***************************************************************************)
(* ApiKeys for TLC.  The keys, the requests and the calls of create and    *)
(* remove are interchangeable; the symmetry is used by the runs that check *)
(* no liveness.                                                            *)
(***************************************************************************)
EXTENDS ApiKeys, TLC

MCSymmetry ==
  Permutations(Keys) \cup Permutations(Requests) \cup Permutations(Admins)
=============================================================================
