----------------------------- MODULE MCSessions -----------------------------
(***************************************************************************)
(* Sessions for TLC.  Calls are interchangeable, and so are the profiles: no  *)
(* action tells one from another.                                          *)
(***************************************************************************)
EXTENDS Sessions, TLC

MCSymmetry == Permutations(Calls) \cup Permutations(Profiles)
=============================================================================
