----------------------------- MODULE MCWebhooks -----------------------------
(***************************************************************************)
(* Webhooks for TLC.  No action tells two endpoints, two events or two     *)
(* calls apart.                                                            *)
(***************************************************************************)
EXTENDS Webhooks, TLC

MCSymmetry ==
  Permutations(Endpoints) \cup Permutations(Events) \cup Permutations(Admins)
=============================================================================
