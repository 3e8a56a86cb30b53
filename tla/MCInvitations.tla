--------------------------- MODULE MCInvitations ---------------------------
(***************************************************************************)
(* Invitations for TLC.  The invitees are interchangeable, the founder is  *)
(* not; so are the tokens, the items and the calls.                        *)
(***************************************************************************)
EXTENDS Invitations, TLC

MCSymmetry ==
  Permutations(Emails \ {Founder}) \cup Permutations(Tokens)
    \cup Permutations(Items) \cup Permutations(Accepts)
=============================================================================
