SPECIFICATION Spec
CONSTANTS
  Users = {u1, u2}
  Orgs = {o1}
  Emails = {e1, e2}
  InvitedRoles = {"OWNER", "ADMIN"}
  Calls = {c1, c2}
  None = None
  MaxTokens = 1
  MaxLinks = 1
INVARIANT TypeOK
INVARIANT FounderStays
INVARIANT OwnerClaimsHold
SYMMETRY MCSymmetry
