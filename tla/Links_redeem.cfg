SPECIFICATION Spec
CONSTANTS
  low = low
  capital = capital
  Users = {u1, u2}
  Addresses = {low, capital}
  NoAddress = NoAddress
  NoLink = NoLink
  Lower <- MCLower
  Calls = {c1, c2}
  MaxLinks = 2
SYMMETRY MCSymmetry
INVARIANT TypeOK
INVARIANT VerifiedMeansProven
PROPERTY MailboxDecides
