SPECIFICATION Spec
CONSTANTS
  Keys = {k1, k2, k3}
  Requests = {r1}
  Admins = {a1, a2}
  MaxApiKeys = 1
  MaxNow = 1
  Never = Never
  NoEntry = NoEntry
  NoKey = NoKey
SYMMETRY MCSymmetry
INVARIANT TypeOK
INVARIANT ExpiryHonoured
INVARIANT RevokedKeyRefused
INVARIANT OvershootBounded
CHECK_DEADLOCK FALSE
