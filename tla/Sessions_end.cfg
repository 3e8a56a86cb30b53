SPECIFICATION FairSpec
CONSTANTS
  Calls = {c1, c2}
  Profiles = {member, admin}
  MaxNow = 1
  AccessLife = 1
  RefreshLife = 2
  None = None
INVARIANT TypeOK
INVARIANT ClosedSessionStays
INVARIANT LoggedOutRefused
PROPERTY RemovalEndsSessions
