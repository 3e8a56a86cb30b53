SPECIFICATION FairSpec
CONSTANTS
  Endpoints = {w1}
  Events = {e1}
  Admins = {a1}
  MaxWebhooks = 1
  Attempts = 3
  MaxStalled = 1
  Faults = {"crash", "database", "queue"}
  NoEndpoint = NoEndpoint
INVARIANT TypeOK
INVARIANT PostsBounded
INVARIANT SuccessIsTrue
PROPERTY JobsEnd
CHECK_DEADLOCK FALSE
