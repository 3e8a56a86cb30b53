SPECIFICATION RegistrationFairSpec
CONSTANTS
  Requests = {r1, r2}
  Members = {m1}
  Addresses = {e1, e2}
  NoAddress = NoAddress
  Attempts = 2
  MaxStalled = 1
  Faults = {"database", "redis", "queue", "provider", "crash"}
INVARIANT RegistrationTypeOK
PROPERTY BookKept
PROPERTY OwnersMailed
CHECK_DEADLOCK FALSE
