SPECIFICATION FairSpec
CONSTANTS
  Endpoints = {w1, w2, w3}
  Events = {e1}
  Admins = {a1, a2}
  MaxWebhooks = 1
  Attempts = 3
  MaxStalled = 1
  Faults = {"queue"}
  NoEndpoint = NoEndpoint
INVARIANT OneRecord
PROPERTY RecordPromise
CHECK_DEADLOCK FALSE
