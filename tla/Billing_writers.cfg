SPECIFICATION Spec
CONSTANTS
    Plans = {free, pro}
    Priced = {free, pro}
    FreePlan = free
    NoSub = NoSub
    TrialDays = 1
    Grace = 2
    Horizon = 4
    Attempts = 1
    MaxStalled = 0
    MaxEvents = 1
    Owners = {o1}
    Renamers = {r1}
    Instances = {i1}
    MayMiss = TRUE
CHECK_DEADLOCK FALSE
INVARIANTS CancelledMeansOver SubscriptionIsReal
PROPERTIES FreshlySuspendedKept
