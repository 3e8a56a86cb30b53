SPECIFICATION LiveSpec
CONSTANTS
    Plans = {free, pro}
    Priced = {free, pro}
    FreePlan = free
    NoSub = NoSub
    TrialDays = 1
    Grace = 1
    Horizon = 4
    Attempts = 2
    MaxStalled = 1
    MaxEvents = 3
    Owners = {}
    Renamers = {}
    Instances = {i1}
    MayMiss = FALSE
CHECK_DEADLOCK FALSE
INVARIANTS TypeOK OneSubscription InSync
PROPERTIES TrialEnds
