SPECIFICATION Spec
CONSTANTS
    Calls = {c1, c2, c3}
    Readers = {g1}
    Instances = {}
    MonthLen = 5
    Months = 1
    Limits <- MCBoth
    LimitTTL = 2
    MaxServed = 4
    LastStart = 0
    MayCrash = FALSE
    MayFail = FALSE
    MayChange = FALSE
SYMMETRY MCSymmetry
INVARIANTS TypeOK LimitInForce FlagEarned
CHECK_DEADLOCK FALSE
