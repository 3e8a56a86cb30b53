SPECIFICATION Spec
CONSTANTS
    Calls = {c1}
    Readers = {}
    Instances = {i1, i2}
    MonthLen = 3
    Months = 2
    Limits <- MCHigh
    LimitTTL = 1
    MaxServed = 2
    LastStart = 0
    MayCrash = TRUE
    MayFail = TRUE
    MayChange = TRUE
SYMMETRY MCSymmetry
INVARIANTS RecordHonest
CHECK_DEADLOCK FALSE
