SPECIFICATION Spec
CONSTANTS
    Token = 3
    Rate = 2
    Burst = 7
    BanAfter = 3
    MaxStepBack = 4
    MaxTime = 9
    MaxServed = 8
    NotLimited = NotLimited
CHECK_DEADLOCK FALSE
INVARIANTS AllowanceKept BanNeedsClockSetBack
