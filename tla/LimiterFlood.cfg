SPECIFICATION Spec
CONSTANTS
    Token = 3
    Rate = 1
    Burst = 6
    BanAfter = 3
    MaxStepBack = 0
    MaxTime = 14
    MaxServed = 6
    NotLimited = NotLimited
CHECK_DEADLOCK FALSE
INVARIANTS FloodIsBanned
