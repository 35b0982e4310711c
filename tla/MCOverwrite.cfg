SPECIFICATION Spec
CONSTANTS
    NULL = NULL
    Unbounded = Unbounded
    Declared <- EnforcingLedger
    Verified <- BothProven
    BaseDelay = 1
    Multiplier = 2
    Cap = 2
    MaxAttempts = 3
    TimeBudget = 3
    ConsecutiveNotFound = 2
    MaxQueries = 2
    w1 = w1
    w2 = w2
    e1 = e1
    e2 = e2
    op1 = op1
    boss = boss
    Workers = {w1, w2}
    Endpoints = {e1}
    Operators = {op1, boss}
    Approver = boss
    MaxTime = 2
    MaxSends = 3
    MaxItems = 1
    Answers = {"confirmed", "throttled"}
    RetryAfter = {1}
    MaxStall = 0
    MayFailToConnect = FALSE
    RunnersPaused = TRUE
    MaxCrashes = 0
SYMMETRY Symmetry
CHECK_DEADLOCK FALSE
INVARIANTS
    AtMostOneEffect
