SPECIFICATION Spec
CONSTANTS
    NULL = NULL
    Unbounded = Unbounded
    Declared <- LaggingLedger
    Verified <- BothProven
    BaseDelay = 1
    Multiplier = 2
    Cap = 2
    MaxAttempts = 2
    TimeBudget = 2
    ConsecutiveNotFound = 2
    MaxQueries = 3
    w1 = w1
    w2 = w2
    e1 = e1
    e2 = e2
    op1 = op1
    boss = boss
    Workers = {w1, w2}
    Endpoints = {e1}
    Operators = {op1, boss}
    Approver = boss
    MaxTime = 3
    MaxSends = 2
    MaxItems = 1
    Answers = {"confirmed"}
    RetryAfter = {1}
    MaxStall = 1
    MayFailToConnect = FALSE
    RunnersPaused = TRUE
    MaxCrashes = 0
SYMMETRY Symmetry
CHECK_DEADLOCK FALSE
INVARIANTS
    VerdictTrue
