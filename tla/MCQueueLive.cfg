SPECIFICATION QueueFairSpec
CONSTANTS
    NULL = NULL
    Emails = {e1}
    Workers = {w1}
    Attempts = {a1}
    Tokens = {t1, t2}
    MaxEmailAttempts = 2
    DeadCap = 1
    MaxPending = 1
    Faults = {"api_gap", "overrun", "dead_gap", "replay_gap"}
PROPERTY
    ReceiptsReturn
CHECK_DEADLOCK FALSE
