SPECIFICATION QueueSpec
CONSTANTS
    NULL = NULL
    Emails = {e1}
    Workers = {w1, w2}
    Attempts = {a1, a2}
    Tokens = {t1, t2}
    MaxEmailAttempts = 2
    DeadCap = 1
    MaxPending = 1
    Faults = {"dead_gap"}
SYMMETRY Symmetry
INVARIANT
    DeadLetterIsReplayable
CHECK_DEADLOCK FALSE
