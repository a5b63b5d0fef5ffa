SPECIFICATION FairSpec
CONSTANTS
    NULL = NULL
    Emails = {e1}
    Workers = {w1, w2}
    Attempts = {a1, a2}
PROPERTY
    SendingResolves
