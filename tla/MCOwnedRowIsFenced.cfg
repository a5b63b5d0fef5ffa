SPECIFICATION Spec
CONSTANTS
    NULL = NULL
    Emails = {e1}
    Workers = {w1, w2}
    Attempts = {a1, a2, a3}
SYMMETRY Symmetry
PROPERTY
    OwnedRowIsFenced
