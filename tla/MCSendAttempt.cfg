SPECIFICATION Spec
CONSTANTS
    NULL = NULL
    Emails = {e1}
    Workers = {w1, w2}
    Attempts = {a1, a2, a3}
SYMMETRY Symmetry
INVARIANTS
    TypeOK
    AtMostOneLiveSubmission
    CancelledNeverSent
    SendingIsRecoverable
    ReportedSentIsGenuine
PROPERTIES
    AmbiguousNeedsEvidence
    LiveAttemptKeepsItsRow
