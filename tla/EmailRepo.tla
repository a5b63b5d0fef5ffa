------------------------------ MODULE EmailRepo ------------------------------
(***************************************************************************)
(* The row of the PostgreSQL table "emails" and the statements that write  *)
(* it (internal/repository/email_repo.go, delivery_pipeline_repo.go).      *)
(*                                                                         *)
(* A statement  UPDATE emails SET s WHERE id = e AND g  is two operators:  *)
(* CanS(row, ...) is its WHERE clause g on the row, S(row, ...) the row    *)
(* after it.  A statement that is one transaction of several is written as *)
(* the effect of the whole transaction on the row.                         *)
(*                                                                         *)
(* Data abstraction.  An attempt stands for the pair of fresh UUIDs a claim *)
(* draws (send_attempt_id, send_fence_token); the columns stay separate    *)
(* because some statements clear the fence and keep the attempt.  The      *)
(* message ID the provider answers an attempt with is named by that        *)
(* attempt.  send_lease_until is "null", "live" or "expired".  The address, *)
(* body and timestamp columns are left out: no guard reads them, except    *)
(* sending_at, see RecoverExpiredSendAttempts.                             *)
(***************************************************************************)
EXTENDS Integers

CONSTANTS
    Attempts,   \* UUIDs: send attempts, replay tokens, provider message IDs
    NULL        \* SQL NULL

ASSUME AttemptAssumption == NULL \notin Attempts

EmailStatus ==
    {"queued", "sending", "sent", "delivered", "opened", "clicked",
     "bounced", "complained", "failed", "cancelled", "ambiguous"}

SendAttemptState ==
    {"none", "leased", "send_started", "accepted", "ambiguous", "failed_terminal"}

\* "absent" is the id whose row has not been inserted.
Row == [status   : EmailStatus \cup {"absent"},
        state    : SendAttemptState,
        attempt  : Attempts \cup {NULL},
        fence    : Attempts \cup {NULL},
        lease    : {"null", "live", "expired"},
        pmid     : Attempts \cup {NULL},
        recovery : BOOLEAN]

NoRow == [status |-> "absent", state |-> "none", attempt |-> NULL, fence |-> NULL,
          lease |-> "null", pmid |-> NULL, recovery |-> FALSE]

Create(r) == [r EXCEPT !.status = "queued"]

-----------------------------------------------------------------------------
(* Statements of the send-attempt state machine.                           *)

CanClaimSendAttempt(r) ==
    r.status = "queued" /\ r.state \in {"none", "failed_terminal"}

\* Mutant: the claim takes no lease.
ClaimSendAttempt_NoLease(r, a) ==
    [r EXCEPT !.status = "sending", !.state = "leased", !.attempt = a, !.fence = a,
              !.recovery = FALSE]

ClaimSendAttempt(r, a) ==
    [r EXCEPT !.status = "sending", !.state = "leased", !.attempt = a, !.fence = a,
              !.lease = "live", !.recovery = FALSE]

\* WHERE send_attempt_id = $2 AND send_fence_token = $3 AND status = 'sending'
Owns(r, a) == r.attempt = a /\ r.fence = a /\ r.status = "sending"

CanMarkSendStarted(r, a) == Owns(r, a) /\ r.state = "leased"

MarkSendStarted(r, a) == [r EXCEPT !.state = "send_started", !.lease = "live"]

CanMarkSendRetryable(r, a) == Owns(r, a) /\ r.state \in {"leased", "send_started"}

MarkSendRetryable(r, a) ==
    [r EXCEPT !.status = "queued", !.state = "none", !.attempt = NULL, !.fence = NULL,
              !.lease = "null", !.recovery = FALSE]

\* The second disjunct lets a retry after a lost commit reply succeed.
CanFinalizeAccepted(r, a) ==
    /\ r.attempt = a /\ r.fence = a
    /\ \/ r.status = "sending" /\ r.state = "send_started" /\ r.lease = "live"
       \/ r.state = "accepted" /\ r.pmid = a

FinalizeAccepted(r, a) ==
    [r EXCEPT !.status = IF @ = "sending" THEN "sent" ELSE @, !.state = "accepted",
              !.pmid = a, !.lease = "null", !.recovery = FALSE]

CanFinalizeFailed(r, a) == Owns(r, a) /\ r.state \in {"leased", "send_started"}

FinalizeFailed(r, a) ==
    [r EXCEPT !.status = "failed", !.state = "failed_terminal", !.fence = NULL,
              !.lease = "null", !.recovery = FALSE]

CanFinalizeAmbiguous(r, a) == Owns(r, a) /\ r.state = "send_started"

FinalizeAmbiguous(r, a) ==
    [r EXCEPT !.status = "ambiguous", !.state = "ambiguous", !.fence = NULL,
              !.lease = "null", !.recovery = FALSE]

\* Mutant: an attempt that may have been submitted is requeued as well.
CanRequeueExpired_Started(r) ==
    /\ r.status = "sending" /\ r.state \in {"leased", "send_started"}
    /\ r.lease = "expired"

\* Mutant: only rows of the superseded claim are quarantined.
CanQuarantineExpired_Legacy(r) ==
    r.status = "sending" /\ r.lease = "expired" /\ r.state = "none" /\ r.pmid = NULL

\* Both UPDATEs of the transaction.  The alternative of the second WHERE for
\* rows without a lease (sending_at older than ten minutes) is for rows claimed
\* by the superseded ClaimForSending; SendingIsRecoverable of SendAttempt shows
\* that a row in "sending" always has a lease.
CanRequeueExpired(r) == r.status = "sending" /\ r.state = "leased" /\ r.lease = "expired"

CanQuarantineExpired(r) ==
    /\ r.status = "sending" /\ r.lease = "expired"
    /\ r.state = "send_started" \/ (r.state = "none" /\ r.pmid = NULL)

RecoverExpiredSendAttempt(r) ==
    IF CanRequeueExpired(r)
    THEN [r EXCEPT !.status = "queued", !.state = "none", !.attempt = NULL,
                   !.fence = NULL, !.lease = "null", !.recovery = TRUE]
    ELSE IF CanQuarantineExpired(r)
    THEN [r EXCEPT !.status = "ambiguous", !.state = "ambiguous", !.fence = NULL,
                   !.lease = "null", !.recovery = FALSE]
    ELSE r

MarkQueueRecoveryEnqueued(r) == [r EXCEPT !.recovery = FALSE]

-----------------------------------------------------------------------------
(* Dead letters, cancellation, and the unconditional status write.         *)

CanMarkDeadLetterFailed(r) ==
    /\ r.attempt = NULL /\ r.fence = NULL
    /\ \/ r.status = "queued" /\ r.state = "none" /\ ~r.recovery
       \/ r.status = "failed" /\ r.state = "failed_terminal"

\* Mutant: a state that the table's CHECK constraint does not know.
MarkDeadLetterFailed_State(r) ==
    [r EXCEPT !.status = "failed", !.state = "failed", !.attempt = NULL,
              !.fence = NULL, !.lease = "null", !.recovery = FALSE]

MarkDeadLetterFailed(r) ==
    [r EXCEPT !.status = "failed", !.state = "failed_terminal", !.attempt = NULL,
              !.fence = NULL, !.lease = "null", !.recovery = FALSE]

\* Mutant: an unknown outcome can be replayed like a failed one.
CanPrepareDeadLetterReplay_Ambiguous(r) ==
    /\ r.status \in {"failed", "ambiguous"}
    /\ r.state \in {"none", "failed_terminal", "ambiguous"}

CanPrepareDeadLetterReplay(r) ==
    r.status = "failed" /\ r.state \in {"none", "failed_terminal"}

PrepareDeadLetterReplay(r, t) ==
    [r EXCEPT !.status = "queued", !.state = "none", !.attempt = t, !.fence = NULL,
              !.lease = "null", !.recovery = FALSE]

CanCancelDeadLetterReplay(r, t) ==
    r.status = "queued" /\ r.state = "none" /\ r.attempt = t

CancelDeadLetterReplay(r) ==
    [r EXCEPT !.status = "failed", !.state = "failed_terminal", !.attempt = NULL,
              !.fence = NULL, !.lease = "null", !.recovery = FALSE]

\* Mutant: an email can be cancelled while it is being sent.
CanCancelQueued_Sending(r) == r.status \in {"queued", "sending"}

CanCancelQueued(r) == r.status = "queued"

CancelQueued(r) == [r EXCEPT !.status = "cancelled", !.recovery = FALSE]

\* UPDATE emails SET status = $1 WHERE id = $2: no guard on what the row holds.
UpdateStatus(r, s) == [r EXCEPT !.status = s]

-----------------------------------------------------------------------------
(* Manual review of an unknown outcome, and provider events.               *)

CanReconcileAmbiguous(r) == r.status = "ambiguous" /\ r.state = "ambiguous"

ReconcileAccepted(r, m) ==
    [r EXCEPT !.pmid = m, !.status = "sent", !.state = "accepted", !.fence = NULL,
              !.lease = "null", !.recovery = FALSE]

ReconcileFailed(r) ==
    [r EXCEPT !.status = "failed", !.state = "failed_terminal", !.fence = NULL,
              !.lease = "null", !.recovery = FALSE]

ProviderStatusRank(s) ==
    CASE s = "queued" -> 0
      [] s \in {"sending", "ambiguous", "failed"} -> 1
      [] s = "sent" -> 2
      [] s = "delivered" -> 3
      [] s = "opened" -> 4
      [] s = "clicked" -> 5
      [] OTHER -> -1

\* providerEventDetails: the status an SES event type asks for; "" for the
\* informational types (delivery delay, subscription).
TargetStatus ==
    {"sent", "delivered", "bounced", "complained", "failed", "opened", "clicked", ""}

ShouldApplyProviderStatus(current, target) ==
    /\ target # ""
    /\ current \notin {"cancelled", "complained"}
    /\ \/ target = "complained"
       \/ /\ current # "bounced"
          /\ \/ target = "bounced"
             \/ /\ current # "failed"
                /\ IF target = "failed"
                   THEN ProviderStatusRank(current) < ProviderStatusRank("delivered")
                   ELSE ProviderStatusRank(target) > ProviderStatusRank(current)

\* ErrProviderCorrelationMismatch otherwise.
CanApplyProviderEvent(r, m) == r.status # "absent" /\ r.pmid \in {NULL, m}

\* Mutant: the event's message ID is not stored with the status.
ApplyProviderEvent_NoMessage(r, m, target) ==
    IF ShouldApplyProviderStatus(r.status, target)
    THEN [r EXCEPT !.status = target,
                   !.state = IF target = "failed" THEN "failed_terminal" ELSE "accepted",
                   !.fence = NULL, !.lease = "null", !.recovery = FALSE]
    ELSE r

ApplyProviderEvent(r, m, target) ==
    IF ShouldApplyProviderStatus(r.status, target)
    THEN [r EXCEPT !.pmid = m, !.status = target,
                   !.state = IF target = "failed" THEN "failed_terminal" ELSE "accepted",
                   !.fence = NULL, !.lease = "null", !.recovery = FALSE]
    ELSE [r EXCEPT !.pmid = m]
=============================================================================
