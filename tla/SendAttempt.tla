----------------------------- MODULE SendAttempt -----------------------------
(***************************************************************************)
(* The send-attempt protocol: how an email gets from the API, through the  *)
(* email workers, to the provider, with PostgreSQL deciding who may submit *)
(* (EmailService.processFromQueueDurable and everything else that writes   *)
(* an email's row while it runs).                                          *)
(*                                                                         *)
(* Redis is not here.  A worker may be woken for any stored email at any   *)
(* time, as often as it likes and by several workers at once: a duplicated *)
(* queue item, an item redelivered because its lease ran out, an item that *)
(* outlived its email.  What holds here holds whatever the queue does;     *)
(* DeliveryQueue adds the queue itself.                                    *)
(*                                                                         *)
(* One action is one call to PostgreSQL or to the provider.  A call that   *)
(* writes can succeed, find that its WHERE clause matches no row, fail, or *)
(* commit and lose the reply.                                              *)
(***************************************************************************)
EXTENDS EmailRepo, FiniteSets

CONSTANTS
    Emails,     \* email IDs
    Workers     \* email workers, over all worker processes

VARIABLES
    emails,     \* the table: email -> row
    pc,         \* worker -> where it is in processNext
    job,        \* worker -> the email of its receipt
    claim,      \* worker -> the attempt it drew (AttemptID and FenceToken)
    used,       \* UUIDs drawn so far: uuid.New() never repeats one
    due,        \* emails whose scheduled_at has passed
    api,        \* email -> where EmailService.send is: before, after Create, returned
    replays,    \* email -> tokens of ReplayDeadLetter calls between their two steps
    handlers,   \* email -> messages whose event handler has looked the email up
    accepted,   \* email -> attempts the provider took: the truth, unknown to the code
    voided      \* email -> attempts the row was told have failed although they may
                \* have been submitted: by manual review, or by a provider event

vars == <<emails, pc, job, claim, used, due, api, replays, handlers, accepted, voided>>

worker == <<pc, job, claim>>

PC == {"idle", "read", "claimed", "cleared", "suppressed", "send", "accepted",
       "unknown", "release", "rejected", "ack", "requeue", "reschedule", "dead"}

TypeOK ==
    /\ emails \in [Emails -> Row]
    /\ pc \in [Workers -> PC]
    /\ job \in [Workers -> Emails \cup {NULL}]
    /\ claim \in [Workers -> Attempts \cup {NULL}]
    /\ \A w \in Workers : pc[w] # "idle" => job[w] \in Emails
    /\ used \in SUBSET Attempts
    /\ due \in SUBSET Emails
    /\ api \in [Emails -> {"new", "created", "returned"}]
    /\ replays \in [Emails -> SUBSET Attempts]
    /\ handlers \in [Emails -> SUBSET Attempts]
    /\ accepted \in [Emails -> SUBSET Attempts]
    /\ voided \in [Emails -> SUBSET (Attempts \cup {NULL})]

Init ==
    /\ emails = [e \in Emails |-> NoRow]
    /\ pc = [w \in Workers |-> "idle"]
    /\ job = [w \in Workers |-> NULL]
    /\ claim = [w \in Workers |-> NULL]
    /\ used = {}
    /\ due \in SUBSET Emails
    /\ api = [e \in Emails |-> "new"]
    /\ replays = [e \in Emails |-> {}]
    /\ handlers = [e \in Emails |-> {}]
    /\ accepted = [e \in Emails |-> {}]
    /\ voided = [e \in Emails |-> {}]

-----------------------------------------------------------------------------
(* EmailService.send: insert the row, then put the ID on the queue.        *)

ApiCreate(e) ==
    /\ api[e] = "new"
    /\ emails' = [emails EXCEPT ![e] = Create(@)]
    /\ api' = [api EXCEPT ![e] = "created"]
    /\ UNCHANGED <<worker, used, due, replays, handlers, accepted, voided>>

\* The queue took the ID; or the process died; or the queue call failed and so
\* did the status update after it; or the reply of the insert was lost.
ApiReturn(e) ==
    /\ api[e] = "created"
    /\ api' = [api EXCEPT ![e] = "returned"]
    /\ UNCHANGED <<emails, worker, used, due, replays, handlers, accepted, voided>>

\* The queue call failed.  It may have pushed the ID all the same, so that a
\* worker has the email already.
ApiQueueFailed(e) ==
    /\ api[e] = "created"
    /\ emails' = [emails EXCEPT ![e] = UpdateStatus(@, "failed")]
    /\ api' = [api EXCEPT ![e] = "returned"]
    /\ UNCHANGED <<worker, used, due, replays, handlers, accepted, voided>>

BecomesDue(e) ==
    /\ e \notin due
    /\ due' = due \cup {e}
    /\ UNCHANGED <<emails, worker, used, api, replays, handlers, accepted, voided>>

Cancel(e) ==
    /\ CanCancelQueued(emails[e])
    /\ emails' = [emails EXCEPT ![e] = CancelQueued(@)]
    /\ UNCHANGED <<worker, used, due, api, replays, handlers, accepted, voided>>

-----------------------------------------------------------------------------
(* A worker: processNext calling processFromQueueDurable.                  *)

Goto(w, l) == pc' = [pc EXCEPT ![w] = l]

\* A write by worker w that leaves its row r: no other variable of the
\* database side changes.
Write(w, r) == emails' = [emails EXCEPT ![job[w]] = r]

\* GetByID and the checks on what it returned.
Read(w, e) ==
    /\ pc[w] = "idle"
    /\ emails[e].status # "absent"
    /\ job' = [job EXCEPT ![w] = e]
    /\ \/ Goto(w, "requeue")                                   \* the query failed
       \/ emails[e].status # "queued" /\ Goto(w, "ack")        \* ErrEmailNotQueued
       \/ emails[e].status = "queued" /\ e \notin due /\ Goto(w, "reschedule")
       \/ emails[e].status = "queued" /\ e \in due /\ Goto(w, "read")
    /\ UNCHANGED <<emails, claim, used, due, api, replays, handlers, accepted, voided>>

Claim(w) ==
    /\ pc[w] = "read"
    /\ \/ /\ CanClaimSendAttempt(emails[job[w]])
          /\ \E a \in Attempts \ used :
                /\ Write(w, ClaimSendAttempt(emails[job[w]], a))
                /\ used' = used \cup {a}
                /\ claim' = [claim EXCEPT ![w] = a]
          /\ Goto(w, "claimed") \/ Goto(w, "requeue")          \* reply lost
       \/ /\ \/ ~CanClaimSendAttempt(emails[job[w]]) /\ Goto(w, "ack")
             \/ Goto(w, "requeue")
          /\ UNCHANGED <<emails, used, claim>>
    /\ UNCHANGED <<job, due, api, replays, handlers, accepted, voided>>

\* The suppression list and the contacts' subscriptions.
CheckRecipientSuppression(w) ==
    /\ pc[w] = "claimed"
    /\ \E l \in {"cleared", "suppressed", "release"} : Goto(w, l)
    /\ UNCHANGED <<emails, job, claim, used, due, api, replays, handlers, accepted, voided>>

MarkStarted(w) ==
    /\ pc[w] = "cleared"
    /\ \/ /\ CanMarkSendStarted(emails[job[w]], claim[w])
          /\ Write(w, MarkSendStarted(emails[job[w]], claim[w]))
          /\ Goto(w, "send") \/ Goto(w, "requeue")
       \/ /\ \/ ~CanMarkSendStarted(emails[job[w]], claim[w]) /\ Goto(w, "ack")
             \/ Goto(w, "requeue")
          /\ UNCHANGED emails
    /\ UNCHANGED <<job, claim, used, due, api, replays, handlers, accepted, voided>>

\* The provider takes the message and its answer arrives, or is lost or late or
\* has no message ID ("unknown"); or does not take it, and the code knows it
\* ("release": worth a retry, "rejected": not) or does not.
Send(w) ==
    /\ pc[w] = "send"
    /\ \/ /\ accepted' = [accepted EXCEPT ![job[w]] = @ \cup {claim[w]}]
          /\ Goto(w, "accepted") \/ Goto(w, "unknown")
       \/ /\ \E l \in {"unknown", "release", "rejected"} : Goto(w, l)
          /\ UNCHANGED accepted
    /\ UNCHANGED <<emails, job, claim, used, due, api, replays, handlers, voided>>

\* An error is retried on the local transaction only, at most three times.
PersistAccepted(w) ==
    /\ pc[w] = "accepted"
    /\ \/ /\ CanFinalizeAccepted(emails[job[w]], claim[w])
          /\ Write(w, FinalizeAccepted(emails[job[w]], claim[w]))
          /\ Goto(w, "ack") \/ Goto(w, "accepted") \/ Goto(w, "unknown")
       \/ UNCHANGED emails /\ Goto(w, "unknown")
    /\ UNCHANGED <<job, claim, used, due, api, replays, handlers, accepted, voided>>

\* Acknowledged whatever becomes of the write.
PersistUnknown(w) ==
    /\ pc[w] = "unknown"
    /\ \/ /\ CanFinalizeAmbiguous(emails[job[w]], claim[w])
          /\ Write(w, FinalizeAmbiguous(emails[job[w]], claim[w]))
       \/ UNCHANGED emails
    /\ Goto(w, "ack")
    /\ UNCHANGED <<job, claim, used, due, api, replays, handlers, accepted, voided>>

PersistRetryable(w) ==
    /\ pc[w] = "release"
    /\ \/ /\ CanMarkSendRetryable(emails[job[w]], claim[w])
          /\ Write(w, MarkSendRetryable(emails[job[w]], claim[w]))
          /\ Goto(w, "requeue")
       \/ /\ \/ ~CanMarkSendRetryable(emails[job[w]], claim[w]) /\ Goto(w, "ack")
             \/ Goto(w, "requeue")
          /\ UNCHANGED emails
    /\ UNCHANGED <<job, claim, used, due, api, replays, handlers, accepted, voided>>

PersistFailed(w) ==
    /\ pc[w] \in {"suppressed", "rejected"}
    /\ \/ /\ CanFinalizeFailed(emails[job[w]], claim[w])
          /\ Write(w, FinalizeFailed(emails[job[w]], claim[w]))
          /\ Goto(w, "ack") \/ Goto(w, "requeue")
       \/ /\ \/ ~CanFinalizeFailed(emails[job[w]], claim[w]) /\ Goto(w, "ack")
             \/ Goto(w, "requeue")
          /\ UNCHANGED emails
    /\ UNCHANGED <<job, claim, used, due, api, replays, handlers, accepted, voided>>

Rest(w) ==
    /\ Goto(w, "idle")
    /\ job' = [job EXCEPT ![w] = NULL]
    /\ claim' = [claim EXCEPT ![w] = NULL]

\* Ack, Requeue or RescheduleReceipt.
Settle(w) ==
    /\ pc[w] \in {"ack", "requeue", "reschedule"}
    /\ Rest(w)
    /\ UNCHANGED <<emails, used, due, api, replays, handlers, accepted, voided>>

\* Requeue found the retry limit reached: ErrDeadLettered.
DeadLetter(w) ==
    /\ pc[w] = "requeue"
    /\ Goto(w, "dead")
    /\ UNCHANGED <<emails, job, claim, used, due, api, replays, handlers, accepted, voided>>

MarkFailedFromQueue(w) ==
    /\ pc[w] = "dead"
    /\ \/ /\ CanMarkDeadLetterFailed(emails[job[w]])
          /\ Write(w, MarkDeadLetterFailed(emails[job[w]]))
       \/ UNCHANGED emails
    /\ Rest(w)
    /\ UNCHANGED <<used, due, api, replays, handlers, accepted, voided>>

\* The process dies, or is paused for good, between any two calls.
Crash(w) ==
    /\ pc[w] # "idle"
    /\ Rest(w)
    /\ UNCHANGED <<emails, used, due, api, replays, handlers, accepted, voided>>

-----------------------------------------------------------------------------
(* Time and the maintenance tick of every worker.                          *)

LeaseExpires(e) ==
    /\ emails[e].lease = "live"
    /\ emails' = [emails EXCEPT ![e].lease = "expired"]
    /\ UNCHANGED <<worker, used, due, api, replays, handlers, accepted, voided>>

RecoverExpiredSendAttempts ==
    /\ \E e \in Emails : CanRequeueExpired(emails[e]) \/ CanQuarantineExpired(emails[e])
    /\ emails' = [e \in Emails |-> RecoverExpiredSendAttempt(emails[e])]
    /\ UNCHANGED <<worker, used, due, api, replays, handlers, accepted, voided>>

QueueRecoveryDone(e) ==
    /\ emails[e].recovery
    /\ emails' = [emails EXCEPT ![e] = MarkQueueRecoveryEnqueued(@)]
    /\ UNCHANGED <<worker, used, due, api, replays, handlers, accepted, voided>>

-----------------------------------------------------------------------------
(* Operators: replay of a dead letter, manual review of an unknown outcome. *)

\* ReplayDeadLetter up to the queue call.  Its own check on the row it read
\* first refuses nothing the statement would let through.
ReplayPrepare(e) ==
    /\ CanPrepareDeadLetterReplay(emails[e])
    /\ \E t \in Attempts \ used :
          /\ emails' = [emails EXCEPT ![e] = PrepareDeadLetterReplay(@, t)]
          /\ used' = used \cup {t}
          /\ replays' = [replays EXCEPT ![e] = @ \cup {t}]
    /\ UNCHANGED <<worker, due, api, handlers, accepted, voided>>

\* ReplayDead moved the ID to the pending list, or nothing came back.
ReplayDone(e, t) ==
    /\ t \in replays[e]
    /\ replays' = [replays EXCEPT ![e] = @ \ {t}]
    /\ UNCHANGED <<emails, worker, used, due, api, handlers, accepted, voided>>

\* ReplayDead failed (it may have moved the ID all the same).
ReplayCancel(e, t) ==
    /\ t \in replays[e]
    /\ CanCancelDeadLetterReplay(emails[e], t)
    /\ emails' = [emails EXCEPT ![e] = CancelDeadLetterReplay(@)]
    /\ replays' = [replays EXCEPT ![e] = @ \ {t}]
    /\ UNCHANGED <<worker, used, due, api, handlers, accepted, voided>>

\* m is a message the inbox has a Send or Delivery event of, tagged with this
\* email: one the provider took, for this attempt or an earlier one.
ReviewAccepted(e, m) ==
    /\ CanReconcileAmbiguous(emails[e])
    /\ m \in accepted[e]
    /\ emails' = [emails EXCEPT ![e] = ReconcileAccepted(@, m)]
    /\ UNCHANGED <<worker, used, due, api, replays, handlers, accepted, voided>>

\* The reviewer's word is not checked against anything.
ReviewFailed(e) ==
    /\ CanReconcileAmbiguous(emails[e])
    /\ emails' = [emails EXCEPT ![e] = ReconcileFailed(@)]
    /\ voided' = [voided EXCEPT ![e] = @ \cup {emails[e].attempt}]
    /\ UNCHANGED <<worker, used, due, api, replays, handlers, accepted>>

-----------------------------------------------------------------------------
(* Provider events.  An event of message m can arrive whenever m was taken, *)
(* of any type, in any order, more than once.                              *)

\* processProviderEventInbox up to the lookup: by message ID, else by the
\* email and attempt tags.
CorrelateProviderEvent(e, m) ==
    /\ m \in accepted[e]
    /\ \/ emails[e].pmid = m
       \/ emails[e].attempt = m /\ \A f \in Emails : emails[f].pmid # m
    /\ handlers' = [handlers EXCEPT ![e] = @ \cup {m}]
    /\ UNCHANGED <<emails, worker, used, due, api, replays, accepted, voided>>

\* The transaction: the row is read again, but only its message ID is checked.
\* A refused event is dropped, a failed transaction leaves the event for later.
HandleProviderEvent(e, m, target) ==
    /\ m \in handlers[e]
    /\ handlers' = [handlers EXCEPT ![e] = @ \ {m}]
    /\ \/ /\ CanApplyProviderEvent(emails[e], m)
          /\ emails' = [emails EXCEPT ![e] = ApplyProviderEvent(@, m, target)]
          /\ voided' = [voided EXCEPT ![e] =
                IF target = "failed" /\ ShouldApplyProviderStatus(emails[e].status, target)
                THEN @ \cup {emails[e].attempt} ELSE @]
       \/ UNCHANGED <<emails, voided>>
    /\ UNCHANGED <<worker, used, due, api, replays, accepted>>

-----------------------------------------------------------------------------
WorkerStep(w) ==
    \/ \E e \in Emails : Read(w, e)
    \/ Claim(w) \/ CheckRecipientSuppression(w) \/ MarkStarted(w) \/ Send(w)
    \/ PersistAccepted(w) \/ PersistUnknown(w) \/ PersistRetryable(w) \/ PersistFailed(w)
    \/ Settle(w) \/ DeadLetter(w) \/ MarkFailedFromQueue(w) \/ Crash(w)

RowStep(e) ==
    \/ ApiCreate(e) \/ ApiReturn(e) \/ ApiQueueFailed(e) \/ BecomesDue(e) \/ Cancel(e)
    \/ LeaseExpires(e) \/ QueueRecoveryDone(e)
    \/ ReplayPrepare(e) \/ ReviewFailed(e)
    \/ \E m \in Attempts :
          \/ ReplayDone(e, m) \/ ReplayCancel(e, m) \/ ReviewAccepted(e, m)
          \/ CorrelateProviderEvent(e, m)
          \/ \E target \in TargetStatus : HandleProviderEvent(e, m, target)

Next ==
    \/ \E w \in Workers : WorkerStep(w)
    \/ \E e \in Emails : RowStep(e)
    \/ RecoverExpiredSendAttempts

Spec == Init /\ [][Next]_vars

\* Clocks run, and the 30-second maintenance tick of a live worker comes round.
\* Nothing is assumed of the worker that holds the attempt, of the provider, of
\* the API's clients or of the operators.
Fairness ==
    /\ \A e \in Emails : WF_vars(LeaseExpires(e))
    /\ WF_vars(RecoverExpiredSendAttempts)

FairSpec == Spec /\ Fairness

-----------------------------------------------------------------------------
(* Properties.                                                             *)

\* The submissions of an email that count: taken by the provider, and not
\* written off by manual review or by a "failed" event applied to the row.
LiveSubmissions(e) == accepted[e] \ voided[e]

\* No email is submitted twice: whatever the queue redelivers, wherever a worker
\* crashes or stalls and whichever replies are lost, the provider takes a second
\* submission only after the first was declared failed.
AtMostOneLiveSubmission ==
    \A e \in Emails : \A a, b \in LiveSubmissions(e) : a = b

\* Cancel succeeded, so the email is not sent: neither before (by a worker that
\* had read it as queued) nor after (by one woken for it later).
CancelledNeverSent ==
    \A e \in Emails : emails[e].status = "cancelled" => LiveSubmissions(e) = {}

\* A row in "sending" can be picked up by the maintenance tick: it has an owner's
\* attempt and fence, a lease that can run out, and a state one of the two
\* recovery statements matches.
SendingIsRecoverable ==
    \A e \in Emails : emails[e].status = "sending" =>
        /\ emails[e].state \in {"leased", "send_started"}
        /\ emails[e].attempt = emails[e].fence /\ emails[e].fence # NULL
        /\ emails[e].lease # "null"

\* A status that tells the customer the mail went out, and the message ID stored
\* with it, are backed by a submission the provider took for this very email.
ReportedSentIsGenuine ==
    \A e \in Emails :
        /\ emails[e].pmid # NULL => emails[e].pmid \in accepted[e]
        /\ emails[e].status \in {"sent", "delivered", "opened", "clicked", "bounced", "complained"}
              => emails[e].pmid # NULL

\* An outcome that is not known is never settled by sending again: a row leaves
\* "ambiguous" only as accepted or failed, by a reviewer or a provider event.
AmbiguousNeedsEvidence ==
    [][\A e \in Emails :
          emails[e].state = "ambiguous" /\ emails'[e].state # "ambiguous" =>
              \/ emails'[e].state = "accepted" /\ emails'[e].pmid \in accepted[e]
              \/ emails'[e].state = "failed_terminal" /\ emails[e].attempt \in voided'[e]]_vars

\* A row leaves "sending" before its lease runs out by the word of the worker with
\* its attempt, by an event of the provider, or because the API could not tell that
\* its push had worked (OwnedRowIsFenced, below): never by another worker that has
\* the email as well, the maintenance tick, a cancellation, a dead letter or a replay.
LiveAttemptKeepsItsRow ==
    [][\A e \in Emails :
          /\ emails[e].status = "sending" /\ emails[e].lease = "live"
          /\ emails'[e].status # "sending"
          => \/ \E w \in Workers :
                   /\ claim[w] = emails[e].attempt /\ job[w] = e
                   /\ pc[w] \in {"accepted", "unknown", "release", "suppressed", "rejected"}
                   /\ \A v \in Workers \ {w} : pc'[v] = pc[v]
             \/ handlers'[e] # handlers[e]
             \/ api[e] = "created" /\ api'[e] = "returned"]_vars

\* An attempt does not stay open for ever, even if its worker is gone.
SendingResolves ==
    \A e \in Emails : emails[e].status = "sending" ~> emails[e].status # "sending"

-----------------------------------------------------------------------------
(* What the comment on SendAttemptRepository says ("every state mutation is *)
(* fenced by AttemptID and FenceToken") and the code does not do.          *)

\* While an attempt holds a row with a lease that has not run out, the row is
\* failed only in a step of the worker with that attempt, or because the
\* provider said so.
OwnedRowIsFenced ==
    [][\A e \in Emails :
          /\ emails[e].status = "sending" /\ emails[e].lease = "live"
          /\ emails'[e].status = "failed"
          => \/ \E w \in Workers : claim[w] = emails[e].attempt /\ pc'[w] # pc[w]
             \/ voided'[e] # voided[e]]_vars

\* A "failed" event ends the attempt it is about, not one that a replay has
\* started since the handler looked the email up.
EventEndsItsOwnAttempt ==
    [][\A e \in Emails, m \in Attempts :
          /\ m \in handlers[e] /\ m \notin handlers'[e]
          /\ emails[e].state = "send_started" /\ emails'[e].state = "failed_terminal"
          => emails[e].attempt = m]_vars
=============================================================================
