-------------------------- MODULE SendAttemptProofs --------------------------
(***************************************************************************)
(* Proofs about SendAttempt for any sets of emails, workers and attempts.  *)
(*                                                                         *)
(* The argument.  A submission that counts (taken by the provider, not     *)
(* voided) is always the one its row names, and the row is in a state that *)
(* no claim, replay or cancellation matches: LiveIsRecorded.  For this to  *)
(* survive a submission that is still to come, the same must hold of every *)
(* worker standing before the provider call: WorkerInv.  The statements of *)
(* EmailRepo keep it because a worker that releases or fails its attempt   *)
(* knows that the provider did not take it, and because no two workers     *)
(* hold the same attempt.                                                  *)
(***************************************************************************)
EXTENDS SendAttempt, TLAPS

\* The provider may have taken the attempt the row names.
Submitted(r) == r.state \in {"send_started", "accepted", "ambiguous"}

SentStatus == {"sent", "delivered", "opened", "clicked", "bounced", "complained"}

\* What the statements of EmailRepo keep true of a row, acc being the attempts
\* of its email that the provider took.
RowInv(r, acc) ==
    /\ r.status = "absent" => r = NoRow
    /\ r.status \in {"queued", "cancelled"} => r.state = "none"
    /\ r.status = "sending" =>
          /\ r.state \in {"leased", "send_started"}
          /\ r.attempt = r.fence /\ r.fence # NULL
          /\ r.lease # "null"
    /\ r.pmid # NULL => r.pmid \in acc
    /\ r.status \in SentStatus => r.pmid # NULL

RowsInv == \A e \in Emails : RowInv(emails[e], accepted[e])

LiveIsRecorded ==
    \A e \in Emails : \A a \in LiveSubmissions(e) :
        emails[e].attempt = a /\ Submitted(emails[e])

\* What a worker knows of its attempt at each point of processFromQueueDurable.
WorkerInv(w) ==
    /\ pc[w] \in {"claimed", "cleared", "suppressed", "send", "accepted", "release", "rejected"}
          => claim[w] # NULL
    /\ pc[w] \in {"claimed", "cleared", "suppressed", "send", "release", "rejected"}
          => claim[w] \notin accepted[job[w]]
    /\ pc[w] = "send" =>
          \/ claim[w] \in voided[job[w]]
          \/ emails[job[w]].attempt = claim[w] /\ Submitted(emails[job[w]])
    /\ pc[w] = "accepted" => claim[w] \in accepted[job[w]]

WorkersInv == \A w \in Workers : WorkerInv(w)

ClaimsUnique ==
    \A v, w \in Workers : claim[v] # NULL /\ claim[v] = claim[w] => v = w

DrawnIsUsed ==
    /\ \A w \in Workers : claim[w] # NULL => claim[w] \in used
    /\ \A e \in Emails : accepted[e] \subseteq used

HandlersInv == \A e \in Emails : handlers[e] \subseteq accepted[e]

NewIsAbsent == \A e \in Emails : api[e] = "new" => emails[e].status = "absent"

\* The inductive invariant.
IInv ==
    /\ TypeOK
    /\ RowsInv
    /\ LiveIsRecorded
    /\ WorkersInv
    /\ ClaimsUnique
    /\ DrawnIsUsed
    /\ HandlersInv
    /\ NewIsAbsent

-----------------------------------------------------------------------------
(* The statements, one by one: what each does to a row that satisfies      *)
(* RowInv.                                                                 *)

\* A claim matches no row whose attempt may have been submitted.
LEMMA ClaimSendAttemptRow ==
    ASSUME NEW r \in Row, NEW acc, NEW a \in Attempts, RowInv(r, acc), CanClaimSendAttempt(r)
    PROVE  /\ ClaimSendAttempt(r, a) \in Row
           /\ RowInv(ClaimSendAttempt(r, a), acc)
           /\ r.status # "absent"
           /\ ~Submitted(r)
BY AttemptAssumption DEF RowInv, Row, NoRow, EmailStatus, SendAttemptState, SentStatus, Submitted,
   CanClaimSendAttempt, ClaimSendAttempt

\* MarkSendStarted records the attempt before it is submitted.
LEMMA MarkSendStartedRow ==
    ASSUME NEW r \in Row, NEW acc, NEW a \in Attempts \cup {NULL}, RowInv(r, acc), CanMarkSendStarted(r, a)
    PROVE  /\ MarkSendStarted(r, a) \in Row
           /\ RowInv(MarkSendStarted(r, a), acc)
           /\ r.status # "absent"
           /\ ~Submitted(r) /\ Submitted(MarkSendStarted(r, a)) /\ MarkSendStarted(r, a).attempt = a
BY AttemptAssumption DEF RowInv, Row, NoRow, EmailStatus, SendAttemptState, SentStatus, Submitted,
   CanMarkSendStarted, MarkSendStarted, Owns

\* MarkSendRetryable gives up only the attempt of its caller.
LEMMA MarkSendRetryableRow ==
    ASSUME NEW r \in Row, NEW acc, NEW a \in Attempts \cup {NULL}, RowInv(r, acc), CanMarkSendRetryable(r, a)
    PROVE  /\ MarkSendRetryable(r, a) \in Row
           /\ RowInv(MarkSendRetryable(r, a), acc)
           /\ r.status # "absent"
           /\ r.attempt = a
BY AttemptAssumption DEF RowInv, Row, NoRow, EmailStatus, SendAttemptState, SentStatus, Submitted,
   CanMarkSendRetryable, MarkSendRetryable, Owns

\* FinalizeFailed gives up only the attempt of its caller.
LEMMA FinalizeFailedRow ==
    ASSUME NEW r \in Row, NEW acc, NEW a \in Attempts \cup {NULL}, RowInv(r, acc), CanFinalizeFailed(r, a)
    PROVE  /\ FinalizeFailed(r, a) \in Row
           /\ RowInv(FinalizeFailed(r, a), acc)
           /\ r.status # "absent"
           /\ r.attempt = a
BY AttemptAssumption DEF RowInv, Row, NoRow, EmailStatus, SendAttemptState, SentStatus, Submitted,
   CanFinalizeFailed, FinalizeFailed, Owns

\* FinalizeAccepted keeps the attempt, and records a genuine message.
LEMMA FinalizeAcceptedRow ==
    ASSUME NEW r \in Row, NEW acc, NEW a \in Attempts \cap acc, RowInv(r, acc), CanFinalizeAccepted(r, a)
    PROVE  /\ FinalizeAccepted(r, a) \in Row
           /\ RowInv(FinalizeAccepted(r, a), acc)
           /\ r.status # "absent"
           /\ Submitted(r) => Submitted(FinalizeAccepted(r, a)) /\ FinalizeAccepted(r, a).attempt = r.attempt
<1>1. Submitted(r) /\ r.status # "absent" /\ r.status \notin {"queued", "cancelled"}
  BY DEF RowInv, NoRow, Submitted, CanFinalizeAccepted
<1>2. QED
  BY <1>1, AttemptAssumption DEF RowInv, Row, NoRow, EmailStatus, SendAttemptState, SentStatus, Submitted, FinalizeAccepted

\* FinalizeAmbiguous keeps the attempt.
LEMMA FinalizeAmbiguousRow ==
    ASSUME NEW r \in Row, NEW acc, NEW a \in Attempts \cup {NULL}, RowInv(r, acc), CanFinalizeAmbiguous(r, a)
    PROVE  /\ FinalizeAmbiguous(r, a) \in Row
           /\ RowInv(FinalizeAmbiguous(r, a), acc)
           /\ r.status # "absent"
           /\ Submitted(r) => Submitted(FinalizeAmbiguous(r, a)) /\ FinalizeAmbiguous(r, a).attempt = r.attempt
BY AttemptAssumption DEF RowInv, Row, NoRow, EmailStatus, SendAttemptState, SentStatus, Submitted,
   CanFinalizeAmbiguous, FinalizeAmbiguous, Owns

\* Recovery requeues only attempts that were never started; a started one keeps its name on the row.
LEMMA RecoverExpiredRow ==
    ASSUME NEW r \in Row, NEW acc, RowInv(r, acc)
    PROVE  /\ RecoverExpiredSendAttempt(r) \in Row
           /\ RowInv(RecoverExpiredSendAttempt(r), acc)
           /\ r.status = "absent" => RecoverExpiredSendAttempt(r) = r
           /\ Submitted(r) => Submitted(RecoverExpiredSendAttempt(r)) /\ RecoverExpiredSendAttempt(r).attempt = r.attempt
<1>1. CASE CanRequeueExpired(r)
  BY <1>1, AttemptAssumption
  DEF RowInv, Row, NoRow, EmailStatus, SendAttemptState, SentStatus, Submitted, RecoverExpiredSendAttempt, CanRequeueExpired
<1>2. CASE ~CanRequeueExpired(r) /\ CanQuarantineExpired(r)
  <2>1. r.state = "send_started" /\ r.status = "sending"
    BY <1>2 DEF RowInv, CanQuarantineExpired
  <2>2. QED
    BY <1>2, <2>1, AttemptAssumption DEF RowInv, Row, NoRow, EmailStatus, SendAttemptState, SentStatus, Submitted,
       RecoverExpiredSendAttempt
<1>3. CASE ~CanRequeueExpired(r) /\ ~CanQuarantineExpired(r)
  BY <1>3 DEF RecoverExpiredSendAttempt
<1>4. QED
  BY <1>1, <1>2, <1>3

\* MarkQueueRecoveryEnqueued changes nothing but the flag.
LEMMA MarkQueueRecoveryEnqueuedRow ==
    ASSUME NEW r \in Row, NEW acc, RowInv(r, acc), r.recovery
    PROVE  /\ MarkQueueRecoveryEnqueued(r) \in Row
           /\ RowInv(MarkQueueRecoveryEnqueued(r), acc)
           /\ r.status # "absent"
           /\ Submitted(r) => Submitted(MarkQueueRecoveryEnqueued(r)) /\ MarkQueueRecoveryEnqueued(r).attempt = r.attempt
<1>1. r.status # "absent"
  <2>1. NoRow.recovery = FALSE
    BY DEF NoRow
  <2>2. r # NoRow
    BY <2>1, Zenon
  <2>3. QED
    BY <2>2 DEF RowInv
<1>2. QED
  BY <1>1 DEF RowInv, Row, NoRow, EmailStatus, SendAttemptState, SentStatus, Submitted, MarkQueueRecoveryEnqueued

\* A dead letter has no attempt that may have been submitted.
LEMMA MarkDeadLetterFailedRow ==
    ASSUME NEW r \in Row, NEW acc, RowInv(r, acc), CanMarkDeadLetterFailed(r)
    PROVE  /\ MarkDeadLetterFailed(r) \in Row
           /\ RowInv(MarkDeadLetterFailed(r), acc)
           /\ r.status # "absent"
           /\ ~Submitted(r)
BY AttemptAssumption DEF RowInv, Row, NoRow, EmailStatus, SendAttemptState, SentStatus, Submitted,
   CanMarkDeadLetterFailed, MarkDeadLetterFailed

\* A replay starts from no attempt that may have been submitted.
LEMMA PrepareDeadLetterReplayRow ==
    ASSUME NEW r \in Row, NEW acc, NEW a \in Attempts, RowInv(r, acc), CanPrepareDeadLetterReplay(r)
    PROVE  /\ PrepareDeadLetterReplay(r, a) \in Row
           /\ RowInv(PrepareDeadLetterReplay(r, a), acc)
           /\ r.status # "absent"
           /\ ~Submitted(r)
BY AttemptAssumption DEF RowInv, Row, NoRow, EmailStatus, SendAttemptState, SentStatus, Submitted,
   CanPrepareDeadLetterReplay, PrepareDeadLetterReplay

\* Taking a replay back touches no attempt that may have been submitted.
LEMMA CancelDeadLetterReplayRow ==
    ASSUME NEW r \in Row, NEW acc, NEW a \in Attempts, RowInv(r, acc), CanCancelDeadLetterReplay(r, a)
    PROVE  /\ CancelDeadLetterReplay(r) \in Row
           /\ RowInv(CancelDeadLetterReplay(r), acc)
           /\ r.status # "absent"
           /\ ~Submitted(r)
BY AttemptAssumption DEF RowInv, Row, NoRow, EmailStatus, SendAttemptState, SentStatus, Submitted,
   CanCancelDeadLetterReplay, CancelDeadLetterReplay

\* Cancelling touches no attempt that may have been submitted.
LEMMA CancelQueuedRow ==
    ASSUME NEW r \in Row, NEW acc, RowInv(r, acc), CanCancelQueued(r)
    PROVE  /\ CancelQueued(r) \in Row
           /\ RowInv(CancelQueued(r), acc)
           /\ r.status # "absent"
           /\ ~Submitted(r)
BY AttemptAssumption DEF RowInv, Row, NoRow, EmailStatus, SendAttemptState, SentStatus, Submitted,
   CanCancelQueued, CancelQueued

\* The unguarded status write leaves attempt and state alone.
LEMMA UpdateStatusFailedRow ==
    ASSUME NEW r \in Row, NEW acc, RowInv(r, acc)
    PROVE  /\ UpdateStatus(r, "failed") \in Row
           /\ RowInv(UpdateStatus(r, "failed"), acc)
           /\ Submitted(r) => Submitted(UpdateStatus(r, "failed")) /\ UpdateStatus(r, "failed").attempt = r.attempt
BY AttemptAssumption DEF RowInv, Row, NoRow, EmailStatus, SendAttemptState, SentStatus, Submitted,
   UpdateStatus

\* A review that finds the message keeps the attempt.
LEMMA ReconcileAcceptedRow ==
    ASSUME NEW r \in Row, NEW acc, NEW a \in Attempts \cap acc, RowInv(r, acc), CanReconcileAmbiguous(r)
    PROVE  /\ ReconcileAccepted(r, a) \in Row
           /\ RowInv(ReconcileAccepted(r, a), acc)
           /\ r.status # "absent"
           /\ Submitted(r) => Submitted(ReconcileAccepted(r, a)) /\ ReconcileAccepted(r, a).attempt = r.attempt
BY AttemptAssumption DEF RowInv, Row, NoRow, EmailStatus, SendAttemptState, SentStatus, Submitted,
   CanReconcileAmbiguous, ReconcileAccepted

\* A review that finds the attempt failed leaves a well-formed row.
LEMMA ReconcileFailedRow ==
    ASSUME NEW r \in Row, NEW acc, RowInv(r, acc), CanReconcileAmbiguous(r)
    PROVE  /\ ReconcileFailed(r) \in Row
           /\ RowInv(ReconcileFailed(r), acc)
           /\ r.status # "absent"
           /\ ReconcileFailed(r).attempt = r.attempt
BY AttemptAssumption DEF RowInv, Row, NoRow, EmailStatus, SendAttemptState, SentStatus, Submitted,
   CanReconcileAmbiguous, ReconcileFailed

\* Inserting the row.
LEMMA CreateRow ==
    ASSUME NEW acc
    PROVE  /\ Create(NoRow) \in Row
           /\ RowInv(Create(NoRow), acc)
BY AttemptAssumption DEF RowInv, Row, NoRow, EmailStatus, SendAttemptState, SentStatus, Create

\* A provider event keeps the attempt, and keeps it submitted unless it fails it.
LEMMA ApplyProviderEventRow ==
    ASSUME NEW r \in Row, NEW acc, NEW m \in Attempts \cap acc, NEW target \in TargetStatus,
           RowInv(r, acc), CanApplyProviderEvent(r, m)
    PROVE  /\ ApplyProviderEvent(r, m, target) \in Row
           /\ RowInv(ApplyProviderEvent(r, m, target), acc)
           /\ r.status # "absent"
           /\ ApplyProviderEvent(r, m, target).attempt = r.attempt
           /\ Submitted(r) => \/ Submitted(ApplyProviderEvent(r, m, target))
                              \/ target = "failed" /\ ShouldApplyProviderStatus(r.status, target)
<1>1. CASE ShouldApplyProviderStatus(r.status, target)
  <2>1. /\ target # "" /\ r.status # "cancelled"
        /\ target \in SentStatus \cup {"failed"}
    BY <1>1 DEF ShouldApplyProviderStatus, TargetStatus, SentStatus
  <2>2. CASE target = "failed"
    <3>1. ApplyProviderEvent(r, m, target) =
            [r EXCEPT !.pmid = m, !.status = "failed", !.state = "failed_terminal",
                      !.fence = NULL, !.lease = "null", !.recovery = FALSE]
      BY <1>1, <2>2 DEF ApplyProviderEvent
    <3>2. QED
      BY <1>1, <2>2, <3>1, AttemptAssumption DEF RowInv, Row, NoRow, EmailStatus, SendAttemptState,
         SentStatus, CanApplyProviderEvent
  <2>3. CASE target # "failed"
    <3>1. ApplyProviderEvent(r, m, target) =
            [r EXCEPT !.pmid = m, !.status = target, !.state = "accepted",
                      !.fence = NULL, !.lease = "null", !.recovery = FALSE]
      BY <1>1, <2>3 DEF ApplyProviderEvent
    <3>2. target \in SentStatus /\ target \in EmailStatus
      BY <2>1, <2>3 DEF SentStatus, EmailStatus
    <3>3. ApplyProviderEvent(r, m, target) \in Row
      BY <3>1, <3>2 DEF Row, SendAttemptState
    <3>4. LET s == ApplyProviderEvent(r, m, target)
          IN  s.status = target /\ s.pmid = m /\ s.state = "accepted" /\ s.attempt = r.attempt
      BY <3>1 DEF Row
    <3>5. RowInv(ApplyProviderEvent(r, m, target), acc)
      BY <3>2, <3>4, AttemptAssumption DEF RowInv, SentStatus
    <3>6. QED
      BY <3>3, <3>4, <3>5 DEF Submitted, CanApplyProviderEvent
  <2>4. QED
    BY <2>2, <2>3
<1>2. CASE ~ShouldApplyProviderStatus(r.status, target)
  BY <1>2, AttemptAssumption DEF RowInv, Row, NoRow, EmailStatus, SendAttemptState, SentStatus,
     Submitted, CanApplyProviderEvent, ApplyProviderEvent
<1>3. QED
  BY <1>1, <1>2

\* The clock passing a lease.
LEMMA LeaseExpiresRow ==
    ASSUME NEW r \in Row, NEW acc, RowInv(r, acc), r.lease = "live"
    PROVE  /\ [r EXCEPT !.lease = "expired"] \in Row
           /\ RowInv([r EXCEPT !.lease = "expired"], acc)
           /\ r.status # "absent"
           /\ Submitted(r) => /\ Submitted([r EXCEPT !.lease = "expired"])
                              /\ [r EXCEPT !.lease = "expired"].attempt = r.attempt
BY AttemptAssumption DEF RowInv, Row, NoRow, EmailStatus, SendAttemptState, SentStatus, Submitted

-----------------------------------------------------------------------------
(* Steps that write one row.                                               *)

\* A step outside the workers that keeps the submitted attempt of the one row it
\* writes, or voids it, keeps the parts of the invariant about rows and workers.
LEMMA RowWrite ==
    ASSUME IInv, NEW e \in Emails, NEW s \in Row,
           emails' = [emails EXCEPT ![e] = s],
           RowInv(s, accepted[e]),
           \A f \in Emails : voided[f] \subseteq voided'[f],
           \/ Submitted(emails[e]) => Submitted(s) /\ s.attempt = emails[e].attempt
           \/ emails[e].attempt \in voided'[e],
           UNCHANGED <<worker, accepted>>
    PROVE  RowsInv' /\ LiveIsRecorded' /\ WorkersInv' /\ ClaimsUnique'
<1> USE DEF IInv, TypeOK
<1>1. \A f \in Emails : emails'[f] = IF f = e THEN s ELSE emails[f]
  OBVIOUS
<1>2. RowsInv'
  BY <1>1 DEF RowsInv
<1>3. LiveIsRecorded'
  BY <1>1 DEF LiveIsRecorded, LiveSubmissions
<1>4. WorkersInv'
  <2> SUFFICES ASSUME NEW w \in Workers PROVE WorkerInv(w)'
    BY DEF WorkersInv
  <2>1. WorkerInv(w) /\ pc'[w] = pc[w] /\ job'[w] = job[w] /\ claim'[w] = claim[w]
    BY DEF WorkersInv, worker
  <2>2. pc[w] = "send" => job[w] \in Emails
    OBVIOUS
  <2>3. QED
    BY <1>1, <2>1, <2>2 DEF WorkerInv
<1>5. ClaimsUnique'
  BY DEF ClaimsUnique, worker
<1>6. QED
  BY <1>2, <1>3, <1>4, <1>5

\* A step of a worker that moves its pc and may write the row of its email: it
\* keeps the row's submitted attempt, or gives up its own, not submitted.
LEMMA WorkerWrite ==
    ASSUME IInv, NEW w \in Workers, NEW l \in PC, NEW s \in Row,
           pc[w] # "idle",
           emails' = [emails EXCEPT ![job[w]] = s],
           pc' = [pc EXCEPT ![w] = l],
           RowInv(s, accepted[job[w]]),
           emails[job[w]].status = "absent" => s = emails[job[w]],
           \/ Submitted(emails[job[w]]) => Submitted(s) /\ s.attempt = emails[job[w]].attempt
           \/ /\ emails[job[w]].attempt = claim[w] /\ claim[w] # NULL
              /\ pc[w] # "send" /\ claim[w] \notin accepted[job[w]],
           WorkerInv(w)',
           UNCHANGED <<job, claim, used, due, api, replays, handlers, accepted, voided>>
    PROVE  IInv'
<1> USE DEF IInv
<1>0. job[w] \in Emails
  BY DEF TypeOK
<1>1. \A f \in Emails : emails'[f] = IF f = job[w] THEN s ELSE emails[f]
  BY DEF TypeOK
<1>2. TypeOK'
  BY <1>0 DEF TypeOK
<1>3. RowsInv'
  BY <1>1 DEF RowsInv
<1>4. LiveIsRecorded'
  BY <1>1 DEF LiveIsRecorded, LiveSubmissions
<1>5. WorkersInv'
  <2> SUFFICES ASSUME NEW v \in Workers, v # w PROVE WorkerInv(v)'
    BY DEF WorkersInv
  <2>1. WorkerInv(v) /\ pc'[v] = pc[v]
    BY DEF WorkersInv, TypeOK
  <2>2. pc[v] = "send" => job[v] \in Emails /\ claim[v] # NULL
    BY <2>1 DEF TypeOK, WorkerInv
  <2>3. claim[v] = claim[w] => claim[v] = NULL
    BY DEF ClaimsUnique
  <2>4. QED
    BY <1>1, <2>1, <2>2, <2>3 DEF WorkerInv
<1>6. ClaimsUnique' /\ DrawnIsUsed' /\ HandlersInv'
  BY DEF ClaimsUnique, DrawnIsUsed, HandlersInv
<1>7. NewIsAbsent'
  BY <1>1 DEF NewIsAbsent
<1>8. QED
  BY <1>2, <1>3, <1>4, <1>5, <1>6, <1>7

\* A step of a worker that moves only its pc.
LEMMA WorkerMove ==
    ASSUME IInv, NEW w \in Workers, NEW l \in PC,
           pc[w] # "idle",
           pc' = [pc EXCEPT ![w] = l],
           WorkerInv(w)',
           UNCHANGED <<emails, job, claim, used, due, api, replays, handlers, accepted, voided>>
    PROVE  IInv'
<1>1. job[w] \in Emails /\ emails[job[w]] \in Row /\ RowInv(emails[job[w]], accepted[job[w]])
  BY DEF IInv, TypeOK, RowsInv
<1>2. emails' = [emails EXCEPT ![job[w]] = emails[job[w]]]
  BY <1>1 DEF IInv, TypeOK
<1>3. QED
  BY <1>1, <1>2, WorkerWrite

\* A worker that lets go of its receipt, or dies, having written its row or not.
LEMMA WorkerRest ==
    ASSUME IInv, NEW w \in Workers, NEW s \in Row,
           pc[w] # "idle",
           emails' = [emails EXCEPT ![job[w]] = s],
           Rest(w),
           RowInv(s, accepted[job[w]]),
           emails[job[w]].status = "absent" => s = emails[job[w]],
           Submitted(emails[job[w]]) => Submitted(s) /\ s.attempt = emails[job[w]].attempt,
           UNCHANGED <<used, due, api, replays, handlers, accepted, voided>>
    PROVE  IInv'
<1> USE DEF IInv
<1>0. job[w] \in Emails
  BY DEF TypeOK
<1>1. \A f \in Emails : emails'[f] = IF f = job[w] THEN s ELSE emails[f]
  BY DEF TypeOK
<1>2. /\ pc'[w] = "idle" /\ claim'[w] = NULL
      /\ \A v \in Workers \ {w} : pc'[v] = pc[v] /\ job'[v] = job[v] /\ claim'[v] = claim[v]
  BY DEF TypeOK, Rest, Goto
<1>3. TypeOK'
  BY <1>0 DEF TypeOK, Rest, Goto, PC
<1>4. RowsInv' /\ LiveIsRecorded'
  BY <1>1 DEF RowsInv, LiveIsRecorded, LiveSubmissions
<1>5. WorkersInv'
  <2> SUFFICES ASSUME NEW v \in Workers PROVE WorkerInv(v)'
    BY DEF WorkersInv
  <2>1. CASE v = w
    BY <1>2, <2>1 DEF WorkerInv
  <2>2. CASE v # w
    <3>1. WorkerInv(v) /\ (pc[v] = "send" => job[v] \in Emails)
      BY DEF WorkersInv, TypeOK
    <3>2. QED
      BY <1>1, <1>2, <2>2, <3>1 DEF WorkerInv
  <2>3. QED
    BY <2>1, <2>2
<1>6. ClaimsUnique' /\ DrawnIsUsed' /\ HandlersInv'
  BY <1>2 DEF ClaimsUnique, DrawnIsUsed, HandlersInv
<1>7. NewIsAbsent'
  BY <1>1 DEF NewIsAbsent
<1>8. QED
  BY <1>3, <1>4, <1>5, <1>6, <1>7

-----------------------------------------------------------------------------
(* The worker's actions.                                                   *)

\* What a busy worker can rely on.
LEMMA BusyWorker ==
    ASSUME IInv, NEW w \in Workers, pc[w] # "idle"
    PROVE  /\ job[w] \in Emails
           /\ emails[job[w]] \in Row
           /\ RowInv(emails[job[w]], accepted[job[w]])
           /\ claim[w] \in Attempts \cup {NULL}
           /\ WorkerInv(w)
           /\ \A l : pc' = [pc EXCEPT ![w] = l] => pc'[w] = l
BY DEF IInv, TypeOK, RowsInv, WorkersInv

\* A step that leads to a label at which a worker knows nothing.
LEMMA NoDuty ==
    ASSUME NEW w \in Workers, pc'[w] \in {"ack", "requeue", "unknown", "dead", "reschedule", "read"}
    PROVE  WorkerInv(w)'
BY DEF WorkerInv

\* Looking the email up changes no row.
LEMMA ReadInv ==
    ASSUME IInv, NEW w \in Workers, NEW e \in Emails, Read(w, e)
    PROVE  IInv'
<1> USE DEF IInv, Read
<1>1. PICK l \in {"requeue", "ack", "reschedule", "read"} : Goto(w, l)
  OBVIOUS
<1>2. /\ pc' = [pc EXCEPT ![w] = l]
      /\ \A v \in Workers \ {w} : pc'[v] = pc[v] /\ job'[v] = job[v]
      /\ pc'[w] = l /\ job'[w] = e
  BY <1>1 DEF TypeOK, Goto
<1>3. TypeOK'
  BY <1>2 DEF TypeOK, PC
<1>4. RowsInv' /\ LiveIsRecorded' /\ ClaimsUnique' /\ DrawnIsUsed' /\ HandlersInv' /\ NewIsAbsent'
  BY DEF RowsInv, LiveIsRecorded, LiveSubmissions, ClaimsUnique, DrawnIsUsed, HandlersInv, NewIsAbsent
<1>5. WorkersInv'
  <2> SUFFICES ASSUME NEW v \in Workers PROVE WorkerInv(v)'
    BY DEF WorkersInv
  <2>1. CASE v = w
    BY <1>2, <2>1, NoDuty
  <2>2. CASE v # w
    BY <1>2, <2>2 DEF WorkersInv, WorkerInv
  <2>3. QED
    BY <2>1, <2>2
<1>6. QED
  BY <1>3, <1>4, <1>5

\* A claim draws an attempt nobody has, on a row with no submission that counts.
LEMMA ClaimInv ==
    ASSUME IInv, NEW w \in Workers, Claim(w)
    PROVE  IInv'
<1>0. pc[w] = "read"
  BY DEF Claim
<1>1. CASE UNCHANGED <<emails, used, claim>>
  <2>1. PICK l \in {"ack", "requeue"} : Goto(w, l)
    BY <1>1 DEF Claim
  <2>2. pc'[w] = l /\ pc' = [pc EXCEPT ![w] = l]
    BY <2>1, <1>0, BusyWorker DEF Goto
  <2>3. WorkerInv(w)'
    BY <2>2, NoDuty
  <2>4. QED
    BY <1>0, <1>1, <2>2, <2>3, WorkerMove DEF Claim, PC
<1>2. CASE CanClaimSendAttempt(emails[job[w]]) /\ ~UNCHANGED <<emails, used, claim>>
  <2> DEFINE e == job[w]
  <2>1. PICK a \in Attempts \ used :
           /\ emails' = [emails EXCEPT ![e] = ClaimSendAttempt(emails[e], a)]
           /\ used' = used \cup {a}
           /\ claim' = [claim EXCEPT ![w] = a]
    BY <1>2 DEF Claim, Write
  <2>2. PICK l \in {"claimed", "requeue"} : pc' = [pc EXCEPT ![w] = l]
    BY <1>2 DEF Claim, Goto
  <2>3. UNCHANGED <<job, due, api, replays, handlers, accepted, voided>>
    BY DEF Claim
  <2>4. e \in Emails /\ emails[e] \in Row /\ RowInv(emails[e], accepted[e])
    BY <1>0, BusyWorker
  <2>5. /\ ClaimSendAttempt(emails[e], a) \in Row
        /\ RowInv(ClaimSendAttempt(emails[e], a), accepted[e])
        /\ emails[e].status # "absent"
        /\ ~Submitted(emails[e])
    BY <1>2, <2>4, ClaimSendAttemptRow
  <2>6. \A f \in Emails : emails'[f] = IF f = e THEN ClaimSendAttempt(emails[e], a) ELSE emails[f]
    BY <2>1, <2>4 DEF IInv, TypeOK
  <2>7. /\ pc'[w] = l /\ claim'[w] = a
        /\ \A v \in Workers \ {w} : pc'[v] = pc[v] /\ claim'[v] = claim[v]
    BY <2>1, <2>2 DEF IInv, TypeOK
  <2>8. TypeOK'
    BY <2>1, <2>2, <2>3, <2>4, <2>5 DEF IInv, TypeOK, PC
  <2>9. RowsInv'
    BY <2>3, <2>5, <2>6 DEF IInv, RowsInv
  <2>10. LiveIsRecorded'
    BY <2>3, <2>5, <2>6 DEF IInv, LiveIsRecorded, LiveSubmissions
  <2>11. WorkersInv'
    <3> SUFFICES ASSUME NEW v \in Workers PROVE WorkerInv(v)'
      BY DEF WorkersInv
    <3>1. CASE v = w
      <4>1. a # NULL /\ a \notin accepted[e]
        BY <2>4, AttemptAssumption DEF IInv, DrawnIsUsed
      <4>2. QED
        BY <2>2, <2>3, <2>7, <3>1, <4>1 DEF WorkerInv
    <3>2. CASE v # w
      <4>1. WorkerInv(v) /\ (pc[v] = "send" => job[v] \in Emails)
        BY DEF IInv, WorkersInv, TypeOK
      <4>2. QED
        BY <2>3, <2>5, <2>6, <2>7, <3>2, <4>1 DEF WorkerInv
    <3>3. QED
      BY <3>1, <3>2
  <2>12. ClaimsUnique' /\ DrawnIsUsed' /\ HandlersInv'
    BY <2>1, <2>3, <2>7 DEF IInv, ClaimsUnique, DrawnIsUsed, HandlersInv
  <2>13. NewIsAbsent'
    BY <2>3, <2>5, <2>6 DEF IInv, NewIsAbsent
  <2>14. QED
    BY <2>8, <2>9, <2>10, <2>11, <2>12, <2>13 DEF IInv
<1>3. QED
  BY <1>1, <1>2 DEF Claim

\* The suppression check writes nothing.
LEMMA CheckRecipientSuppressionInv ==
    ASSUME IInv, NEW w \in Workers, CheckRecipientSuppression(w)
    PROVE  IInv'
<1>1. PICK l \in {"cleared", "suppressed", "release"} : pc' = [pc EXCEPT ![w] = l]
  BY DEF CheckRecipientSuppression, Goto
<1>2. pc[w] = "claimed" /\ pc'[w] = l /\ WorkerInv(w)
  BY <1>1, BusyWorker DEF CheckRecipientSuppression
<1>3. WorkerInv(w)'
  BY <1>1, <1>2 DEF WorkerInv, CheckRecipientSuppression
<1>4. QED
  BY <1>1, <1>2, <1>3, WorkerMove DEF CheckRecipientSuppression, PC

\* The provider call: the one step that adds a submission.  The row already names it.
LEMMA SendInv ==
    ASSUME IInv, NEW w \in Workers, Send(w)
    PROVE  IInv'
<1>0. /\ pc[w] = "send" /\ job[w] \in Emails /\ WorkerInv(w) /\ claim[w] \in Attempts
      /\ claim[w] \in used
  BY BusyWorker DEF Send, WorkerInv, IInv, DrawnIsUsed
<1>1. CASE UNCHANGED accepted
  <2>1. PICK l \in {"accepted", "unknown", "release", "rejected"} :
           pc' = [pc EXCEPT ![w] = l] /\ (l = "accepted" => claim[w] \in accepted'[job[w]])
    BY <1>0 DEF Send, Goto, IInv, TypeOK
  <2>2. WorkerInv(w)'
    BY <1>0, <1>1, <2>1 DEF WorkerInv, Send, IInv, TypeOK
  <2>3. QED
    BY <1>0, <1>1, <2>1, <2>2, WorkerMove DEF Send, PC
<1>2. CASE accepted' = [accepted EXCEPT ![job[w]] = @ \cup {claim[w]}]
  <2>1. PICK l \in {"accepted", "unknown", "release", "rejected"} : pc' = [pc EXCEPT ![w] = l]
    BY DEF Send, Goto
  <2>2. UNCHANGED <<emails, job, claim, used, due, api, replays, handlers, voided>>
    BY DEF Send
  <2>3. \A f \in Emails : accepted'[f] = IF f = job[w] THEN accepted[f] \cup {claim[w]} ELSE accepted[f]
    BY <1>0, <1>2 DEF IInv, TypeOK
  <2>4. TypeOK'
    BY <1>0, <1>2, <2>1, <2>2 DEF IInv, TypeOK, PC
  <2>5. RowsInv'
    BY <2>2, <2>3 DEF IInv, RowsInv, RowInv
  <2>6. LiveIsRecorded'
    <3> SUFFICES ASSUME NEW f \in Emails, NEW a \in accepted'[f], a \notin voided[f]
                 PROVE  emails[f].attempt = a /\ Submitted(emails[f])
      BY <2>2 DEF LiveIsRecorded, LiveSubmissions, Submitted
    <3>1. CASE a \in accepted[f]
      BY <3>1 DEF IInv, LiveIsRecorded, LiveSubmissions
    <3>2. CASE f = job[w] /\ a = claim[w]
      BY <1>0, <3>2 DEF WorkerInv
    <3>3. QED
      BY <2>3, <3>1, <3>2
  <2>7. WorkersInv'
    <3> SUFFICES ASSUME NEW v \in Workers PROVE WorkerInv(v)'
      BY DEF WorkersInv
    <3>1. CASE v = w
      <4>1. pc'[w] \in {"accepted", "unknown"}
        BY <1>0, <2>1, <2>3 DEF Send, Goto, IInv, TypeOK, WorkerInv
      <4>2. claim'[w] # NULL /\ claim'[w] \in accepted'[job'[w]]
        BY <1>0, <2>2, <2>3, AttemptAssumption
      <4>3. QED
        BY <3>1, <4>1, <4>2 DEF WorkerInv
    <3>2. CASE v # w
      <4>1. /\ WorkerInv(v) /\ pc'[v] = pc[v] /\ (pc[v] # "idle" => job[v] \in Emails)
            /\ claim[v] # claim[w]
        BY <1>0, <2>1, <3>2, AttemptAssumption DEF IInv, WorkersInv, TypeOK, ClaimsUnique
      <4>2. QED
        BY <2>2, <2>3, <4>1 DEF WorkerInv
    <3>3. QED
      BY <3>1, <3>2
  <2>8. ClaimsUnique' /\ NewIsAbsent'
    BY <2>2 DEF IInv, ClaimsUnique, NewIsAbsent
  <2>9. DrawnIsUsed' /\ HandlersInv'
    <3>1. \A f \in Emails : accepted[f] \subseteq accepted'[f] /\ accepted'[f] \subseteq accepted[f] \cup {claim[w]}
      BY <2>3
    <3>2. HandlersInv'
      BY <2>2, <3>1 DEF IInv, HandlersInv
    <3>3. DrawnIsUsed'
      BY <1>0, <2>2, <3>1 DEF IInv, DrawnIsUsed
    <3>4. QED
      BY <3>2, <3>3
  <2>10. QED
    BY <2>4, <2>5, <2>6, <2>7, <2>8, <2>9 DEF IInv
<1>3. QED
  BY <1>1, <1>2 DEF Send

\* The row says "send_started" before its worker may call the provider.
LEMMA MarkStartedInv ==
    ASSUME IInv, NEW w \in Workers, MarkStarted(w)
    PROVE  IInv'
<1>1. /\ pc[w] = "cleared" /\ WorkerInv(w)
      /\ job[w] \in Emails /\ emails[job[w]] \in Row
      /\ RowInv(emails[job[w]], accepted[job[w]]) /\ claim[w] \in Attempts \cup {NULL}
  BY BusyWorker DEF MarkStarted, WorkerInv
<1>2. CASE UNCHANGED emails /\ \E l \in {"ack", "requeue"} : Goto(w, l)
  <2>1. PICK l \in {"ack", "requeue"} : pc' = [pc EXCEPT ![w] = l]
    BY <1>2 DEF Goto
  <2>2. WorkerInv(w)'
    BY <1>1, <2>1, BusyWorker, NoDuty
  <2>3. QED
    BY <1>1, <1>2, <2>1, <2>2, WorkerMove DEF MarkStarted, PC
<1>3. CASE /\ CanMarkSendStarted(emails[job[w]], claim[w])
           /\ Write(w, MarkSendStarted(emails[job[w]], claim[w]))
           /\ \E l \in {"send", "requeue"} : Goto(w, l)
  <2> DEFINE s == MarkSendStarted(emails[job[w]], claim[w])
  <2>1. emails' = [emails EXCEPT ![job[w]] = s]
    BY <1>3 DEF Write
  <2>2. PICK l \in {"send", "requeue"} : pc' = [pc EXCEPT ![w] = l]
    BY <1>3 DEF Goto
  <2>3. pc'[w] = l
    BY <1>1, <2>2, BusyWorker
  <2>4. /\ s \in Row /\ RowInv(s, accepted[job[w]])
        /\ emails[job[w]].status # "absent"
        /\ ~Submitted(emails[job[w]]) /\ Submitted(s) /\ s.attempt = claim[w]
    BY <1>1, <1>3, MarkSendStartedRow
  <2>5. WorkerInv(w)'
    BY <1>1, <2>1, <2>2, <2>3, <2>4 DEF WorkerInv, MarkStarted, IInv, TypeOK
  <2>6. l \in PC
    BY <2>2 DEF PC
  <2> HIDE DEF s
  <2>7. QED
    BY <1>1, <2>1, <2>2, <2>4, <2>5, <2>6, WorkerWrite DEF MarkStarted
<1>4. QED
  BY <1>2, <1>3 DEF MarkStarted

\* Storing the message ID, retried after a lost reply or given up.
LEMMA PersistAcceptedInv ==
    ASSUME IInv, NEW w \in Workers, PersistAccepted(w)
    PROVE  IInv'
<1>1. /\ pc[w] = "accepted" /\ WorkerInv(w) /\ claim[w] # NULL /\ claim[w] \in accepted[job[w]]
      /\ job[w] \in Emails /\ emails[job[w]] \in Row
      /\ RowInv(emails[job[w]], accepted[job[w]]) /\ claim[w] \in Attempts \cup {NULL}
  BY BusyWorker DEF PersistAccepted, WorkerInv
<1>2. CASE UNCHANGED emails /\ \E l \in {"unknown"} : Goto(w, l)
  <2>1. PICK l \in {"unknown"} : pc' = [pc EXCEPT ![w] = l]
    BY <1>2 DEF Goto
  <2>2. WorkerInv(w)'
    BY <1>1, <2>1, BusyWorker, NoDuty
  <2>3. QED
    BY <1>1, <1>2, <2>1, <2>2, WorkerMove DEF PersistAccepted, PC
<1>3. CASE /\ CanFinalizeAccepted(emails[job[w]], claim[w])
           /\ Write(w, FinalizeAccepted(emails[job[w]], claim[w]))
           /\ \E l \in {"ack", "accepted", "unknown"} : Goto(w, l)
  <2> DEFINE s == FinalizeAccepted(emails[job[w]], claim[w])
  <2>1. emails' = [emails EXCEPT ![job[w]] = s]
    BY <1>3 DEF Write
  <2>2. PICK l \in {"ack", "accepted", "unknown"} : pc' = [pc EXCEPT ![w] = l]
    BY <1>3 DEF Goto
  <2>3. pc'[w] = l
    BY <1>1, <2>2, BusyWorker
  <2>4. /\ s \in Row /\ RowInv(s, accepted[job[w]])
        /\ emails[job[w]].status # "absent"
        /\ Submitted(emails[job[w]]) => Submitted(s) /\ s.attempt = emails[job[w]].attempt
    BY <1>1, <1>3, FinalizeAcceptedRow
  <2>5. WorkerInv(w)'
    BY <1>1, <2>2, <2>3 DEF WorkerInv, PersistAccepted
  <2>6. l \in PC
    BY <2>2 DEF PC
  <2> HIDE DEF s
  <2>7. QED
    BY <1>1, <2>1, <2>2, <2>4, <2>5, <2>6, WorkerWrite DEF PersistAccepted
<1>4. QED
  BY <1>2, <1>3 DEF PersistAccepted

\* Storing that the outcome is unknown.
LEMMA PersistUnknownInv ==
    ASSUME IInv, NEW w \in Workers, PersistUnknown(w)
    PROVE  IInv'
<1>1. /\ pc[w] = "unknown" /\ WorkerInv(w)
      /\ job[w] \in Emails /\ emails[job[w]] \in Row
      /\ RowInv(emails[job[w]], accepted[job[w]]) /\ claim[w] \in Attempts \cup {NULL}
  BY BusyWorker DEF PersistUnknown, WorkerInv
<1>2. CASE UNCHANGED emails /\ \E l \in {"ack"} : Goto(w, l)
  <2>1. PICK l \in {"ack"} : pc' = [pc EXCEPT ![w] = l]
    BY <1>2 DEF Goto
  <2>2. WorkerInv(w)'
    BY <1>1, <2>1, BusyWorker, NoDuty
  <2>3. QED
    BY <1>1, <1>2, <2>1, <2>2, WorkerMove DEF PersistUnknown, PC
<1>3. CASE /\ CanFinalizeAmbiguous(emails[job[w]], claim[w])
           /\ Write(w, FinalizeAmbiguous(emails[job[w]], claim[w]))
           /\ \E l \in {"ack"} : Goto(w, l)
  <2> DEFINE s == FinalizeAmbiguous(emails[job[w]], claim[w])
  <2>1. emails' = [emails EXCEPT ![job[w]] = s]
    BY <1>3 DEF Write
  <2>2. PICK l \in {"ack"} : pc' = [pc EXCEPT ![w] = l]
    BY <1>3 DEF Goto
  <2>3. pc'[w] = l
    BY <1>1, <2>2, BusyWorker
  <2>4. /\ s \in Row /\ RowInv(s, accepted[job[w]])
        /\ emails[job[w]].status # "absent"
        /\ Submitted(emails[job[w]]) => Submitted(s) /\ s.attempt = emails[job[w]].attempt
    BY <1>1, <1>3, FinalizeAmbiguousRow
  <2>5. WorkerInv(w)'
    BY <2>3, NoDuty
  <2>6. l \in PC
    BY <2>2 DEF PC
  <2> HIDE DEF s
  <2>7. QED
    BY <1>1, <2>1, <2>2, <2>4, <2>5, <2>6, WorkerWrite DEF PersistUnknown
<1>4. QED
  BY <1>2, <1>3 DEF PersistUnknown

\* Releasing an attempt the provider did not take.
LEMMA PersistRetryableInv ==
    ASSUME IInv, NEW w \in Workers, PersistRetryable(w)
    PROVE  IInv'
<1>1. /\ pc[w] = "release" /\ WorkerInv(w) /\ claim[w] # NULL /\ claim[w] \notin accepted[job[w]]
      /\ job[w] \in Emails /\ emails[job[w]] \in Row
      /\ RowInv(emails[job[w]], accepted[job[w]]) /\ claim[w] \in Attempts \cup {NULL}
  BY BusyWorker DEF PersistRetryable, WorkerInv
<1>2. CASE UNCHANGED emails /\ \E l \in {"ack", "requeue"} : Goto(w, l)
  <2>1. PICK l \in {"ack", "requeue"} : pc' = [pc EXCEPT ![w] = l]
    BY <1>2 DEF Goto
  <2>2. WorkerInv(w)'
    BY <1>1, <2>1, BusyWorker, NoDuty
  <2>3. QED
    BY <1>1, <1>2, <2>1, <2>2, WorkerMove DEF PersistRetryable, PC
<1>3. CASE /\ CanMarkSendRetryable(emails[job[w]], claim[w])
           /\ Write(w, MarkSendRetryable(emails[job[w]], claim[w]))
           /\ \E l \in {"requeue"} : Goto(w, l)
  <2> DEFINE s == MarkSendRetryable(emails[job[w]], claim[w])
  <2>1. emails' = [emails EXCEPT ![job[w]] = s]
    BY <1>3 DEF Write
  <2>2. PICK l \in {"requeue"} : pc' = [pc EXCEPT ![w] = l]
    BY <1>3 DEF Goto
  <2>3. pc'[w] = l
    BY <1>1, <2>2, BusyWorker
  <2>4. /\ s \in Row /\ RowInv(s, accepted[job[w]])
        /\ emails[job[w]].status # "absent"
        /\ emails[job[w]].attempt = claim[w]
    BY <1>1, <1>3, MarkSendRetryableRow
  <2>5. WorkerInv(w)'
    BY <2>3, NoDuty
  <2>6. l \in PC
    BY <2>2 DEF PC
  <2> HIDE DEF s
  <2>7. QED
    BY <1>1, <2>1, <2>2, <2>4, <2>5, <2>6, WorkerWrite DEF PersistRetryable
<1>4. QED
  BY <1>2, <1>3 DEF PersistRetryable

\* Failing an attempt the provider did not take.
LEMMA PersistFailedInv ==
    ASSUME IInv, NEW w \in Workers, PersistFailed(w)
    PROVE  IInv'
<1>1. /\ pc[w] \in {"suppressed", "rejected"} /\ WorkerInv(w) /\ claim[w] # NULL /\ claim[w] \notin accepted[job[w]]
      /\ job[w] \in Emails /\ emails[job[w]] \in Row
      /\ RowInv(emails[job[w]], accepted[job[w]]) /\ claim[w] \in Attempts \cup {NULL}
  BY BusyWorker DEF PersistFailed, WorkerInv
<1>2. CASE UNCHANGED emails /\ \E l \in {"ack", "requeue"} : Goto(w, l)
  <2>1. PICK l \in {"ack", "requeue"} : pc' = [pc EXCEPT ![w] = l]
    BY <1>2 DEF Goto
  <2>2. WorkerInv(w)'
    BY <1>1, <2>1, BusyWorker, NoDuty
  <2>3. QED
    BY <1>1, <1>2, <2>1, <2>2, WorkerMove DEF PersistFailed, PC
<1>3. CASE /\ CanFinalizeFailed(emails[job[w]], claim[w])
           /\ Write(w, FinalizeFailed(emails[job[w]], claim[w]))
           /\ \E l \in {"ack", "requeue"} : Goto(w, l)
  <2> DEFINE s == FinalizeFailed(emails[job[w]], claim[w])
  <2>1. emails' = [emails EXCEPT ![job[w]] = s]
    BY <1>3 DEF Write
  <2>2. PICK l \in {"ack", "requeue"} : pc' = [pc EXCEPT ![w] = l]
    BY <1>3 DEF Goto
  <2>3. pc'[w] = l
    BY <1>1, <2>2, BusyWorker
  <2>4. /\ s \in Row /\ RowInv(s, accepted[job[w]])
        /\ emails[job[w]].status # "absent"
        /\ emails[job[w]].attempt = claim[w]
    BY <1>1, <1>3, FinalizeFailedRow
  <2>5. WorkerInv(w)'
    BY <2>3, NoDuty
  <2>6. l \in PC
    BY <2>2 DEF PC
  <2> HIDE DEF s
  <2>7. QED
    BY <1>1, <2>1, <2>2, <2>4, <2>5, <2>6, WorkerWrite DEF PersistFailed
<1>4. QED
  BY <1>2, <1>3 DEF PersistFailed

\* Ack, Requeue, RescheduleReceipt and a crash.
LEMMA LetGoInv ==
    ASSUME IInv, NEW w \in Workers, Settle(w) \/ Crash(w)
    PROVE  IInv'
<1>1. pc[w] # "idle" /\ Rest(w) /\ UNCHANGED <<emails, used, due, api, replays, handlers, accepted, voided>>
  BY DEF Settle, Crash
<1>2. job[w] \in Emails /\ emails[job[w]] \in Row /\ RowInv(emails[job[w]], accepted[job[w]])
  BY <1>1, BusyWorker
<1>3. emails' = [emails EXCEPT ![job[w]] = emails[job[w]]]
  BY <1>1, <1>2 DEF IInv, TypeOK
<1>4. QED
  BY <1>1, <1>2, <1>3, WorkerRest

\* Reaching the retry limit writes no row.
LEMMA DeadLetterInv ==
    ASSUME IInv, NEW w \in Workers, DeadLetter(w)
    PROVE  IInv'
<1>1. pc[w] = "requeue" /\ pc' = [pc EXCEPT ![w] = "dead"]
  BY DEF DeadLetter, Goto
<1>2. WorkerInv(w)'
  BY <1>1, BusyWorker, NoDuty
<1>3. QED
  BY <1>1, <1>2, WorkerMove DEF DeadLetter, PC

\* Failing the row of a dead letter.
LEMMA MarkFailedFromQueueInv ==
    ASSUME IInv, NEW w \in Workers, MarkFailedFromQueue(w)
    PROVE  IInv'
<1>1. pc[w] = "dead" /\ Rest(w) /\ UNCHANGED <<used, due, api, replays, handlers, accepted, voided>>
  BY DEF MarkFailedFromQueue
<1>2. job[w] \in Emails /\ emails[job[w]] \in Row /\ RowInv(emails[job[w]], accepted[job[w]])
  BY <1>1, BusyWorker
<1>3. CASE UNCHANGED emails
  <2>1. emails' = [emails EXCEPT ![job[w]] = emails[job[w]]]
    BY <1>2, <1>3 DEF IInv, TypeOK
  <2>2. QED
    BY <1>1, <1>2, <2>1, WorkerRest
<1>4. CASE /\ CanMarkDeadLetterFailed(emails[job[w]])
           /\ emails' = [emails EXCEPT ![job[w]] = MarkDeadLetterFailed(emails[job[w]])]
  BY <1>1, <1>2, <1>4, MarkDeadLetterFailedRow, WorkerRest
<1>5. QED
  BY <1>3, <1>4 DEF MarkFailedFromQueue, Write

\* Every step of a worker keeps the invariant.
LEMMA WorkerStepInv ==
    ASSUME IInv, NEW w \in Workers, WorkerStep(w)
    PROVE  IInv'
BY ReadInv, ClaimInv, CheckRecipientSuppressionInv, MarkStartedInv, SendInv, PersistAcceptedInv,
   PersistUnknownInv, PersistRetryableInv, PersistFailedInv, LetGoInv, DeadLetterInv,
   MarkFailedFromQueueInv DEF WorkerStep

-----------------------------------------------------------------------------
(* The actions of the API, the clock, operators and provider events.       *)

\* Every step of the API, an operator, a lease or an event handler keeps the invariant.
LEMMA RowStepInv ==
    ASSUME IInv, NEW e \in Emails, RowStep(e)
    PROVE  IInv'
<1>0. /\ emails[e] \in Row /\ RowInv(emails[e], accepted[e]) /\ handlers[e] \subseteq accepted[e]
      /\ accepted[e] \subseteq Attempts
  BY DEF IInv, TypeOK, RowsInv, HandlersInv
<1>w. /\ UNCHANGED worker => pc' = pc /\ job' = job /\ claim' = claim
  BY DEF worker
<1>v. ASSUME NEW s \in Row, emails' = [emails EXCEPT ![e] = s], RowInv(s, accepted[e]),
             \/ Submitted(emails[e]) => Submitted(s) /\ s.attempt = emails[e].attempt
             \/ emails[e].attempt \in voided'[e],
             voided' \in [Emails -> SUBSET (Attempts \cup {NULL})],
             \A f \in Emails : voided[f] \subseteq voided'[f],
             handlers' \in [Emails -> SUBSET Attempts],
             \A f \in Emails : handlers'[f] \subseteq handlers[f],
             UNCHANGED <<worker, accepted>>,
             used' \in SUBSET Attempts, used \subseteq used', due' = due,
             replays' \in [Emails -> SUBSET Attempts],
             api' \in [Emails -> {"new", "created", "returned"}],
             \A f \in Emails : api'[f] = "new" => api[f] = "new" /\ (f = e => emails[e].status # "absent")
      PROVE  IInv'
  <2>1. RowsInv' /\ LiveIsRecorded' /\ WorkersInv' /\ ClaimsUnique'
    BY <1>v, RowWrite
  <2>2. TypeOK'
    BY <1>v, <1>w DEF IInv, TypeOK
  <2>3. DrawnIsUsed' /\ HandlersInv'
    BY <1>v, <1>w DEF IInv, DrawnIsUsed, HandlersInv
  <2>4. NewIsAbsent'
    BY <1>v DEF IInv, NewIsAbsent, TypeOK
  <2>5. QED
    BY <2>1, <2>2, <2>3, <2>4 DEF IInv
<1>r. ASSUME NEW s \in Row, emails' = [emails EXCEPT ![e] = s], RowInv(s, accepted[e]),
             Submitted(emails[e]) => Submitted(s) /\ s.attempt = emails[e].attempt,
             UNCHANGED <<worker, handlers, accepted, voided>>,
             used' \in SUBSET Attempts, used \subseteq used', due' = due,
             replays' \in [Emails -> SUBSET Attempts],
             api' \in [Emails -> {"new", "created", "returned"}],
             \A f \in Emails : api'[f] = "new" => api[f] = "new" /\ (f = e => emails[e].status # "absent")
      PROVE  IInv'
  BY <1>r, <1>v DEF IInv, TypeOK
<1>u. ASSUME UNCHANGED <<emails, worker, used, accepted, voided>>,
             due' \in SUBSET Emails,
             replays' \in [Emails -> SUBSET Attempts],
             handlers' \in [Emails -> SUBSET Attempts], HandlersInv',
             api' \in [Emails -> {"new", "created", "returned"}],
             \A f \in Emails : api'[f] = "new" => api[f] = "new"
      PROVE  IInv'
  BY <1>u, <1>w DEF IInv, TypeOK, RowsInv, LiveIsRecorded, LiveSubmissions, WorkersInv, WorkerInv,
     ClaimsUnique, DrawnIsUsed, NewIsAbsent
<1>1. CASE ApiCreate(e)
  <2>1. emails[e] = NoRow
    BY <1>0, <1>1 DEF ApiCreate, IInv, NewIsAbsent, RowInv
  <2>2. ~Submitted(emails[e])
    BY <2>1 DEF Submitted, NoRow
  <2>3. api' \in [Emails -> {"new", "created", "returned"}] /\ api'[e] = "created"
        /\ \A f \in Emails : f # e => api'[f] = api[f]
    BY <1>1 DEF ApiCreate, IInv, TypeOK
  <2>4. QED
    BY <1>1, <1>r, <2>1, <2>2, <2>3, CreateRow DEF ApiCreate, IInv, TypeOK
<1>2. CASE ApiReturn(e)
  <2>1. api' \in [Emails -> {"new", "created", "returned"}] /\ api'[e] = "returned"
        /\ \A f \in Emails : f # e => api'[f] = api[f]
    BY <1>2 DEF ApiReturn, IInv, TypeOK
  <2>2. HandlersInv'
    BY <1>2 DEF ApiReturn, IInv, HandlersInv
  <2>3. QED
    BY <1>2, <1>u, <2>1, <2>2 DEF ApiReturn, IInv, TypeOK
<1>3. CASE ApiQueueFailed(e)
  <2>1. api' \in [Emails -> {"new", "created", "returned"}] /\ api'[e] = "returned"
        /\ \A f \in Emails : f # e => api'[f] = api[f]
    BY <1>3 DEF ApiQueueFailed, IInv, TypeOK
  <2>2. QED
    BY <1>0, <1>3, <1>r, <2>1, UpdateStatusFailedRow DEF ApiQueueFailed, IInv, TypeOK
<1>4. CASE BecomesDue(e)
  BY <1>4, <1>u DEF BecomesDue, IInv, TypeOK, HandlersInv
<1>5. CASE Cancel(e)
  BY <1>0, <1>5, <1>r, CancelQueuedRow DEF Cancel, IInv, TypeOK
<1>6. CASE LeaseExpires(e)
  <2>1. emails' = [emails EXCEPT ![e] = [emails[e] EXCEPT !.lease = "expired"]]
    BY <1>6 DEF LeaseExpires
  <2>2. QED
    BY <1>0, <1>6, <1>r, <2>1, LeaseExpiresRow DEF LeaseExpires, IInv, TypeOK
<1>7. CASE QueueRecoveryDone(e)
  BY <1>0, <1>7, <1>r, MarkQueueRecoveryEnqueuedRow DEF QueueRecoveryDone, IInv, TypeOK
<1>8. CASE ReplayPrepare(e)
  <2>1. PICK t \in Attempts \ used :
           /\ emails' = [emails EXCEPT ![e] = PrepareDeadLetterReplay(emails[e], t)]
           /\ used' = used \cup {t}
           /\ replays' = [replays EXCEPT ![e] = @ \cup {t}]
    BY <1>8 DEF ReplayPrepare
  <2>2. replays' \in [Emails -> SUBSET Attempts]
    BY <2>1 DEF IInv, TypeOK
  <2>3. QED
    BY <1>0, <1>8, <1>r, <2>1, <2>2, PrepareDeadLetterReplayRow DEF ReplayPrepare, IInv, TypeOK
<1>9. CASE \E t \in Attempts : ReplayDone(e, t)
  <2>1. PICK t \in Attempts : ReplayDone(e, t)
    BY <1>9
  <2>2. replays' \in [Emails -> SUBSET Attempts] /\ HandlersInv'
    BY <2>1 DEF ReplayDone, IInv, TypeOK, HandlersInv
  <2>3. QED
    BY <1>u, <2>1, <2>2 DEF ReplayDone, IInv, TypeOK
<1>10. CASE \E t \in Attempts : ReplayCancel(e, t)
  <2>1. PICK t \in Attempts : ReplayCancel(e, t)
    BY <1>10
  <2>2. replays' \in [Emails -> SUBSET Attempts]
    BY <2>1 DEF ReplayCancel, IInv, TypeOK
  <2>3. QED
    BY <1>0, <1>r, <2>1, <2>2, CancelDeadLetterReplayRow DEF ReplayCancel, IInv, TypeOK
<1>11. CASE \E m \in Attempts : ReviewAccepted(e, m)
  <2>1. PICK m \in Attempts : ReviewAccepted(e, m)
    BY <1>11
  <2>2. QED
    BY <1>0, <1>r, <2>1, ReconcileAcceptedRow DEF ReviewAccepted, IInv, TypeOK
<1>12. CASE \E m \in Attempts : CorrelateProviderEvent(e, m)
  <2>1. PICK m \in Attempts : CorrelateProviderEvent(e, m)
    BY <1>12
  <2>2. handlers' \in [Emails -> SUBSET Attempts] /\ HandlersInv'
    BY <2>1 DEF CorrelateProviderEvent, IInv, TypeOK, HandlersInv
  <2>3. QED
    BY <1>u, <2>1, <2>2 DEF CorrelateProviderEvent, IInv, TypeOK
<1>13. CASE ReviewFailed(e)
  <2>1. /\ voided' \in [Emails -> SUBSET (Attempts \cup {NULL})]
        /\ \A f \in Emails : voided[f] \subseteq voided'[f]
        /\ emails[e].attempt \in voided'[e]
    BY <1>0, <1>13 DEF ReviewFailed, IInv, TypeOK, Row
  <2>2. /\ ReconcileFailed(emails[e]) \in Row /\ RowInv(ReconcileFailed(emails[e]), accepted[e])
        /\ emails[e].status # "absent"
    BY <1>0, <1>13, ReconcileFailedRow DEF ReviewFailed
  <2>3. QED
    BY <1>13, <1>v, <2>1, <2>2 DEF ReviewFailed, IInv, TypeOK
<1>14. CASE \E m \in Attempts, target \in TargetStatus : HandleProviderEvent(e, m, target)
  <2>1. PICK m \in Attempts, target \in TargetStatus : HandleProviderEvent(e, m, target)
    BY <1>14
  <2>2. /\ m \in accepted[e] /\ handlers' \in [Emails -> SUBSET Attempts]
        /\ \A f \in Emails : handlers'[f] \subseteq handlers[f]
    BY <1>0, <2>1 DEF HandleProviderEvent, IInv, TypeOK
  <2>3. CASE UNCHANGED <<emails, voided>>
    <3>1. HandlersInv'
      BY <2>1, <2>2 DEF HandleProviderEvent, IInv, HandlersInv
    <3>2. QED
      BY <1>u, <2>1, <2>2, <2>3, <3>1 DEF HandleProviderEvent, IInv, TypeOK
  <2>4. CASE /\ CanApplyProviderEvent(emails[e], m)
             /\ emails' = [emails EXCEPT ![e] = ApplyProviderEvent(@, m, target)]
             /\ voided' = [voided EXCEPT ![e] =
                   IF target = "failed" /\ ShouldApplyProviderStatus(emails[e].status, target)
                   THEN @ \cup {emails[e].attempt} ELSE @]
    <3> DEFINE s == ApplyProviderEvent(emails[e], m, target)
    <3>1. /\ s \in Row /\ RowInv(s, accepted[e]) /\ emails[e].status # "absent"
          /\ s.attempt = emails[e].attempt
          /\ Submitted(emails[e]) =>
                \/ Submitted(s)
                \/ target = "failed" /\ ShouldApplyProviderStatus(emails[e].status, target)
      BY <1>0, <2>2, <2>4, ApplyProviderEventRow
    <3>2. emails' = [emails EXCEPT ![e] = s]
      BY <2>4
    <3>3. /\ voided' \in [Emails -> SUBSET (Attempts \cup {NULL})]
          /\ \A f \in Emails : voided[f] \subseteq voided'[f]
          /\ target = "failed" /\ ShouldApplyProviderStatus(emails[e].status, target)
                => emails[e].attempt \in voided'[e]
      BY <1>0, <2>4 DEF IInv, TypeOK, Row
    <3> HIDE DEF s
    <3>4. QED
      BY <1>v, <2>1, <2>2, <3>1, <3>2, <3>3 DEF HandleProviderEvent, IInv, TypeOK
  <2>5. QED
    BY <2>1, <2>3, <2>4 DEF HandleProviderEvent
<1>15. QED
  BY <1>1, <1>2, <1>3, <1>4, <1>5, <1>6, <1>7, <1>8, <1>9, <1>10, <1>11, <1>12, <1>13, <1>14
  DEF RowStep

\* So does the recovery of expired leases, over all rows at once.
LEMMA RecoverInv ==
    ASSUME IInv, RecoverExpiredSendAttempts
    PROVE  IInv'
<1>0. /\ pc' = pc /\ job' = job /\ claim' = claim
      /\ UNCHANGED <<used, due, api, replays, handlers, accepted, voided>>
  BY DEF RecoverExpiredSendAttempts, worker
<1>1. \A f \in Emails :
         /\ emails'[f] \in Row /\ RowInv(emails'[f], accepted[f])
         /\ emails[f].status = "absent" => emails'[f] = emails[f]
         /\ Submitted(emails[f]) => Submitted(emails'[f]) /\ emails'[f].attempt = emails[f].attempt
  BY RecoverExpiredRow DEF RecoverExpiredSendAttempts, IInv, TypeOK, RowsInv
<1>2. emails' \in [Emails -> Row]
  BY <1>1 DEF RecoverExpiredSendAttempts
<1>3. TypeOK'
  BY <1>0, <1>2 DEF IInv, TypeOK
<1>4. RowsInv' /\ LiveIsRecorded' /\ NewIsAbsent'
  BY <1>0, <1>1 DEF IInv, RowsInv, LiveIsRecorded, LiveSubmissions, NewIsAbsent
<1>5. WorkersInv'
  <2> SUFFICES ASSUME NEW w \in Workers PROVE WorkerInv(w)'
    BY DEF WorkersInv
  <2>1. WorkerInv(w) /\ (pc[w] = "send" => job[w] \in Emails)
    BY DEF IInv, WorkersInv, TypeOK
  <2>2. QED
    BY <1>0, <1>1, <2>1 DEF WorkerInv
<1>6. ClaimsUnique' /\ DrawnIsUsed' /\ HandlersInv'
  BY <1>0 DEF IInv, ClaimsUnique, DrawnIsUsed, HandlersInv
<1>7. QED
  BY <1>3, <1>4, <1>5, <1>6 DEF IInv

-----------------------------------------------------------------------------
(* The theorems.                                                           *)

\* The invariant holds initially.
LEMMA InitInv == Init => IInv
<1> SUFFICES ASSUME Init PROVE IInv
  OBVIOUS
<1>1. NoRow \in Row /\ \A acc : RowInv(NoRow, acc)
  BY AttemptAssumption DEF NoRow, Row, RowInv, EmailStatus, SendAttemptState, SentStatus
<1>2. TypeOK
  BY <1>1 DEF Init, TypeOK, PC
<1>3. RowsInv /\ LiveIsRecorded /\ WorkersInv /\ ClaimsUnique /\ DrawnIsUsed /\ HandlersInv /\ NewIsAbsent
  BY <1>1 DEF Init, RowsInv, LiveIsRecorded, LiveSubmissions, WorkersInv, WorkerInv, ClaimsUnique,
     DrawnIsUsed, HandlersInv, NewIsAbsent, NoRow
<1>4. QED
  BY <1>2, <1>3 DEF IInv

\* Every step keeps it.
LEMMA NextInv == IInv /\ [Next]_vars => IInv'
<1> SUFFICES ASSUME IInv, [Next]_vars PROVE IInv'
  OBVIOUS
<1>1. CASE Next
  BY <1>1, WorkerStepInv, RowStepInv, RecoverInv DEF Next
<1>2. CASE UNCHANGED vars
  BY <1>2 DEF vars, IInv, TypeOK, RowsInv, LiveIsRecorded, LiveSubmissions, WorkersInv, WorkerInv,
     ClaimsUnique, DrawnIsUsed, HandlersInv, NewIsAbsent
<1>3. QED
  BY <1>1, <1>2

\* The inductive invariant holds in every reachable state.
THEOREM Invariance == Spec => []IInv
BY InitInv, NextInv, PTL DEF Spec

\* The tables and the workers' variables keep their types.
THEOREM TypeCorrectness == Spec => []TypeOK
<1>1. IInv => TypeOK
  BY DEF IInv
<1>2. QED
  BY <1>1, Invariance, PTL

\* The protocol of processFromQueueDurable, the statements it relies on and the
\* recovery of expired leases never let the provider take a second submission of
\* an email whose first was not declared failed, for any number of workers,
\* emails and attempts.
THEOREM NoDoubleSubmission == Spec => []AtMostOneLiveSubmission
<1>1. IInv => AtMostOneLiveSubmission
  BY DEF IInv, LiveIsRecorded, AtMostOneLiveSubmission
<1>2. QED
  BY <1>1, Invariance, PTL

\* CancelQueued and ClaimSendAttempt exclude each other: a cancelled email has no
\* submission that counts.
THEOREM CancelIsFinal == Spec => []CancelledNeverSent
<1>1. IInv => CancelledNeverSent
  BY DEF IInv, RowsInv, RowInv, LiveIsRecorded, Submitted, CancelledNeverSent, LiveSubmissions
<1>2. QED
  BY <1>1, Invariance, PTL

\* Every row in "sending" is one that RecoverExpiredSendAttempts will match once
\* its lease has run out.
THEOREM NoStrandedAttempt == Spec => []SendingIsRecoverable
<1>1. IInv => SendingIsRecoverable
  BY DEF IInv, RowsInv, RowInv, SendingIsRecoverable
<1>2. QED
  BY <1>1, Invariance, PTL

\* A stored message ID, and any status from "sent" on, is backed by a message the
\* provider took for this email.
THEOREM NoFalseReceipt == Spec => []ReportedSentIsGenuine
<1>1. IInv => ReportedSentIsGenuine
  BY DEF IInv, RowsInv, RowInv, SentStatus, ReportedSentIsGenuine
<1>2. QED
  BY <1>1, Invariance, PTL

\* How a row may leave "ambiguous" in a step.
Evidence(e) ==
    emails[e].state = "ambiguous" /\ emails'[e].state # "ambiguous" =>
        \/ emails'[e].state = "accepted" /\ emails'[e].pmid \in accepted[e]
        \/ emails'[e].state = "failed_terminal" /\ emails[e].attempt \in voided'[e]

\* The statements a worker issues match no ambiguous row.
LEMMA WorkerEvidence ==
    ASSUME IInv, NEW w \in Workers, WorkerStep(w), NEW e \in Emails
    PROVE  Evidence(e)
<1>1. CASE UNCHANGED emails
  BY <1>1 DEF Evidence
<1>2. CASE /\ pc[w] # "idle" /\ emails[job[w]].state # "ambiguous"
           /\ \E s : emails' = [emails EXCEPT ![job[w]] = s]
  BY <1>2, BusyWorker DEF Evidence, IInv, TypeOK
<1>3. QED
  BY <1>1, <1>2 DEF WorkerStep, Read, Claim, CheckRecipientSuppression, MarkStarted, Send,
     PersistAccepted, PersistUnknown, PersistRetryable, PersistFailed, Settle, DeadLetter,
     MarkFailedFromQueue, Crash, Write, CanClaimSendAttempt, CanMarkSendStarted,
     CanFinalizeAccepted, CanFinalizeAmbiguous, CanMarkSendRetryable, CanFinalizeFailed,
     CanMarkDeadLetterFailed

\* Of the other steps, only reviews and provider events end an ambiguity.
LEMMA RowEvidence ==
    ASSUME IInv, NEW f \in Emails, RowStep(f), NEW e \in Emails
    PROVE  Evidence(e)
<1>0. emails[e] \in Row /\ RowInv(emails[e], accepted[e]) /\ emails \in [Emails -> Row]
  BY DEF IInv, TypeOK, RowsInv
<1>1. CASE f # e \/ UNCHANGED emails
  BY <1>0, <1>1 DEF Evidence, RowStep, ApiCreate, ApiReturn, ApiQueueFailed, BecomesDue, Cancel,
     LeaseExpires, QueueRecoveryDone, ReplayPrepare, ReviewFailed, ReplayDone, ReplayCancel,
     ReviewAccepted, CorrelateProviderEvent, HandleProviderEvent
<1>3. CASE f = e /\ (ReplayPrepare(e) \/ \E t \in Attempts : ReplayCancel(e, t))
  BY <1>3 DEF Evidence, ReplayPrepare, ReplayCancel, CanPrepareDeadLetterReplay,
     CanCancelDeadLetterReplay
<1>4. CASE f = e /\ ReviewFailed(e)
  <2>1. emails[e].attempt \in voided'[e]
    BY <1>4 DEF ReviewFailed, IInv, TypeOK
  <2>2. emails'[e] = ReconcileFailed(emails[e])
    BY <1>0, <1>4 DEF ReviewFailed
  <2>3. emails'[e].state = "failed_terminal"
    BY <1>0, <2>2 DEF ReconcileFailed, Row
  <2>4. QED
    BY <2>1, <2>3 DEF Evidence
<1>5. CASE f = e /\ \E m \in Attempts : ReviewAccepted(e, m)
  <2>1. PICK m \in Attempts : ReviewAccepted(e, m)
    BY <1>5
  <2>2. emails'[e] = ReconcileAccepted(emails[e], m) /\ m \in accepted[e]
    BY <1>0, <2>1 DEF ReviewAccepted
  <2>3. emails'[e].state = "accepted" /\ emails'[e].pmid = m
    BY <1>0, <2>2 DEF ReconcileAccepted, Row
  <2>4. QED
    BY <2>2, <2>3 DEF Evidence
<1>6. CASE f = e /\ \E m \in Attempts, target \in TargetStatus : HandleProviderEvent(e, m, target)
  <2>1. PICK m \in Attempts, target \in TargetStatus : HandleProviderEvent(e, m, target)
    BY <1>6
  <2>2. m \in accepted[e]
    BY <2>1 DEF HandleProviderEvent, IInv, HandlersInv
  <2>3. CASE emails'[e] = ApplyProviderEvent(emails[e], m, target)
             /\ voided' = [voided EXCEPT ![e] =
                   IF target = "failed" /\ ShouldApplyProviderStatus(emails[e].status, target)
                   THEN @ \cup {emails[e].attempt} ELSE @]
    <3>1. CASE ~ShouldApplyProviderStatus(emails[e].status, target)
      BY <1>0, <2>3, <3>1 DEF ApplyProviderEvent, Row, Evidence
    <3>2. CASE ShouldApplyProviderStatus(emails[e].status, target) /\ target = "failed"
      <4>1. emails[e].attempt \in voided'[e]
        BY <2>3, <3>2 DEF IInv, TypeOK
      <4>2. emails'[e].state = "failed_terminal"
        BY <1>0, <2>3, <3>2 DEF ApplyProviderEvent, Row
      <4>3. QED
        BY <4>1, <4>2 DEF Evidence
    <3>3. CASE ShouldApplyProviderStatus(emails[e].status, target) /\ target # "failed"
      <4>1. emails'[e].state = "accepted" /\ emails'[e].pmid = m
        BY <1>0, <2>3, <3>3 DEF ApplyProviderEvent, Row
      <4>2. QED
        BY <2>2, <4>1 DEF Evidence
    <3>4. QED
      BY <3>1, <3>2, <3>3
  <2>4. QED
    BY <1>0, <2>1, <2>3 DEF HandleProviderEvent, Evidence
<1>7. CASE f = e /\ (ApiCreate(e) \/ ApiQueueFailed(e) \/ Cancel(e) \/ LeaseExpires(e) \/ QueueRecoveryDone(e))
  <2>1. emails'[e].state = emails[e].state
    BY <1>0, <1>7 DEF ApiCreate, ApiQueueFailed, Cancel, LeaseExpires, QueueRecoveryDone, Row,
       Create, UpdateStatus, CancelQueued, MarkQueueRecoveryEnqueued
  <2>2. QED
    BY <2>1 DEF Evidence
<1>8. CASE f = e /\ UNCHANGED emails
  BY <1>8 DEF Evidence
<1>9. QED
  BY <1>1, <1>3, <1>4, <1>5, <1>6, <1>7, <1>8 DEF RowStep, ApiReturn, BecomesDue, ReplayDone,
     CorrelateProviderEvent

\* Nor does the recovery of expired leases touch one.
LEMMA RecoverEvidence ==
    ASSUME IInv, RecoverExpiredSendAttempts, NEW e \in Emails
    PROVE  Evidence(e)
<1>1. emails'[e] = RecoverExpiredSendAttempt(emails[e])
  BY DEF RecoverExpiredSendAttempts
<1>2. emails[e].state = "ambiguous" => emails'[e] = emails[e]
  BY <1>1 DEF RecoverExpiredSendAttempt, CanRequeueExpired, CanQuarantineExpired
<1>3. QED
  BY <1>2 DEF Evidence

\* An unknown outcome is settled only by a reviewer's word or by an event of a
\* message the provider took for the email; never by sending again.
THEOREM AmbiguityIsSettledByEvidence == Spec => AmbiguousNeedsEvidence
<1>1. IInv /\ [Next]_vars => [\A e \in Emails : Evidence(e)]_vars
  BY WorkerEvidence, RowEvidence, RecoverEvidence DEF Next
<1>2. QED
  BY <1>1, Invariance, PTL DEF Spec, AmbiguousNeedsEvidence, Evidence

\* How a row may leave "sending" in a step that does not come from its lease.
Accounted(e) ==
    /\ emails[e].status = "sending" /\ emails[e].lease = "live"
    /\ emails'[e].status # "sending"
    => \/ \E w \in Workers :
             /\ claim[w] = emails[e].attempt /\ job[w] = e
             /\ pc[w] \in {"accepted", "unknown", "release", "suppressed", "rejected"}
             /\ \A v \in Workers \ {w} : pc'[v] = pc[v]
       \/ handlers'[e] # handlers[e]
       \/ api[e] = "created" /\ api'[e] = "returned"

\* Every statement that a worker issues on a row in "sending" names the attempt.
LEMMA WorkerAccounted ==
    ASSUME IInv, NEW w \in Workers, WorkerStep(w), NEW e \in Emails
    PROVE  Accounted(e)
<1>0. emails \in [Emails -> Row] /\ pc \in [Workers -> PC] /\ emails[e] \in Row
  BY DEF IInv, TypeOK
<1>1. CASE emails'[e] = emails[e]
  BY <1>1 DEF Accounted
<1>2. CASE emails'[e] # emails[e]
  <2>1. ASSUME NEW r, Write(w, r) PROVE job[w] = e /\ emails'[e] = r
    BY <1>0, <1>2, <2>1 DEF Write
  <2>2. CASE Claim(w) \/ MarkFailedFromQueue(w)
    <3>1. emails[e].status # "sending"
      BY <1>2, <2>1, <2>2 DEF Claim, MarkFailedFromQueue, CanClaimSendAttempt, CanMarkDeadLetterFailed
    <3> QED
      BY <3>1 DEF Accounted
  <2>3. CASE MarkStarted(w)
    <3>1. emails'[e] = MarkSendStarted(emails[e], claim[w])
      BY <1>2, <2>1, <2>3 DEF MarkStarted
    <3>2. emails'[e].status = emails[e].status
      BY <1>0, <3>1 DEF MarkSendStarted, Row
    <3> QED
      BY <3>2 DEF Accounted
  <2>4. CASE PersistAccepted(w) \/ PersistUnknown(w) \/ PersistRetryable(w) \/ PersistFailed(w)
    <3>1. job[w] = e /\ claim[w] = emails[e].attempt
      BY <1>2, <2>1, <2>4 DEF PersistAccepted, PersistUnknown, PersistRetryable, PersistFailed,
         CanFinalizeAccepted, CanFinalizeAmbiguous, CanMarkSendRetryable, CanFinalizeFailed, Owns
    <3>2. pc[w] \in {"accepted", "unknown", "release", "suppressed", "rejected"}
      BY <2>4 DEF PersistAccepted, PersistUnknown, PersistRetryable, PersistFailed
    <3>3. \E l : pc' = [pc EXCEPT ![w] = l]
      BY <2>4 DEF PersistAccepted, PersistUnknown, PersistRetryable, PersistFailed, Goto
    <3>4. \A v \in Workers \ {w} : pc'[v] = pc[v]
      BY <1>0, <3>3
    <3> QED
      BY <3>1, <3>2, <3>4 DEF Accounted
  <2> QED
    BY <1>2, <2>2, <2>3, <2>4 DEF WorkerStep, Read, CheckRecipientSuppression, Send, Settle, DeadLetter, Crash
<1> QED
  BY <1>1, <1>2

\* Of the others, cancellations, replays, reviews and the queue's own bookkeeping
\* do not match a row in "sending".
LEMMA RowAccounted ==
    ASSUME IInv, NEW f \in Emails, RowStep(f), NEW e \in Emails
    PROVE  Accounted(e)
<1>0. /\ emails \in [Emails -> Row] /\ emails[e] \in Row /\ api \in [Emails -> {"new", "created", "returned"}]
      /\ handlers \in [Emails -> SUBSET Attempts]
  BY DEF IInv, TypeOK
<1>1. CASE emails'[e] = emails[e]
  BY <1>1 DEF Accounted
<1>2. CASE emails'[e] # emails[e]
  <2>1. f = e
    BY <1>0, <1>2 DEF RowStep, ApiCreate, ApiReturn, ApiQueueFailed, BecomesDue, Cancel, LeaseExpires,
       QueueRecoveryDone, ReplayPrepare, ReviewFailed, ReplayDone, ReplayCancel, ReviewAccepted,
       CorrelateProviderEvent, HandleProviderEvent
  <2>2. CASE ApiQueueFailed(e)
    BY <1>0, <2>2 DEF ApiQueueFailed, Accounted
  <2>3. CASE \E m \in Attempts, target \in TargetStatus : HandleProviderEvent(e, m, target)
    BY <1>0, <2>3 DEF HandleProviderEvent, Accounted
  <2>4. CASE ApiCreate(e)
    BY <2>4 DEF ApiCreate, IInv, NewIsAbsent, Accounted
  <2>5. CASE \/ Cancel(e) \/ ReplayPrepare(e) \/ ReviewFailed(e)
             \/ \E m \in Attempts : ReplayCancel(e, m) \/ ReviewAccepted(e, m)
    BY <2>5 DEF Cancel, ReplayPrepare, ReviewFailed, ReplayCancel, ReviewAccepted, CanCancelQueued,
       CanPrepareDeadLetterReplay, CanReconcileAmbiguous, CanCancelDeadLetterReplay, Accounted
  <2>6. CASE LeaseExpires(e) \/ QueueRecoveryDone(e)
    <3>1. emails'[e].status = emails[e].status
      BY <1>0, <2>6 DEF LeaseExpires, QueueRecoveryDone, MarkQueueRecoveryEnqueued, Row
    <3> QED
      BY <3>1 DEF Accounted
  <2> QED
    BY <1>2, <2>1, <2>2, <2>3, <2>4, <2>5, <2>6 DEF RowStep, ApiReturn, BecomesDue, ReplayDone,
       CorrelateProviderEvent
<1> QED
  BY <1>1, <1>2

\* While its lease lasts, an attempt loses its row only to its own worker, to the
\* provider's word, and to the one statement without a fence (UpdateStatus, called
\* by EmailService.send when the queue call failed).
THEOREM LiveAttemptsAreFenced == Spec => LiveAttemptKeepsItsRow
<1>1. ASSUME RecoverExpiredSendAttempts, NEW e \in Emails PROVE Accounted(e)
  <2>1. emails'[e] = RecoverExpiredSendAttempt(emails[e])
    BY <1>1 DEF RecoverExpiredSendAttempts
  <2>2. emails[e].lease = "live" => emails'[e] = emails[e]
    BY <2>1 DEF RecoverExpiredSendAttempt, CanRequeueExpired, CanQuarantineExpired
  <2> QED
    BY <2>2 DEF Accounted
<1>2. IInv /\ [Next]_vars => [\A e \in Emails : Accounted(e)]_vars
  BY <1>1, WorkerAccounted, RowAccounted DEF Next
<1> QED
  BY <1>2, Invariance, PTL DEF Spec, LiveAttemptKeepsItsRow, Accounted
=============================================================================
