---------------------------- MODULE DeliveryQueue ----------------------------
(***************************************************************************)
(* The Redis queue that wakes the email workers (internal/queue/redis.go), *)
(* composed with the send-attempt protocol: every step that SendAttempt    *)
(* allows at any time happens here only when the queue brings it about.    *)
(*                                                                         *)
(* One action is one Redis script (scripts are atomic) or one call to      *)
(* PostgreSQL.  A script can run and lose its reply, or not run at all.    *)
(*                                                                         *)
(* Data abstraction.  Scores of sorted sets are left out: a scheduled item *)
(* may be promoted at any time (one promoted early is rescheduled; it does *)
(* happen, scores are whole seconds), and a receipt's lease is in "expired" *)
(* once it has run out.  A queue item is the email's ID; the receipts      *)
(* without a token that older releases wrote are left out.  A token that no *)
(* one holds any more is reused.                                           *)
(***************************************************************************)
EXTENDS SendAttempt, SequencesExt

CONSTANTS
    Tokens,             \* receipt tokens
    MaxEmailAttempts,   \* maxEmailAttempts, 5 in the code
    DeadCap,            \* entries the dead list keeps, 10000 in the code
    MaxPending,         \* bound of the model: items pushed up to this length only
    Faults              \* which of FaultKinds can happen

(* The faults that can leave a queued email without anyone to wake up for   *)
(* it:                                                                     *)
(*   api_gap     the API dies between inserting the row and pushing its    *)
(*               ID, or cannot write the status after a failed push, or    *)
(*               loses the reply of the insert and pushes nothing;         *)
(*   overrun     a worker is slower than a lease: it outlives the send     *)
(*               lease (2 minutes) or the receipt's lease (5 minutes) it   *)
(*               holds, or its maintenance tick takes longer than a send   *)
(*               lease taken meanwhile;                                    *)
(*   dead_gap    an email is moved to the dead list and its row is not     *)
(*               failed: the worker dies, the write fails, or the row does *)
(*               not match MarkDeadLetterFailed;                           *)
(*   replay_gap  a replay dies between preparing the row and the queue, or *)
(*               the queue refuses and the row cannot be taken back.       *)
FaultKinds == {"api_gap", "overrun", "dead_gap", "replay_gap"}

ASSUME QueueAssumption ==
    /\ MaxEmailAttempts \in Nat \ {0}
    /\ DeadCap \in Nat \ {0}
    /\ MaxPending \in Nat \ {0}
    /\ Faults \subseteq FaultKinds
    /\ NULL \notin Emails \cup [token : Tokens, email : Emails]

VARIABLES
    pending,    \* emails:pending, next to be popped first
    scheduled,  \* emails:scheduled, a sorted set: an ID is in it once
    processing, \* emails:processing: receipts "token|id"
    expired,    \* receipts whose entry in emails:leases has run out
    dead,       \* emails:dead, newest first
    tries,      \* emails:attempts:<id>
    receipt,    \* worker -> the receipt it was given
    toEnqueue,  \* worker -> rows RecoverSending listed and has still to push
    toMark,     \* worker -> the row it has pushed and has still to mark
    pushed,     \* emails whose ID the API has pushed
    moved       \* replay tokens whose ReplayDead has moved the ID

redis == <<pending, scheduled, processing, expired, dead, tries>>

ticks == <<toEnqueue, toMark>>

queue == <<redis, receipt, ticks, pushed, moved>>

queueVars == <<vars, queue>>

Receipt == [token : Tokens, email : Emails]

QueueTypeOK ==
    /\ pending \in Seq(Emails)
    /\ scheduled \in SUBSET Emails
    /\ processing \in SUBSET Receipt
    /\ expired \in SUBSET processing
    /\ dead \in Seq(Emails) /\ Len(dead) <= DeadCap
    /\ tries \in [Emails -> 0 .. MaxEmailAttempts]
    /\ receipt \in [Workers -> Receipt \cup {NULL}]
    /\ toEnqueue \in [Workers -> SUBSET Emails]
    /\ toMark \in [Workers -> Emails \cup {NULL}]
    /\ pushed \in SUBSET Emails
    /\ moved \in SUBSET Attempts
    /\ \A w \in Workers : pc[w] # "idle" => receipt[w] # NULL /\ receipt[w].email = job[w]

QueueInit ==
    /\ Init
    /\ pending = <<>> /\ scheduled = {} /\ processing = {} /\ expired = {}
    /\ dead = <<>> /\ tries = [e \in Emails |-> 0]
    /\ receipt = [w \in Workers |-> NULL]
    /\ toEnqueue = [w \in Workers |-> {}]
    /\ toMark = [w \in Workers |-> NULL]
    /\ pushed = {} /\ moved = {}

-----------------------------------------------------------------------------
(* The scripts.                                                            *)

\* LPUSH; the other end is popped.
Push(e) == Len(pending) < MaxPending /\ pending' = Append(pending, e)

\* Mutant: the receipt is looked up by its email, whoever holds it.
RemoveReceipt_ByEmail(r) ==
    /\ processing' = {s \in processing : s.email # r.email}
    /\ expired' = {s \in expired : s.email # r.email}

RemoveReceipt(r) ==
    /\ processing' = processing \ {r}
    /\ expired' = expired \ {r}

\* Mutant: no LTRIM.
PushDead_NoTrim(e) == dead' = <<e>> \o dead

\* LPUSH and LTRIM.
PushDead(e) ==
    dead' = SubSeq(<<e>> \o dead, 1, IF Len(dead) < DeadCap THEN Len(dead) + 1 ELSE DeadCap)

PromoteScheduled(e) ==
    /\ e \in scheduled
    /\ Push(e)
    /\ scheduled' = scheduled \ {e}
    /\ UNCHANGED <<vars, processing, expired, dead, tries, receipt, ticks, pushed, moved>>

Idle(w) == pc[w] = "idle" /\ receipt[w] = NULL /\ toEnqueue[w] = {} /\ toMark[w] = NULL

\* The receipt reaches the worker, or the reply is lost.
Dequeue(w) ==
    /\ Idle(w)
    /\ pending # <<>>
    /\ \E t \in Tokens :
          LET r == [token |-> t, email |-> Head(pending)]
          IN  /\ \A s \in processing : s.token # t
              /\ \A v \in Workers : receipt[v] # NULL => receipt[v].token # t
              /\ processing' = processing \cup {r}
              /\ receipt' = [receipt EXCEPT ![w] = r] \/ UNCHANGED receipt
    /\ pending' = Tail(pending)
    /\ UNCHANGED <<vars, scheduled, expired, dead, tries, ticks, pushed, moved>>

\* Mutant: the lease is written by a call of its own once the worker has the
\* receipt, so a receipt that never reached a worker has none.
ReceiptExpires_Held(r) ==
    /\ r \in processing \ expired
    /\ \E w \in Workers : receipt[w] = r
    /\ expired' = expired \cup {r}
    /\ UNCHANGED <<vars, pending, scheduled, processing, dead, tries, receipt, ticks, pushed, moved>>

ReceiptExpires(r) ==
    /\ r \in processing \ expired
    /\ "overrun" \in Faults \/ \A w \in Workers : receipt[w] # r
    /\ expired' = expired \cup {r}
    /\ UNCHANGED <<vars, pending, scheduled, processing, dead, tries, receipt, ticks, pushed, moved>>

\* RPUSH of every expired receipt's ID, to the end that is popped next.  The
\* order among them is that of the processing list, any order here.
Recover ==
    /\ expired # {}
    /\ \E s \in SetToSeqs(expired) : pending' = [i \in DOMAIN s |-> s[i].email] \o pending
    /\ processing' = processing \ expired
    /\ expired' = {}
    /\ UNCHANGED <<vars, scheduled, dead, tries, receipt, ticks, pushed, moved>>

\* EXPIRE emails:attempts:<id> 86400
TriesExpire(e) ==
    /\ tries[e] > 0
    /\ tries' = [tries EXCEPT ![e] = 0]
    /\ UNCHANGED <<vars, pending, scheduled, processing, expired, dead, receipt, ticks, pushed, moved>>

-----------------------------------------------------------------------------
(* processNext.                                                            *)

QRead(w) ==
    /\ receipt[w] # NULL
    /\ Read(w, receipt[w].email)
    /\ UNCHANGED queue

QProcess(w) ==
    /\ \/ Claim(w) \/ CheckRecipientSuppression(w) \/ MarkStarted(w) \/ Send(w)
       \/ PersistAccepted(w) \/ PersistUnknown(w) \/ PersistRetryable(w) \/ PersistFailed(w)
    /\ UNCHANGED queue

Drop(w) == receipt' = [receipt EXCEPT ![w] = NULL]

\* Redis is out of reach, or the receipt is no longer there: the worker logs
\* the error and goes on to the next item.
SettleFails(w) ==
    /\ Settle(w)
    /\ Drop(w)
    /\ UNCHANGED <<redis, ticks, pushed, moved>>

Ack(w) ==
    /\ pc[w] = "ack"
    /\ receipt[w] \in processing
    /\ RemoveReceipt(receipt[w])
    /\ Settle(w)
    /\ Drop(w)
    /\ UNCHANGED <<pending, scheduled, dead, tries, ticks, pushed, moved>>

\* Requeue with countAttempt, below the limit.
Requeue(w) ==
    /\ pc[w] = "requeue"
    /\ receipt[w] \in processing
    /\ tries[job[w]] + 1 < MaxEmailAttempts
    /\ RemoveReceipt(receipt[w])
    /\ tries' = [tries EXCEPT ![job[w]] = @ + 1]
    /\ scheduled' = scheduled \cup {job[w]}
    /\ Settle(w)
    /\ Drop(w)
    /\ UNCHANGED <<pending, dead, ticks, pushed, moved>>

\* Requeue at the limit.  The reply tells the worker to fail the row; if it is
\* lost, the worker does not.  The counter stays at the limit: the code's INCR
\* goes past it, which means the same to every reader.
RequeueDead(w) ==
    /\ pc[w] = "requeue"
    /\ receipt[w] \in processing
    /\ tries[job[w]] + 1 >= MaxEmailAttempts
    /\ RemoveReceipt(receipt[w])
    /\ tries' = [tries EXCEPT ![job[w]] = MaxEmailAttempts]
    /\ PushDead(job[w])
    /\ \/ /\ DeadLetter(w)
          /\ \/ "dead_gap" \in Faults
             \/ emails[job[w]].status = "queued" => CanMarkDeadLetterFailed(emails[job[w]])
          /\ UNCHANGED receipt
       \/ "dead_gap" \in Faults /\ Settle(w) /\ Drop(w)
    /\ UNCHANGED <<pending, scheduled, ticks, pushed, moved>>

\* Mutant: the row of a dead letter is failed whatever it holds.
QMarkFailed_Unguarded(w) ==
    /\ pc[w] = "dead"
    /\ Write(w, MarkDeadLetterFailed(emails[job[w]]))
    /\ Rest(w)
    /\ Drop(w)
    /\ UNCHANGED <<used, due, api, replays, handlers, accepted, voided, redis, ticks, pushed, moved>>

QMarkFailed(w) ==
    /\ MarkFailedFromQueue(w)
    /\ \/ "dead_gap" \in Faults
       \/ emails'[job[w]] # emails[job[w]] \/ ~CanMarkDeadLetterFailed(emails[job[w]])
    /\ Drop(w)
    /\ UNCHANGED <<redis, ticks, pushed, moved>>

\* Mutant: an email that is not due is acknowledged like one that is not queued.
Reschedule_Ack(w) ==
    /\ pc[w] = "reschedule"
    /\ receipt[w] \in processing
    /\ RemoveReceipt(receipt[w])
    /\ Settle(w)
    /\ Drop(w)
    /\ UNCHANGED <<pending, scheduled, dead, tries, ticks, pushed, moved>>

\* RescheduleReceipt, or Requeue without counting if that call failed.
Reschedule(w) ==
    /\ pc[w] = "reschedule"
    /\ receipt[w] \in processing
    /\ RemoveReceipt(receipt[w])
    /\ scheduled' = scheduled \cup {job[w]}
    /\ Settle(w)
    /\ Drop(w)
    /\ UNCHANGED <<pending, dead, tries, ticks, pushed, moved>>

\* The process dies: in the middle of an email, between two calls of the
\* maintenance tick, or with a receipt it has not looked at.
QCrash(w) ==
    /\ ~Idle(w)
    /\ pc[w] = "dead" => "dead_gap" \in Faults
    /\ Crash(w) \/ (pc[w] = "idle" /\ UNCHANGED vars)
    /\ Drop(w)
    /\ toEnqueue' = [toEnqueue EXCEPT ![w] = {}]
    /\ toMark' = [toMark EXCEPT ![w] = NULL]
    /\ UNCHANGED <<redis, pushed, moved>>

-----------------------------------------------------------------------------
(* The maintenance tick: RecoverSending, then Recover (above).             *)

QLeaseExpires(e) ==
    /\ \/ "overrun" \in Faults
       \/ \A w \in Workers :
             claim[w] # emails[e].attempt /\ e \notin toEnqueue[w] /\ toMark[w] # e
    /\ LeaseExpires(e)
    /\ UNCHANGED queue

QRecoverExpired == RecoverExpiredSendAttempts /\ UNCHANGED queue

ListQueueRecoveryPending(w) ==
    /\ Idle(w)
    /\ toEnqueue' = [toEnqueue EXCEPT ![w] =
          {e \in Emails : emails[e].status = "queued" /\ emails[e].recovery}]
    /\ toEnqueue'[w] # {}
    /\ UNCHANGED <<vars, redis, receipt, toMark, pushed, moved>>

\* A row that could not be pushed is skipped; the push may have run all the same.
EnqueueRecovered(w, e) ==
    /\ e \in toEnqueue[w] /\ toMark[w] = NULL
    /\ toEnqueue' = [toEnqueue EXCEPT ![w] = @ \ {e}]
    /\ \/ Push(e) /\ (toMark' = [toMark EXCEPT ![w] = e] \/ UNCHANGED toMark)
       \/ UNCHANGED <<pending, toMark>>
    /\ UNCHANGED <<vars, scheduled, processing, expired, dead, tries, receipt, pushed, moved>>

\* The statement, or its failure; the row may have lost its flag since it was listed.
MarkRecovered(w) ==
    /\ toMark[w] # NULL
    /\ QueueRecoveryDone(toMark[w]) \/ UNCHANGED vars
    /\ toMark' = [toMark EXCEPT ![w] = NULL]
    /\ UNCHANGED <<redis, receipt, toEnqueue, pushed, moved>>

-----------------------------------------------------------------------------
(* The API and the operators.                                              *)

QCreate(e) == ApiCreate(e) /\ UNCHANGED queue

\* Schedule if the email is not due, Enqueue if it is.
ApiPush(e) ==
    /\ api[e] = "created" /\ e \notin pushed
    /\ \/ e \in due /\ Push(e) /\ UNCHANGED scheduled
       \/ e \notin due /\ scheduled' = scheduled \cup {e} /\ UNCHANGED pending
    /\ pushed' = pushed \cup {e}
    /\ UNCHANGED <<vars, processing, expired, dead, tries, receipt, ticks, moved>>

QReturn(e) ==
    /\ e \in pushed \/ "api_gap" \in Faults
    /\ ApiReturn(e)
    /\ UNCHANGED queue

QQueueFailed(e) == ApiQueueFailed(e) /\ UNCHANGED queue

QBecomesDue(e) == BecomesDue(e) /\ UNCHANGED queue

QCancel(e) == Cancel(e) /\ UNCHANGED queue

QReplayPrepare(e) == ReplayPrepare(e) /\ UNCHANGED queue

ReplayDead(e, t) ==
    /\ t \in replays[e] \ moved
    /\ Contains(dead, e)
    /\ dead' = RemoveFirst(dead, e)                           \* LREM, count 1
    /\ tries' = [tries EXCEPT ![e] = 0]
    /\ Push(e)
    /\ moved' = moved \cup {t}
    /\ UNCHANGED <<vars, scheduled, processing, expired, receipt, ticks, pushed>>

QReplayDone(e, t) ==
    /\ t \in moved \/ "replay_gap" \in Faults \/ ~CanCancelDeadLetterReplay(emails[e], t)
    /\ ReplayDone(e, t)
    /\ UNCHANGED queue

QReplayCancel(e, t) == ReplayCancel(e, t) /\ UNCHANGED queue

QReview(e) ==
    /\ ReviewFailed(e) \/ \E m \in Attempts : ReviewAccepted(e, m)
    /\ UNCHANGED queue

QProviderEvent(e, m) ==
    /\ CorrelateProviderEvent(e, m) \/ \E target \in TargetStatus : HandleProviderEvent(e, m, target)
    /\ UNCHANGED queue

-----------------------------------------------------------------------------
QueueWorkerStep(w) ==
    \/ Dequeue(w) \/ QRead(w) \/ QProcess(w)
    \/ SettleFails(w) \/ Ack(w) \/ Requeue(w) \/ RequeueDead(w) \/ QMarkFailed(w) \/ Reschedule(w)
    \/ QCrash(w)
    \/ ListQueueRecoveryPending(w) \/ MarkRecovered(w)
    \/ \E e \in Emails : EnqueueRecovered(w, e)

QueueRowStep(e) ==
    \/ PromoteScheduled(e) \/ TriesExpire(e) \/ QLeaseExpires(e)
    \/ QCreate(e) \/ ApiPush(e) \/ QReturn(e) \/ QQueueFailed(e) \/ QBecomesDue(e) \/ QCancel(e)
    \/ QReplayPrepare(e) \/ QReview(e)
    \/ \E t \in Attempts :
          ReplayDead(e, t) \/ QReplayDone(e, t) \/ QReplayCancel(e, t) \/ QProviderEvent(e, t)

QueueNext ==
    \/ \E w \in Workers : QueueWorkerStep(w)
    \/ \E e \in Emails : QueueRowStep(e)
    \/ \E r \in processing : ReceiptExpires(r)
    \/ Recover
    \/ QRecoverExpired

QueueSpec == QueueInit /\ [][QueueNext]_queueVars

\* Clocks run, and some worker's maintenance tick comes round.
QueueFairSpec ==
    /\ QueueSpec
    /\ \A r \in Receipt : WF_queueVars(r \in processing /\ ReceiptExpires(r))
    /\ WF_queueVars(Recover)

-----------------------------------------------------------------------------
(* Properties.                                                             *)

\* Something will bring e to a worker, or is about to fail it: an item in the
\* pending list or the scheduled set, a receipt that is held or will be
\* recovered, the recovery flag, or a caller between two of its steps.
Wakeable(e) ==
    \/ Contains(pending, e) \/ e \in scheduled
    \/ \E r \in processing : r.email = e
    \/ emails[e].recovery
    \/ api[e] = "created"
    \/ replays[e] # {}
    \/ \E w \in Workers : job[w] = e /\ pc[w] = "dead"

\* No queued email is forgotten: crashes of workers anywhere else, lost replies,
\* duplicate items, refused and failed calls all leave something that will bring
\* it back to a worker.  It takes one of the faults to lose it.
NoLostWakeup ==
    \A e \in Emails : emails[e].status = "queued" => Wakeable(e)

\* The queue only ever wakes workers: every step of the composed system is a step
\* the send-attempt protocol allows, or none of its business.  So whatever holds
\* of SendAttempt holds with the queue as well.
ImplementsSendAttempt == Spec

\* A receipt is taken off the processing list by the worker it was given to, in
\* the call that ends its work on the email, or because its lease ran out: a slow
\* worker never takes away the receipt of the one that has the email now.
ReceiptIsFenced ==
    [][\A r \in processing : r \notin processing' =>
          \/ r \in expired
          \/ \E w \in Workers : receipt[w] = r /\ pc[w] # "idle" /\ pc'[w] # pc[w]]_queueVars

\* No receipt stays on the processing list for ever, whoever has died.
ReceiptsReturn ==
    \A r \in Receipt : r \in processing ~> r \notin processing

-----------------------------------------------------------------------------
(* What the documentation and a test say, and the code does not do under   *)
(* one of the faults.                                                      *)

\* "Failed email queue items [...] can be replayed by an owner or admin": an item
\* on the dead list that nothing will bring to a worker has a row that
\* PrepareDeadLetterReplay matches, or one that is past being sent.
DeadLetterIsReplayable ==
    \A e \in Emails : Contains(dead, e) /\ ~Wakeable(e) => emails[e].status # "queued"

\* "RecoveredLeaseRemainsDurablyPendingUntilRedisEnqueue": the recovery flag of a
\* queued row is cleared only when an item that will bring it to a worker exists.
RecoveredStaysPending ==
    [][\A e \in Emails :
          /\ emails[e].recovery /\ ~emails'[e].recovery
          /\ emails[e].status = "queued" /\ emails'[e].status = "queued"
          => \/ Contains(pending, e) \/ e \in scheduled
             \/ \E r \in processing : r.email = e]_queueVars
=============================================================================
