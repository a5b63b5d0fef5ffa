# Formal model of sender-api

sender-api takes emails over HTTP, stores them in PostgreSQL, queues their IDs in
Redis, and has a pool of workers submit them to Amazon SES. SES reports back
through events; customers are told through webhooks. This directory models the
delivery path, the way of an event from SES to a customer's webhook, and the
services around them (teams, billing, domains, consent, intake, inbound mail) in
TLA+, checks them with TLC and proves the properties that matter most with TLAPS
for any number of emails, events, workers, users and requests.

Two stores that share no transaction, a provider that cannot be asked whether it
has taken a message, and processes that may stop anywhere: a missed email or a
second copy of one is the sort of defect no test of this code is likely to reach.

## The system

| Component | State it keeps | Operations | Talks to | What makes it correct |
|---|---|---|---|---|
| Email row (`internal/repository/email_repo.go`, `delivery_pipeline_repo.go`) | `status`, `send_attempt_state`, attempt, fence, lease, message ID, recovery flag | one guarded `UPDATE` (or transaction) per operation | everyone below | guards exclude every interleaving that would send twice |
| Send attempt (`service/email_service.go`, `worker/email_worker.go`) | what a worker remembers between calls | read, claim, check suppression, mark started, submit, record the outcome | row, mailer, queue | at most one submission that counts; cancel is final; unknown outcomes are never resent |
| Email queue (`queue/redis.go`) | pending list, scheduled set, processing list and leases, dead list, retry counters | enqueue, schedule, promote, dequeue, ack, requeue, reschedule, recover, replay | workers, API | a queued email is never forgotten; a receipt belongs to its holder |
| Maintenance tick (`email_worker.go` `Start`, `RecoverSending`) | a list of rows to push again | recover leases, push, clear the flag; recover receipts | row, queue | nothing is stranded when a worker dies |
| Dead letters and manual review (`ReplayDeadLetter`, `ReconcileAmbiguous`) | a replay token | prepare, move, take back; accept, fail | row, queue, event inbox | a replay never resends what may have gone out |
| Provider event inbox (`service/ses_events.go`, `worker/provider_event_worker.go`) | inbox rows: status, attempts, lease | store, claim, correlate, apply, retry | row, outbox, suppression list | events are applied once, to the right email, never backwards |
| Webhook outbox and delivery (`worker/webhook_worker.go`, `webhook_delivery_repo.go`) | outbox and delivery rows with leases and attempts | dispatch, claim, mark, recover, replay | customers' endpoints | an event is owed to the webhooks subscribed when it is dispatched; what is owed is settled, and done means the endpoint had it |
| Intake (`EmailService.send`, `queue/usage.go`, `batch_repo.go`) | idempotency keys, daily quota, batch manifest | look up, reserve, insert, release | row, Redis | one key, one email; quota is what was really sent |
| Billing (`billing_service.go`, `team_repo.go`) | plan, status, last event | checkout, apply event | Stripe | the plan follows the newest event |
| Teams and keys (`team_service.go`, `team_repo.go`, `apikey_repo.go`) | members, roles, invitations, API keys | create, invite, accept, revoke, change role, remove, delete | - | one owner; an invitation is used once; no member, invitation or key outlives the team |
| Inbound (`worker/inbound_worker.go`, `inbound_service.go`) | inbound rows, SQS messages, S3 objects | receive, extend, store, delete | SQS, S3, outbox | a message is stored once and not lost |
| Retention (`retention_service.go`) | - | purge payloads, emails, inbound mail | all tables, S3 | what is purged under a worker is settled; a purged mail leaves no object |
| Consent (`suppression_repo.go`, `contact_repo.go`, `unsubscribe.go`) | suppressions, subscriptions | add, unsubscribe, import | send attempt, inbox | no submission to a suppressed address |
| Domains (`domain_service.go`) | verification columns | create, verify, delete | DNS, SES | a verified domain has proofs behind it; a name routes to one team |

Hard behaviour, and where it bites, is listed line by line in `PROJECT.json`
under `hazards`. In short: an email is redelivered while its first worker is
still running; a worker outlives its lease at any point, also just before the
provider call; a commit's reply is lost; the row and the queue are written by two
calls and the process dies between them; an operator's replay or a late event
meets an attempt it knows nothing of.

## Modules

| Module | Models |
|---|---|
| `EmailRepo` | the row, and each statement that writes it as a guard `CanS` and an effect `S`; the rank rules for provider statuses |
| `SendAttempt` | one action per database or provider call of `processFromQueueDurable`, and every other writer of the row; no queue: a worker may be woken for any stored email at any time |
| `DeliveryQueue` | Redis, the worker loop and the tick; `EXTENDS SendAttempt` and restricts when its steps happen |
| `WebhookRepo` | the tables webhooks, webhook_outbox and webhook_deliveries and their statements |
| `ProviderInbox` | `EXTENDS WebhookRepo`; the provider event inbox and its handlers |
| `WebhookDelivery` | `EXTENDS WebhookRepo`; the webhook handlers, dispatch and the webhook workers |
| `EventPipeline` | composes the two with the retention purge; the refinement mapping to `Notice` |
| `Notice` | abstract: what the service promises the owner of a webhook, without tables, leases or workers |
| `Accounts` | a team, its members, invitations and API keys |
| `Billing` | Checkout and Stripe's events |
| `Domains` | Create, Verify and Delete of a sending domain, by several teams |
| `Consent` | contacts, suppressions, unsubscribe, and the checks an email passes |
| `Intake` | idempotency keys, batch manifests and the daily quota |
| `Inbound` | inbound mail from SES to its row and event, and its end by retention or with its team |
| `Services` | the last six side by side (`ServicesSpec`, for TLC), and with the one statement that writes the tables of all of them (`ApiSpec`) |
| `SendAttemptProofs`, `DeliveryQueueProofs`, `EventPipelineProofs`, `IntakeProofs`, `InboundProofs` | theorems and proofs of the module they are named after |
| `TeamProofs` | proofs of `Accounts` and `Billing` |
| `PermissionProofs` | proofs of `Domains` and `Consent` |
| `ServicesProofs` | the six services together |
| `MC*` | TLC instances |

`SendAttempt` is at once the detailed model of the protocol and the abstract
specification of the system with the queue: `ImplementsSendAttempt` says that
`DeliveryQueue` refines it under the identity mapping. `Notice` is the abstract
specification of the event pipeline; `KeepsPromise` says that `EventPipeline`
implements it, its liveness included.

### Correspondence

* `emails[e]` is the row. An attempt stands for the pair of fresh UUIDs a claim
  draws (`send_attempt_id`, `send_fence_token`); the columns stay apart because
  some statements clear only the fence. The provider's message ID for an attempt
  is named by the attempt. The lease is `"null"`, `"live"` or `"expired"`.
* `pc[w]` is the place in `processNext`/`processFromQueueDurable`: `read` after
  `GetByID`, `claimed`, `cleared` or `suppressed` after the suppression check,
  `send` after `MarkSendStarted`, then `accepted`, `unknown`, `release` (a failure
  worth a retry) or `rejected` after the provider call, and `ack`, `requeue`,
  `reschedule`, `dead` for what becomes of the receipt.
* Each call may also fail, or commit and lose its reply. A worker may stop between
  any two calls (`Crash`).
* `accepted` and `voided` are history, unknown to the code: what the provider has
  taken, and which attempts the row was told have failed although they may be out
  (a reviewer's word, or a provider's `failed` event). A submission *counts* when
  it was taken and not voided.
* `pending`, `scheduled`, `processing`, `dead` and `tries` are the Redis keys;
  `expired` the receipts whose lease has run out. One action is one script.
  `toEnqueue` and `toMark` are the loop variables of `RecoverSending`.
* A submission is counted once per attempt. The AWS SDK's default retryer, which
  `cmd/worker/main.go:93` keeps, may repeat a request inside one `SendEmail` call, and
  SES may take both: a copy the code cannot see, and the model does not.
* Left out of the data: addresses, bodies, timestamps, scores of sorted sets. A
  scheduled item may be promoted at any time; one promoted early is rescheduled,
  as in the code. Retention's deletion of email rows is not modelled.

The event pipeline:

* `inbox`, `outbox`, `deliveries` and `hooks` are tables, keyed by the event ID (the
  SES message and event, or the UUID of an event of the service's own). A payload is
  there or was removed; attempts are counted up to the limit they are compared with.
* `handler[i]` is a request of `SESEventHandler` or a turn of the provider event
  worker: `claimed` after `ClaimProviderEvent`, `apply` after the lookup, `retry` or
  `ignore` before `RetryProviderEvent`. What a lookup finds (`email[e]`) may change at
  any time: the message ID is stored late, the email is replayed or deleted.
* `poster[w]` is a goroutine of `WebhookWorker`; `posted`, the endpoint's side, is history.
* `PublishOwn` stands for the events that `FinalizeAccepted`, `FinalizeFailed`,
  `FinalizeAmbiguous` and `CreateInboundWithOutbox` insert with what they report.
* `NoticeOf` maps a row to what its owner may rely on: no row is `none`, `pending` and
  `sending` are `owed`, `delivered` is `done`, `failed` is `failed`, or `expired` once
  the payload is gone; the notices of a deleted webhook are `withdrawn`. An event
  counts as published when it is dispatched, or was purged before that.

The services. A request is a small process: it reads in one action and writes in a
later one, as the code does in separate queries, so that everything can happen in
between.

* `Accounts`: `Authorise` (the middleware's and the handler's role check),
  `CheckTarget` (the service's look at the target), then one action per statement.
  An API key has a role of its own. `ON DELETE CASCADE` and the foreign keys are part
  of the statements.
* The deletion of a team is one statement (`DELETE FROM teams`, `team_repo.go:111`) and
  the only one that writes tables of several parts, by its cascades. Each part has its
  share of it as an action: `DoDeleteTeam` (members, invitations, keys),
  `DeleteTeamBilling` (the columns of `teams`), `DeleteTeamDomains`,
  `DeleteTeamContacts` (and suppressions), `DeleteTeamEmails` (and batches),
  `DeleteTeamInbound`. It may come at any moment: what was authorised, read or checked
  before goes on, inserts fail at the foreign key, and updates find no row. `Cascade`
  in `Services` takes the six shares in one step.
* `Billing`: Stripe is an environment that emits events with a second and a name and
  delivers them in any order, any number of times. `order` is its own order: history.
  Stripe's idempotency key is taken to last; Stripe keeps keys for about a day, which is
  long for two Checkout calls that overlap, and `OneCustomer` is about those.
* `Domains`: `Verify` is five actions, the lookups are free choices except that of the
  row's token, which is found only if it has been published.
* `Consent`: `Unsubscribe` is two statements; `mail` is one email on its way through
  the check at intake and the check before the submission, each two queries, then
  `MarkSendStarted`, which is what tells a worker that its email went with the team;
  `refused` is history.
* `Intake`: a batch is a request with several items, each with the key
  `<batch key>:<index>`; `accepted` and `leaked` are history. `Midnight` makes every
  day that a request remembers a past one. The insert may fail, or commit and lose its
  reply: the lookup that follows then finds the request's own row, and the caller is told
  that the email is there although nobody has pushed it. That is the fault `api_gap`
  below. What becomes of the row's status is `SendAttempt`'s.
* `Inbound`: SES, SNS and SQS are the environment (external); `DeleteMessage` with a
  receipt handle that has been handed out again still deletes. Every mail is in SQS; the
  HTTP endpoint may get it as well, and only its way to a row is modelled: its 200 answers
  without one ("ignored", "invalid email") change nothing, and a mail that came by HTTP
  alone and was answered so is gone.

### The four faults

`DeliveryQueue` takes a set `Faults`. They are the places where the code really
can leave a queued email with nothing to wake a worker for it:

* `api_gap`: the API stops between inserting the row and pushing its ID, cannot write
  the status after a failed push, or loses the reply of the insert;
* `overrun`: a worker outlives its send lease, its receipt's lease, or a tick
  outlasts a send lease;
* `dead_gap`: an ID reaches the dead list and its row is not failed;
* `replay_gap`: a replay stops between the row and the queue.

`NoLostWakeup` is checked and proved without them, all other crashes, failures and
lost replies included, and so says that these four are all there is. Two claims
of the documentation that a fault refutes (`DeadLetterIsReplayable`,
`RecoveredStaysPending`) are proved without the faults in the same way: what breaks
them is one of the four and nothing else. Everything else is checked, and proved,
with all four switched on.

## Runs

| Run | Shows | Instance | States |
|---|---|---|---|
| `send_attempt` | `AtMostOneLiveSubmission`, `CancelledNeverSent`, `SendingIsRecoverable`, `ReportedSentIsGenuine`, `AmbiguousNeedsEvidence`, `LiveAttemptKeepsItsRow`, `TypeOK` | 1 email, 2 workers, 3 UUIDs | 169,341 |
| `send_attempt_live` | `SendingResolves`, under fairness | 1 email, 2 workers, 2 UUIDs | 104,699 |
| `queue_wakeups` | `NoLostWakeup`, no faults | 1 email, 2 workers, 2 UUIDs, 3 tokens | 768,561 |
| `queue_faults` | `ImplementsSendAttempt`, `ReceiptIsFenced`, `QueueTypeOK`, all faults | 1 email, 2 workers, 1 UUID, 2 tokens | 184,516 |
| `queue_live` | `ReceiptsReturn`, all faults, under fairness | 1 email, 1 worker, 1 UUID, 2 tokens | 31,904 |
| `event_pipeline` | `KeepsPromise` and `StoredIsHandled`, under fairness; `AppliedIsPublished`, `PurgedIsSettled`, `PipeTypeOK` | 1 webhook, 2 handlers, 2 webhook workers, 1 fault, 1 of 3 kinds of event | 90,924 |
| `services` | the fourteen invariants and two action properties of the services | see below | 2,595,233 |

What the properties say, and why they are not obvious:

* **AtMostOneLiveSubmission**: whatever is redelivered, whoever stalls, whichever
  replies are lost, the provider takes an email a second time only after the first
  was declared failed. Breaks if recovery requeues a started attempt.
* **CancelledNeverSent**: no submission before or after a successful cancel.
* **SendingIsRecoverable**, **SendingResolves**: an open attempt is always one the
  recovery statements match, and so it ends even if its worker is gone.
* **ReportedSentIsGenuine**: a message ID in the row, and any status that tells the
  customer the mail went out, is backed by something the provider took.
* **AmbiguousNeedsEvidence**: an unknown outcome is settled by a reviewer or an
  event, never by sending again.
* **LiveAttemptKeepsItsRow**: while its lease runs, an attempt is ended by its own
  worker or a provider's event, not by the second worker that has the email, the tick,
  a cancellation or a replay. The one exception is in the property: an API call that
  takes its push for failed (`OwnedRowIsFenced`, below).
* **NoLostWakeup**: a queued row has an item, a receipt, the recovery flag, or a
  caller between two of its steps.
* **ReceiptIsFenced**, **ReceiptsReturn**: a slow worker cannot take away the
  receipt of the one that has the email now; no receipt stays for ever.
* **KeepsPromise**: `MarkDelivered` and `MarkFailed` look at the status and not at the
  claim, `RecoverStale` does not look at the attempt limit, and retention fails what is
  being sent. For all that a delivery is marked delivered only if the endpoint had it,
  delivered and purged are final, an event is dispatched once and to those who
  subscribed at that moment, and what is owed to a webhook that is on ends.
* **AppliedIsPublished**: an event's effect and its publication are never apart,
  although several handlers may hold it.
* **StoredIsHandled**: an acknowledged event ends as processed or ignored; if its email
  can be found all along it is applied, unless a week passes or it is purged.
* **PurgedIsSettled**: nothing waits for a payload that is gone.
* **CreatorStaysOwner**, **InvitationsAreSingleUse**, **NothingOutlivesTeam**: checks
  and writes in separate queries never lose the owner, let a removed member in again
  with the old token, or leave members, invitations or keys of a deleted team.
* **NewestEventWins**, **OneCustomer**: the plan does not depend on the order of
  arrival; overlapping Checkout calls do not make two customers.
* **OwnershipProved**, **RoutingIsUnambiguous**: a slow `Verify` does not verify the row
  that replaced its own; a name has one row over all teams, and none of a deleted one.
* **NoMailAfterRefusal**, **SuppressionsOnlyGrow**: no check that starts after a refusal
  leads to a submission, although a contact's update can write an old subscription back
  and the suppressions of a deleted team are gone when the worker looks. A refusal after
  the check began is not caught by the code and not by the property.
* **KeysAreExact**, **BatchesAreWhole**, **QuotaIsExact**: one key, one email, of the
  payload asked for; a batch key never mixes payloads; the day's counter is exactly what
  is queued, under way or leaked, across midnight, lost replies and deaths.
* **NoMailIsLost**, **OneEventPerMail**, **RetentionLeavesNoObject**: a mail is acknowledged
  only after its row, stored once per team with one event, and a row that retention removes
  leaves no object. A deleted team's rows do: the cascade drops the only names of their
  objects, `purgeInbound` lists them no more, and what remains is the lifecycle rule of the
  bucket (`infra/aws/messaging.yaml:49-54`). The documentation promises deletion by
  retention only (`docs/production-readiness.md:65-68`), so this is a limit of the
  property and no finding.

Bounds. Rows of different emails are written by statements on one ID each and
only the uniqueness of UUIDs connects them, so one email shows the interleavings;
the proofs cover any number. Two workers are enough for every race between an
owner and an intruder (all the others who write the row are there as well). Three
UUIDs allow a claim, a replay and the claim after it. In the queue
`MaxEmailAttempts` is 2 for the code's 5, so that both outcomes of `Requeue`
happen; `DeadCap` 1 for 10000, so that the trim happens; `MaxPending` 1 bounds what
is pushed, while recovered receipts may exceed it. Symmetry over UUIDs, workers and
tokens is used in safety runs only. The queue runs switch the deadlock check off:
once every email is settled nothing need happen. With more (4 UUIDs in
`send_attempt`; 2 UUIDs and 1 token in `queue_faults`; 2 workers in `queue_live`)
the same properties hold.

In the pipeline one event enters (`MaxEvents`), but it may be of any of the three kinds
(a provider's, the service's own, a test), and rows of different events are written by
statements on one ID each. `AttemptLimit` is 2 for the code's 5 and `InboxLimit` 2 for
20, so that both the retry and the end happen; `MaxFaults` 1 is a death, a lost reply, a
failed statement, an overrun lease or an email that moves, anywhere. The deadlock check
is on: retention comes round for ever.

In `services` one part moves in a behaviour (`focus`), with its share of a team's
deletion. What one part brings to another enters it as a free choice, and every property
reads the variables of one part, so nothing is lost by that: the run's specification is a
case of `ApiSpec`, in which all parts move and a team is deleted from all of them in one
step, and `PromisesHoldTogether` proves the properties of that one. The instance: 2 users,
2 invitations, 1 key, 2 requests; 2 Stripe events in 2 seconds (`MaxSecond`), 2 Checkout
calls; 2 teams, 2 rows and 2 requests for one domain name; 2 addresses and 2 contacts;
2 intake requests, 2 rows (`MaxEmails`), batches of 2 items of 1 or 2 recipients, limits
of 1 or 2; 1 mail, 2 teams, 2 workers, 2 receipts (`MaxReceives`). Two of each is what it
takes to have an owner and an intruder; the proofs cover all numbers. `SingleKeys` is
empty for the size of the run: a keyed single email behaves like the first item of a
batch without its manifest, and sends without a key are there (`NoKey`). The proofs of
`Intake` allow any `SingleKeys`, also such as equal the key of a batch's item, which the
code does not keep apart. Deadlock is not checked: invitations, IDs and events run out.

Fairness. `FairSpec` assumes that leases run out and that `RecoverExpiredSendAttempts`
is called again and again while it has something to do; `QueueFairSpec` the same of
receipt leases and `Recover`. Both are the 30-second ticker of `EmailWorker.Start`,
which any live worker runs, together with the clock. Nothing is assumed of the
worker that holds the attempt, of SES, of API clients or of operators.
`PipeFairness` assumes that the loops of provider event and webhook workers go on
(`ClaimEvent` and what follows, `DispatchNextOutbox`, claim, post, mark), that the
30-second ticks of `RecoverStale` and `RecoverStalePipelineWork` come round, and that
leases run out. A worker may die in between, which is a fault. Nothing is assumed of
the endpoint's answer, of requests or of the purge.

### Where the code and what is said of it differ

Five runs are expected to fail; `PROJECT.json` quotes the text under `findings`.

* `owned_row_is_fenced`: the API's push reports an error although it ran; its
  unconditional `UpdateStatus(failed)` then hits a row a worker has claimed.
* `event_ends_its_own_attempt`: an event handler looks the email up, a review and
  a replay start a new attempt, and the old message's `failed` event ends it.
* `dead_letter_is_replayable`: an ID on the dead list whose row is still queued is
  not listed and cannot be replayed.
* `recovered_stays_pending`: a slow tick clears the flag of a later recovery.
* `stale_never_overwrites`: of two Stripe events of one second the one with the larger
  name wins, be it the older.

## Proofs

For arbitrary `Emails`, `Workers`, `Attempts` and `Tokens`, from
`AttemptAssumption` (NULL is no UUID) and `QueueAssumption` (positive bounds, NULL
is no receipt) only.

`SendAttemptProofs`: the invariants above are not inductive. `IInv` adds

* `LiveIsRecorded`: a submission that counts is the attempt its row names, and the
  row is `send_started`, `accepted` or `ambiguous`, states no claim, replay or
  cancellation matches;
* `WorkersInv`: the same of a worker that stands before the provider call (the
  submission is still to come), and that a worker which will release or fail its
  attempt knows that the provider has not taken it;
* `ClaimsUnique`, `DrawnIsUsed`: no two workers hold the same attempt, and a fresh
  UUID was never submitted;
* `RowsInv`, `HandlersInv`, `NewIsAbsent`: the shape of a row, and that events are
  of messages that were taken.

One lemma per statement of `EmailRepo` says what it does to a row; one per action
that the action keeps `IInv`. From it follow `NoDoubleSubmission`, `CancelIsFinal`,
`NoStrandedAttempt`, `NoFalseReceipt`, `TypeCorrectness` and, as an action property,
`AmbiguityIsSettledByEvidence`. `IInv` itself was checked with TLC before it was proved.
`LiveAttemptsAreFenced`, the second action property, has a lemma per action as well:
those of the other writers of a row need that their guards exclude a live `sending`,
those of a worker that the attempt it names (`ClaimsUnique`) is its own.

`DeliveryQueueProofs`: `QueueImplements` (each step of the queue model is a step of
`SendAttempt` or leaves its variables alone), hence `QueueIsSafe`, the properties of
`SendAttempt` for the system with the queue; `QueueTypeCorrectness`, whose invariant
also says that the processing list is finite (`Recover` enumerates it);
`ReceiptsAreFenced`. These hold under every fault.

`NothingIsForgotten` is `NoLostWakeup` for `Faults = {}`. `NoLostWakeup` is far from
inductive: what keeps an email may be an item that a worker is about to remove, or a
flag that a tick is about to clear. `WakeInv` consists of

* `SourcesInv`: a queued row has a source that leaves another one when it goes: an item
  on the pending list or in the schedule; a receipt whose worker, if it has one, gives
  it back; the flag, without a tick that is about to clear it; an API call still to
  push; a replay between its steps; or a worker that is about to fail the row after its
  last attempt;
* `HeldInv`: the receipt of a worker is on the processing list with a live lease, and
  two workers never hold receipts of one token. Without it an `Ack` might
  take the item of somebody else;
* `TickInv`: a row that a tick has listed is not in an attempt whose lease has run out,
  so that it is not recovered a second time before the tick clears its flag. This is
  what `overrun` breaks. `RecoveredRowsStayPending` follows: a flag that a tick is about
  to clear is no source, so the row has another one;
* `CallersInv`: the tokens of replays are used and of one email each.

One lemma per action shows which source is left. The hard ones are those in which a
worker removes an item: the row must have left `queued` before, or another source must
have come. `DeadLettersAreReplayable` is a corollary.

`EventPipelineProofs`: `PromiseIsKept`, that every step maps to a step of `Notice` or
leaves its variables alone, for any sets of events, webhooks, handlers and workers and
any number of faults. The invariant `PipeInv` adds to the types and to
`AppliedIsPublished` and `PurgedIsSettled`: a delivery exists only for a published event
and a webhook that is there (`DeliveriesInv`; so that dispatching or testing never meets
a row it did not make); a worker at work has such a delivery or one that went with its
webhook, and if it is about to report a success it has posted (`PostersInv`; so that
`MarkDelivered` is `Settle` although it checks no claim); test events never pass through
the outbox, and a handler at work has an event of the inbox. One lemma per action shows
that the invariant is kept and which step of `Notice` it is. `PublishedIffApplied` and
`NothingWaitsForPurged` follow, and `PipeTypeCorrectness`.

The services' proofs have the same shape: an invariant per module, a lemma per action,
and a theorem per property.

* `TeamProofs`, accounts (`AccountsInv`): a checked request never aims at the creator and
  never grants ownership, an invitation never carries it, and members, invitations and
  keys need the team's row. Hence `OneOwner`, `DeletionIsComplete`, `JoiningUsesInvitation`.
* `TeamProofs`, billing (`BillingInv`): the columns are those of the recorded event named
  in the row, which no recorded event exceeds; requests carry the one customer. Hence
  `PlanOfNewest`, `SingleCustomer`. `StripeInv` types Stripe's own order, a count of the
  events so far, which is finite although the set of event names need not be.
* `PermissionProofs`, domains (`DomainsInv`): a request whose checks all passed, past the
  token's lookup, works for a row whose token was published; at most one row exists.
  Hence `VerifiedMeansOwned`, `OneTeamPerName`.
* `PermissionProofs`, consent (`ConsentInv`): as long as the team is there, who has refused
  is suppressed, and no contact matters to that; a mail that passed its check in spite of a
  refusal did so after the deletion (`LateInv`), and will not find its row. Hence
  `RefusalsAreKept`, `SuppressionsGrow`.
* `InboundProofs` (`InboundInv`): a worker about to acknowledge has a row behind it, or one
  that went with its team; an expired row is out of the queue and of every worker's hands;
  the object of a row is deleted before the row; the rows of a deleted team are gone
  (`CascadeInv`). Hence `MailIsKept`, `MailIsStoredOnce`, `RetentionIsThorough`.
* `IntakeProofs` (`IntakeInv`): a batch past its `Ensure` has the manifest's payload,
  and a row that a request goes on with is of its key and payload (`SlotsInv`); a stored key
  has one row (`KeysAreUnique`); an answer names the row of its key and payload, which for
  a batch is the manifest's item (`RepliesInv`). The day's counter is a sum over the
  requests under way, and sums need induction over a finite set, which is out of reach; so
  the model counts the units one by one: `UnitsHeld` is the set of pairs of a request and a
  unit it holds, and a step adds or removes the interval of one request, which the
  cardinality theorems of the library cover (`QuotaInv`). Hence `OneEmailPerKey`,
  `BatchesKeepTheirPayload`, `QuotaIsNeverWrong`.
  Any number of requests, keys, bodies and items is allowed; the limits have a largest one.
* `ServicesProofs`: what TLC explores is a behaviour of the whole API
  (`ServicesImplementApi`); a step of the API is a step or none of each part, the cascade
  being each part's own share of it (`ApiImplementsItsParts`); hence
  `ServicesTypeCorrectness`, and `PromisesHoldTogether`: the invariants and action
  properties of all parts, of the whole API.

Assumptions on the constants are those of the modules' `ASSUME`s: the kinds of events
are disjoint, limits are positive, NULL is nobody, keys of `POST /emails` and
of `POST /emails/batch` are different values (they are looked up in different tables, and
a client may well use one string for both).

Only model-checked: liveness, which is beyond the prover (`SendingResolves`,
`ReceiptsReturn`, `StoredIsHandled` and the fairness of `KeepsPromise`), and the five
counterexamples. Every invariant and every other action property that a run checks is
also proved.

## Not modelled

* `processFromQueueLegacy` and its statements: `cmd/worker` always sets the durable
  repositories.
* `PurgeEmailsBefore`, and what a team's deletion does to the email rows, webhooks, outbox
  and deliveries that `SendAttempt`, `DeliveryQueue` and `EventPipeline` are about: whole
  rows disappear, and with them the subject of those properties. In `Intake` and `Consent`
  the emails do go with their team.
* A limit of zero or less (no quota), a notification without a message ID.
* The content of payloads (`ses_events.go` builds a webhook's payload from the email as it
  was read before the transaction), signatures of webhooks, SNS and unsubscribe links,
  tokens and password hashes, MIME parsing, DKIM keys: conversions, or checks of a
  request that keep no state.
* Billing's Portal and Status, dashboards and lists, health and metrics: read only.
* Configuration, the web front end and deployment files.

## What remains

* Deletion of email rows in `SendAttempt` and `DeliveryQueue`.
* The liveness properties rest on their instances.
