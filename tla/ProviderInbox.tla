---------------------------- MODULE ProviderInbox ----------------------------
(***************************************************************************)
(* The inbox of provider events: an SES notification is stored, claimed by *)
(* the request that brought it or by the provider event worker, correlated *)
(* with an email and applied in one transaction that also publishes it in  *)
(* the outbox (ses_events.go, the inbox half of delivery_pipeline_repo.go, *)
(* provider_event_worker.go).                                              *)
(*                                                                         *)
(* What applying does to the email's row is SendAttempt's subject.  Here   *)
(* an email is known (the message ID or the attempt tag finds it), not     *)
(* known (yet, or no longer), or claimed by another attempt.               *)
(***************************************************************************)
EXTENDS WebhookRepo

CONSTANTS
    ProviderEvents, \* events SES reports
    Handlers,       \* request goroutines and workers that handle inbox rows
    InboxLimit,     \* attempts after which an unknown email is given up: 20
    NoEvent

ASSUME InboxAssumption ==
    /\ ProviderEvents \subseteq Events /\ ProviderEvents \cap (InboundEvents \cup TestEvents) = {}
    /\ NoEvent \notin Events
    /\ InboxLimit \in Nat \ {0}

VARIABLES
    inbox,      \* the table provider_event_inbox: event -> row
    email,      \* event -> what a lookup of its email finds
    week,       \* events stored more than seven days ago
    handler,    \* handler -> where it is, with which event
    applied     \* events recorded in email_events

inboxVars == <<inbox, email, week, handler, applied>>

InboxRow == [status   : {"absent", "pending", "processing", "processed", "ignored"},
             attempts : 0..InboxLimit,
             payload  : BOOLEAN,
             lease    : Lease]

NoInbox == [status |-> "absent", attempts |-> 0, payload |-> FALSE, lease |-> "null"]

HandlerState == [pc : {"idle", "claimed", "apply", "retry", "ignore"},
                 event : ProviderEvents \cup {NoEvent},
                 last : BOOLEAN]    \* the claim was the last the limit allows

IdleHandler == [pc |-> "idle", event |-> NoEvent, last |-> FALSE]

InboxTypeOK ==
    /\ inbox \in [ProviderEvents -> InboxRow]
    /\ email \in [ProviderEvents -> {"unknown", "known", "other"}]
    /\ week \in SUBSET ProviderEvents
    /\ handler \in [Handlers -> HandlerState]
    /\ applied \in SUBSET ProviderEvents

InboxInit ==
    /\ inbox = [e \in ProviderEvents |-> NoInbox]
    /\ email \in [ProviderEvents -> {"unknown", "known"}]
    /\ week = {}
    /\ handler = [i \in Handlers |-> IdleHandler]
    /\ applied = {}

-----------------------------------------------------------------------------
(* Statements on the inbox.                                                *)

StoreProviderEvent(r) ==
    IF r.status # "absent" THEN r
    ELSE [status |-> "pending", attempts |-> 0, payload |-> TRUE, lease |-> "null"]

CanClaimProviderEvent(r) == r.status = "pending" /\ r.payload

ClaimProviderEvent(r) ==
    [r EXCEPT !.status = "processing", !.lease = "live",
              !.attempts = IF @ < InboxLimit THEN @ + 1 ELSE @]

RetryProviderEvent(r, terminal) ==
    IF r.status # "processing" THEN r
    ELSE [r EXCEPT !.status = IF terminal THEN "ignored" ELSE "pending", !.lease = "null"]

\* The inbox's part of ApplyProviderEvent's transaction.
MarkProcessed(r) ==
    IF r.status # "processing" THEN r ELSE [r EXCEPT !.status = "processed", !.lease = "null"]

\* Mutant: an expired claim stays.
RecoverInbox_Never(r) == r

RecoverInbox(r) ==
    IF r.status = "processing" /\ r.lease = "expired"
    THEN [r EXCEPT !.status = "pending", !.lease = "null"] ELSE r

PurgeInbox(r) ==
    IF ~r.payload THEN r
    ELSE [r EXCEPT !.payload = FALSE, !.lease = "null",
                   !.status = IF @ \in {"pending", "processing"} THEN "ignored" ELSE @]

-----------------------------------------------------------------------------
(* SESEventHandler.Handle: SNS may deliver an event any number of times.   *)
(* The request stores the event and then handles it like a worker; the     *)
(* answer is 2xx once the event is stored.                                 *)

Handle(e) ==
    /\ inbox' = [inbox EXCEPT ![e] = StoreProviderEvent(@)]
    /\ UNCHANGED <<email, week, handler, applied, outbox, faults>>

InGoto(i, l) == handler' = [handler EXCEPT ![i].pc = l]

\* After an error: an event a week old is given up.
RetryOrGiveUp(i) == InGoto(i, IF handler[i].event \in week THEN "ignore" ELSE "retry")

ClaimEvent(i, e) ==
    /\ handler[i].pc = "idle"
    /\ CanClaimProviderEvent(inbox[e])
    /\ inbox' = [inbox EXCEPT ![e] = ClaimProviderEvent(@)]
    /\ handler' = [handler EXCEPT ![i] =
          [pc |-> "claimed", event |-> e, last |-> inbox[e].attempts + 1 >= InboxLimit]]
    /\ UNCHANGED <<email, week, applied, outbox, faults>>

\* GetByProviderMessageID, then GetByID by the tags.
Correlate(i) ==
    /\ handler[i].pc = "claimed"
    /\ \/ RetryOrGiveUp(i) /\ Fault                                 \* a query failed
       \/ /\ UNCHANGED faults
          /\ CASE email[handler[i].event] = "known"   -> InGoto(i, "apply")
               [] email[handler[i].event] = "other"   -> InGoto(i, "ignore")
               [] email[handler[i].event] = "unknown" ->
                     IF handler[i].last THEN InGoto(i, "ignore") ELSE RetryOrGiveUp(i)
    /\ UNCHANGED <<inbox, email, week, applied, outbox>>

\* Mutant: a handler that finds its claim gone does not publish.
Apply_IfClaimed(e) ==
    /\ applied' = applied \cup {e}
    /\ inbox' = [inbox EXCEPT ![e] = MarkProcessed(@)]
    /\ outbox' = IF inbox[e].status = "processing"
                 THEN [outbox EXCEPT ![e] = InsertOutbox(@)] ELSE outbox

\* The transaction: the event is recorded, published and marked.
Apply(e) ==
    /\ applied' = applied \cup {e}
    /\ outbox' = [outbox EXCEPT ![e] = InsertOutbox(@)]
    /\ inbox' = [inbox EXCEPT ![e] = MarkProcessed(@)]

\* The email may have changed since it was looked up.
ApplyProviderEventTx(i) ==
    /\ handler[i].pc = "apply"
    /\ LET e == handler[i].event IN
       \/ /\ email[e] = "known"
          /\ Apply(e)
          /\ \/ handler' = [handler EXCEPT ![i] = IdleHandler] /\ UNCHANGED faults
             \/ RetryOrGiveUp(i) /\ Fault                          \* the reply was lost
       \/ /\ email[e] = "other" /\ InGoto(i, "ignore")
          /\ UNCHANGED <<applied, outbox, inbox, faults>>
       \/ /\ email[e] = "unknown" /\ RetryOrGiveUp(i)
          /\ UNCHANGED <<applied, outbox, inbox, faults>>
    /\ UNCHANGED <<email, week>>

\* The retry itself may fail; the lease then brings the event back.
Retry(i) ==
    /\ handler[i].pc \in {"retry", "ignore"}
    /\ \/ /\ inbox' = [inbox EXCEPT ![handler[i].event] =
                RetryProviderEvent(@, handler[i].pc = "ignore")]
          /\ UNCHANGED faults
       \/ Fault /\ UNCHANGED inbox
    /\ handler' = [handler EXCEPT ![i] = IdleHandler]
    /\ UNCHANGED <<email, week, applied, outbox>>

HandlerDies(i) ==
    /\ handler[i].pc # "idle"
    /\ Fault
    /\ handler' = [handler EXCEPT ![i] = IdleHandler]
    /\ UNCHANGED <<inbox, email, week, applied, outbox>>

HeldBy(i, e) == handler[i].pc # "idle" /\ handler[i].event = e

\* A minute has passed.  That is a fault while a handler is at work on e.
InboxLeaseExpires(e) ==
    /\ inbox[e].lease = "live"
    /\ inbox' = [inbox EXCEPT ![e].lease = "expired"]
    /\ IF \E i \in Handlers : HeldBy(i, e) THEN Fault ELSE UNCHANGED faults
    /\ UNCHANGED <<email, week, handler, applied, outbox>>

RecoverStalePipelineWork ==
    /\ inbox' = [e \in ProviderEvents |-> RecoverInbox(inbox[e])]
    /\ inbox' # inbox
    /\ UNCHANGED <<email, week, handler, applied, outbox, faults>>

\* FinalizeAccepted, or a review, stores the message ID, and wakes the inbox.
EmailFinalized(e) ==
    /\ email[e] = "unknown"
    /\ email' = [email EXCEPT ![e] = "known"]
    /\ inbox' = [inbox EXCEPT ![e] = RecoverInbox(@)]
    /\ UNCHANGED <<week, handler, applied, outbox, faults>>

\* The email is replayed under a new attempt, or deleted.
EmailMoved(e) ==
    /\ email[e] = "known" /\ inbox[e].status # "absent"
    /\ email' = [email EXCEPT ![e] = "other"] \/ email' = [email EXCEPT ![e] = "unknown"]
    /\ Fault
    /\ UNCHANGED <<inbox, week, handler, applied, outbox>>

WeekPasses(e) ==
    /\ inbox[e].status \in {"pending", "processing"} /\ e \notin week
    /\ week' = week \cup {e}
    /\ UNCHANGED <<inbox, email, handler, applied, outbox, faults>>

HandlerStep(i) ==
    \/ \E e \in ProviderEvents : ClaimEvent(i, e)
    \/ Correlate(i) \/ ApplyProviderEventTx(i) \/ Retry(i)

-----------------------------------------------------------------------------
(* An event whose effect is recorded is published, and nothing is          *)
(* published that was not applied, although several handlers may be at     *)
(* work on it and any of them may lose its claim, its reply or its life:   *)
(* ApplyProviderEvent's transaction and its ON CONFLICT clauses.           *)
AppliedIsPublished ==
    \A e \in ProviderEvents :
        /\ e \in applied <=> outbox[e].status # "absent"
        /\ inbox[e].status = "processed" => e \in applied

\* An acknowledged event is not forgotten: it is processed, or ends as ignored
\* (given up or purged), although a handler that has lost its lease may hand
\* the row to pending or ignored under another's feet (RetryProviderEvent).
\* And if its email can be found all along, it is applied within the week.
StoredIsHandled ==
    \A e \in ProviderEvents :
        /\ inbox[e].status = "pending" ~> inbox[e].status \in {"processed", "ignored"}
        /\ [](email[e] = "known") =>
              (inbox[e].status = "pending" ~> e \in applied \cup week \/ ~inbox[e].payload)
=============================================================================
