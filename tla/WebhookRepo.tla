----------------------------- MODULE WebhookRepo -----------------------------
(***************************************************************************)
(* The tables behind event notification: webhooks, webhook_outbox and      *)
(* webhook_deliveries, and the statements that write their rows            *)
(* (internal/repository/webhook_repo.go, webhook_delivery_repo.go,         *)
(* delivery_pipeline_repo.go).                                             *)
(*                                                                         *)
(* As in EmailRepo, CanS(row) is the WHERE clause of statement S and       *)
(* S(row) the row after it.  URL, secret and the error texts are left out. *)
(* A payload is there or has been removed.  next_attempt_at is left out: a *)
(* retry becomes due some time later, and a claim may come as late as it   *)
(* likes.  attempts is capped: it is only ever compared with the limit.    *)
(***************************************************************************)
EXTENDS Integers, FiniteSets

CONSTANTS
    Events,         \* event IDs
    InboundEvents,  \* those about received mail: retention class 'inbound'
    TestEvents,     \* those made by the test endpoint, which skip the outbox
    Hooks,          \* webhook IDs
    AttemptLimit,   \* maxWebhookDeliveryAttempts
    MaxFaults       \* bound: crashes, failed database calls and overrun leases

VARIABLES
    outbox,         \* the table webhook_outbox: event -> row
    faults          \* faults so far

ASSUME WebhookAssumption ==
    /\ InboundEvents \subseteq Events /\ TestEvents \subseteq Events
    /\ InboundEvents \cap TestEvents = {}
    /\ AttemptLimit \in Nat \ {0} /\ MaxFaults \in Nat

Fault == faults < MaxFaults /\ faults' = faults + 1

RetentionClass(e) == IF e \in InboundEvents THEN "inbound" ELSE "outbound"

Lease == {"null", "live", "expired"}

HookRow == [present : {"no", "yes", "deleted"}, active : BOOLEAN, events : SUBSET Events]

NoHook == [present |-> "no", active |-> FALSE, events |-> {}]

\* 'processing' is written and overwritten inside DispatchNextOutbox's
\* transaction: nobody ever reads it.
OutboxRow == [status : {"absent", "pending", "dispatched", "failed"}, payload : BOOLEAN]

NoOutbox == [status |-> "absent", payload |-> FALSE]

DeliveryRow == [status   : {"absent", "pending", "sending", "delivered", "failed"},
                attempts : 0..AttemptLimit,
                payload  : BOOLEAN,
                lease    : Lease]

NoDelivery == [status |-> "absent", attempts |-> 0, payload |-> FALSE, lease |-> "null"]

-----------------------------------------------------------------------------
(* webhooks                                                                *)

CreateHook(ev) == [present |-> "yes", active |-> TRUE, events |-> ev]

\* All columns of the copy that was read.
UpdateForTeam(r, copy) ==
    IF r.present = "yes" THEN [r EXCEPT !.active = copy.active, !.events = copy.events] ELSE r

DeleteForTeam(r) == [present |-> "deleted", active |-> FALSE, events |-> {}]

Subscribes(r, e) == r.present = "yes" /\ r.active /\ e \in r.events

-----------------------------------------------------------------------------
(* webhook_outbox                                                          *)

\* ON CONFLICT (event_id) DO NOTHING
InsertOutbox(r) == IF r.status = "absent" THEN [status |-> "pending", payload |-> TRUE] ELSE r

CanDispatch(r) == r.status = "pending" /\ r.payload

\* Mutant: a status the table does not have.
Dispatch_Sent(r) == [r EXCEPT !.status = "sent"]

Dispatch(r) == [r EXCEPT !.status = "dispatched"]

PurgeOutbox(r) ==
    IF ~r.payload THEN r
    ELSE [payload |-> FALSE, status |-> IF r.status = "pending" THEN "failed" ELSE r.status]

-----------------------------------------------------------------------------
(* webhook_deliveries                                                      *)

\* ON CONFLICT (webhook_id, event_id) DO NOTHING
CreateDelivery(d) ==
    IF d.status # "absent" THEN d
    ELSE [status |-> "pending", attempts |-> 0, payload |-> TRUE, lease |-> "null"]

CanClaimDelivery(d, hookRow) ==
    hookRow.present = "yes" /\ hookRow.active /\ d.status = "pending" /\ d.payload

ClaimDelivery(d) ==
    [d EXCEPT !.status = "sending", !.lease = "live",
              !.attempts = IF @ < AttemptLimit THEN @ + 1 ELSE @]

\* Mutant: any status may become delivered.
MarkDelivered_Any(d) == [d EXCEPT !.status = "delivered", !.lease = "null"]

MarkDelivered(d) ==
    IF d.status = "sending" THEN [d EXCEPT !.status = "delivered", !.lease = "null"] ELSE d

MarkFailed(d) ==
    IF d.status = "sending"
    THEN [d EXCEPT !.status = IF d.attempts >= AttemptLimit THEN "failed" ELSE "pending",
                   !.lease = "null"]
    ELSE d

\* The limit is not looked at.
RecoverStale(d) ==
    IF d.status = "sending" /\ d.lease = "expired"
    THEN [d EXCEPT !.status = "pending", !.lease = "null"] ELSE d

CanReplayFailed(d, hookRow) ==
    hookRow.present = "yes" /\ hookRow.active /\ d.status = "failed" /\ d.payload

ReplayFailed(d) == [d EXCEPT !.status = "pending", !.attempts = 0, !.lease = "null"]

\* Mutant: the payload goes, the status stays.
PurgeDelivery_Payload(d) == [d EXCEPT !.payload = FALSE, !.lease = "null"]

PurgeDelivery(d) ==
    IF ~d.payload THEN d
    ELSE [d EXCEPT !.payload = FALSE, !.lease = "null",
                   !.status = IF @ \in {"pending", "sending"} THEN "failed" ELSE @]
=============================================================================
