--------------------------- MODULE WebhookDelivery ---------------------------
(***************************************************************************)
(* From the outbox to the customer's endpoint: the webhook handlers        *)
(* (webhook_handler.go), the dispatch of an event to the webhooks that     *)
(* subscribe to it, and the webhook workers, which claim a delivery, post  *)
(* it and write down the outcome (webhook_worker.go).                      *)
(***************************************************************************)
EXTENDS WebhookRepo

CONSTANTS
    Subscriptions,  \* the sets of events a request may subscribe a webhook to
    WebhookWorkers, \* goroutines of WebhookWorker.Start, over all processes
    Nobody          \* no delivery, no edit

ASSUME SubscriptionAssumption ==
    Subscriptions \subseteq (SUBSET (Events \ TestEvents)) \ {{}}

VARIABLES
    hooks,      \* the table webhooks: webhook -> row
    deliveries, \* the table webhook_deliveries: <<event, webhook>> -> row
    poster,     \* worker -> where it is, with which delivery
    edit,       \* the copy that a PATCH request has read and not yet written
    tested,     \* event IDs the test endpoint has drawn
    posted      \* deliveries the endpoint has had: the truth

webhookVars == <<hooks, deliveries, poster, edit, tested, posted>>

Deliveries == Events \X Hooks

PosterState == [pc : {"idle", "claimed", "succeeded", "failed"},
                delivery : Deliveries \cup {Nobody}]

IdlePoster == [pc |-> "idle", delivery |-> Nobody]

WebhookTypeOK ==
    /\ hooks \in [Hooks -> HookRow]
    /\ outbox \in [Events -> OutboxRow]
    /\ deliveries \in [Deliveries -> DeliveryRow]
    /\ poster \in [WebhookWorkers -> PosterState]
    /\ edit \in [hook : Hooks, copy : HookRow] \cup {Nobody}
    /\ tested \in SUBSET TestEvents
    /\ posted \in SUBSET Deliveries
    /\ faults \in 0..MaxFaults

WebhookInit ==
    /\ hooks = [h \in Hooks |-> NoHook]
    /\ outbox = [e \in Events |-> NoOutbox]
    /\ deliveries = [n \in Deliveries |-> NoDelivery]
    /\ poster = [w \in WebhookWorkers |-> IdlePoster]
    /\ edit = Nobody
    /\ tested = {}
    /\ posted = {}
    /\ faults = 0

-----------------------------------------------------------------------------
(* WebhookHandler                                                          *)

Create(h) ==
    /\ hooks[h].present = "no"
    /\ \E ev \in Subscriptions : hooks' = [hooks EXCEPT ![h] = CreateHook(ev)]
    /\ UNCHANGED <<deliveries, poster, edit, tested, posted, outbox, faults>>

\* PATCH reads the row and changes the fields of the request in the copy ...
UpdateRead(h) ==
    /\ edit = Nobody
    /\ hooks[h].present = "yes"
    /\ \E active \in BOOLEAN, ev \in Subscriptions :
          edit' = [hook |-> h, copy |-> [hooks[h] EXCEPT !.active = active, !.events = ev]]
    /\ UNCHANGED <<hooks, deliveries, poster, tested, posted, outbox, faults>>

\* ... then writes the whole copy, whatever has happened to the row since.
UpdateWrite ==
    /\ edit # Nobody
    /\ hooks' = [hooks EXCEPT ![edit.hook] = UpdateForTeam(@, edit.copy)]
    /\ edit' = Nobody
    /\ UNCHANGED <<deliveries, poster, tested, posted, outbox, faults>>

\* The deliveries go with the webhook: ON DELETE CASCADE.
Delete(h) ==
    /\ hooks[h].present = "yes"
    /\ hooks' = [hooks EXCEPT ![h] = DeleteForTeam(@)]
    /\ deliveries' = [n \in Deliveries |-> IF n[2] = h THEN NoDelivery ELSE deliveries[n]]
    /\ UNCHANGED <<poster, edit, tested, posted, outbox, faults>>

ReplayDelivery(n) ==
    /\ CanReplayFailed(deliveries[n], hooks[n[2]])
    /\ deliveries' = [deliveries EXCEPT ![n] = ReplayFailed(@)]
    /\ UNCHANGED <<hooks, poster, edit, tested, posted, outbox, faults>>

\* Test reads the webhook, which must be active, and inserts the delivery in a
\* second call: by then it may be paused, and if it is deleted the insert fails.
Test(h, e) ==
    /\ hooks[h].present = "yes"
    /\ e \in TestEvents \ tested
    /\ tested' = tested \cup {e}
    /\ deliveries' = [deliveries EXCEPT ![<<e, h>>] = CreateDelivery(@)]
    /\ UNCHANGED <<hooks, poster, edit, posted, outbox, faults>>

-----------------------------------------------------------------------------
(* WebhookWorker.run                                                       *)

Recipients(e) == {h \in Hooks : Subscribes(hooks[h], e)}

DispatchNextOutbox(e) ==
    /\ CanDispatch(outbox[e])
    /\ outbox' = [outbox EXCEPT ![e] = Dispatch(@)]
    /\ deliveries' = [n \in Deliveries |->
          IF n[1] = e /\ n[2] \in Recipients(e) THEN CreateDelivery(deliveries[n])
          ELSE deliveries[n]]
    /\ UNCHANGED <<hooks, poster, edit, tested, posted, faults>>

Claim(w, n) ==
    /\ poster[w].pc = "idle"
    /\ CanClaimDelivery(deliveries[n], hooks[n[2]])
    /\ deliveries' = [deliveries EXCEPT ![n] = ClaimDelivery(@)]
    /\ \/ poster' = [poster EXCEPT ![w] = [pc |-> "claimed", delivery |-> n]]
          /\ UNCHANGED faults
       \/ UNCHANGED poster /\ Fault                           \* the reply was lost
    /\ UNCHANGED <<hooks, edit, tested, posted, outbox>>

\* Up to three POSTs.  Success is a 2xx; anything else is a failure, of which
\* the endpoint may all the same have taken the request.
SendWebhook(w) ==
    /\ poster[w].pc = "claimed"
    /\ \E pc \in {"succeeded", "failed"}, took \in BOOLEAN :
          /\ pc = "succeeded" => took
          /\ poster' = [poster EXCEPT ![w].pc = pc]
          /\ posted' = IF took THEN posted \cup {poster[w].delivery} ELSE posted
    /\ UNCHANGED <<hooks, deliveries, edit, tested, outbox, faults>>

\* MarkDelivered or MarkFailed: by ID and status, not by claim.
Mark(w) ==
    /\ poster[w].pc \in {"succeeded", "failed"}
    /\ \/ /\ deliveries' = [deliveries EXCEPT ![poster[w].delivery] =
                IF poster[w].pc = "succeeded" THEN MarkDelivered(@) ELSE MarkFailed(@)]
          /\ UNCHANGED faults
       \/ Fault /\ UNCHANGED deliveries
    /\ poster' = [poster EXCEPT ![w] = IdlePoster]
    /\ UNCHANGED <<hooks, edit, tested, posted, outbox>>

PosterDies(w) ==
    /\ poster[w].pc # "idle"
    /\ Fault
    /\ poster' = [poster EXCEPT ![w] = IdlePoster]
    /\ UNCHANGED <<hooks, deliveries, edit, tested, posted, outbox>>

\* A minute has passed.  That is a fault while a worker is at it: the context
\* of a post ends after 15 seconds.
DeliveryLeaseExpires(n) ==
    /\ deliveries[n].lease = "live"
    /\ deliveries' = [deliveries EXCEPT ![n].lease = "expired"]
    /\ IF \E w \in WebhookWorkers : poster[w].delivery = n THEN Fault ELSE UNCHANGED faults
    /\ UNCHANGED <<hooks, poster, edit, tested, posted, outbox>>

RecoverStaleDeliveries ==
    /\ deliveries' = [n \in Deliveries |-> RecoverStale(deliveries[n])]
    /\ deliveries' # deliveries
    /\ UNCHANGED <<hooks, poster, edit, tested, posted, outbox, faults>>

PosterStep(w) == (\E n \in Deliveries : Claim(w, n)) \/ SendWebhook(w) \/ Mark(w)
=============================================================================
