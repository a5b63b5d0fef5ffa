------------------------- MODULE EventPipelineProofs -------------------------
(***************************************************************************)
(* The event pipeline implements the safety part of Notice, publishes what *)
(* it applies and leaves nothing waiting for a payload that retention has  *)
(* removed, for any sets of events, webhooks, handlers and workers and any *)
(* number of faults.                                                       *)
(*                                                                         *)
(* One invariant carries the three.  The refinement needs to know that a   *)
(* delivery exists only for a published event and a webhook that is there  *)
(* (DeliveriesInv), that a worker at work has such a delivery or one that  *)
(* went with its webhook, and that it reports a success only of what it    *)
(* has posted (PostersInv).                                                *)
(***************************************************************************)
EXTENDS EventPipeline, TLAPS

\* The events that Notice takes as published.
Published == {e \in Events : outbox[e].status \in {"dispatched", "failed"}} \cup tested

\* A handler at work has an event of the inbox.
HandlersInv == \A i \in Handlers : handler[i].pc # "idle" => handler[i].event \in ProviderEvents

\* Test events never pass through the outbox.
TestsSkipOutbox == \A e \in TestEvents : outbox[e].status = "absent"

DeliveriesInv ==
    \A n \in Deliveries :
        deliveries[n].status # "absent" => hooks[n[2]].present = "yes" /\ n[1] \in Published

PostersInv ==
    \A w \in WebhookWorkers : poster[w].pc # "idle" =>
        /\ poster[w].delivery \in Deliveries
        /\ \/ hooks[poster[w].delivery[2]].present = "deleted"
           \/ deliveries[poster[w].delivery].status # "absent"
        /\ poster[w].pc = "succeeded" => poster[w].delivery \in posted

PipeInv ==
    /\ PipeTypeOK /\ AppliedIsPublished /\ PurgedIsSettled
    /\ HandlersInv /\ TestsSkipOutbox /\ DeliveriesInv /\ PostersInv

-----------------------------------------------------------------------------
(* Facts about rows.                                                       *)

\* Deliveries are pairs.
LEMMA DeliveryPairs ==
    /\ \A n \in Deliveries : n = <<n[1], n[2]>> /\ n[1] \in Events /\ n[2] \in Hooks
    /\ \A e \in Events, h \in Hooks : <<e, h>> \in Deliveries /\ <<e, h>>[1] = e /\ <<e, h>>[2] = h
BY DEF Deliveries

\* The statements on the inbox yield rows, and only MarkProcessed marks one.
LEMMA InboxRows ==
    ASSUME NEW r \in InboxRow
    PROVE  /\ StoreProviderEvent(r) \in InboxRow /\ RecoverInbox(r) \in InboxRow
           /\ PurgeInbox(r) \in InboxRow /\ MarkProcessed(r) \in InboxRow
           /\ CanClaimProviderEvent(r) => ClaimProviderEvent(r) \in InboxRow
           /\ \A t \in BOOLEAN : RetryProviderEvent(r, t) \in InboxRow
           /\ [r EXCEPT !.lease = "expired"] \in InboxRow
<1>1. StoreProviderEvent(r) \in InboxRow
  BY InboxAssumption DEF StoreProviderEvent, InboxRow, Lease
<1>2. RecoverInbox(r) \in InboxRow /\ PurgeInbox(r) \in InboxRow /\ MarkProcessed(r) \in InboxRow
  BY DEF RecoverInbox, PurgeInbox, MarkProcessed, InboxRow, Lease
<1>3. ClaimProviderEvent(r) \in InboxRow
  <2> DEFINE a == IF r.attempts < InboxLimit THEN r.attempts + 1 ELSE r.attempts
  <2>1. a \in 0..InboxLimit
    BY InboxAssumption DEF InboxRow
  <2>2. ClaimProviderEvent(r) = [r EXCEPT !.status = "processing", !.lease = "live", !.attempts = a]
    BY DEF ClaimProviderEvent
  <2> HIDE DEF a
  <2> QED
    BY <2>1, <2>2 DEF InboxRow, Lease
<1>4. ASSUME NEW t \in BOOLEAN PROVE RetryProviderEvent(r, t) \in InboxRow
  BY DEF RetryProviderEvent, InboxRow, Lease
<1>5. [r EXCEPT !.lease = "expired"] \in InboxRow
  BY DEF InboxRow, Lease
<1> QED
  BY <1>1, <1>2, <1>3, <1>4, <1>5

LEMMA OnlyMarkProcesses ==
    ASSUME NEW r \in InboxRow, r.status # "processed"
    PROVE  /\ StoreProviderEvent(r).status # "processed" /\ RecoverInbox(r).status # "processed"
           /\ PurgeInbox(r).status # "processed" /\ ClaimProviderEvent(r).status # "processed"
           /\ \A t \in BOOLEAN : RetryProviderEvent(r, t).status # "processed"
           /\ [r EXCEPT !.lease = "expired"].status # "processed"
<1>1. StoreProviderEvent(r).status # "processed"
  BY DEF StoreProviderEvent
<1>2. /\ RecoverInbox(r).status # "processed" /\ PurgeInbox(r).status # "processed"
      /\ ClaimProviderEvent(r).status # "processed"
  BY DEF RecoverInbox, PurgeInbox, ClaimProviderEvent, InboxRow
<1>3. ASSUME NEW t \in BOOLEAN PROVE RetryProviderEvent(r, t).status # "processed"
  BY DEF RetryProviderEvent, InboxRow
<1>4. [r EXCEPT !.lease = "expired"].status # "processed"
  BY DEF InboxRow
<1> QED
  BY <1>1, <1>2, <1>3, <1>4

\* The statements on the outbox.
LEMMA OutboxRows ==
    ASSUME NEW r \in OutboxRow
    PROVE  /\ InsertOutbox(r) \in OutboxRow /\ InsertOutbox(r).status # "absent"
           /\ InsertOutbox(r).status \in {"dispatched", "failed"} <=> r.status \in {"dispatched", "failed"}
           /\ Dispatch(r) \in OutboxRow /\ Dispatch(r).status = "dispatched"
           /\ PurgeOutbox(r) \in OutboxRow /\ (PurgeOutbox(r).status = "absent" <=> r.status = "absent")
           /\ r.status \in {"dispatched", "failed"} => PurgeOutbox(r).status \in {"dispatched", "failed"}
BY DEF InsertOutbox, Dispatch, PurgeOutbox, OutboxRow

\* The statements on deliveries: rows, which exist if they did before, and wait
\* only with a payload.
LEMMA DeliveryRows ==
    ASSUME NEW d \in DeliveryRow, d.status \in {"pending", "sending"} => d.payload,
           NEW f \in {CreateDelivery(d), MarkDelivered(d), MarkFailed(d), RecoverStale(d), PurgeDelivery(d),
                      [d EXCEPT !.lease = "expired"]}
    PROVE  f \in DeliveryRow /\ (f.status \in {"pending", "sending"} => f.payload)
<1>1. CASE f = CreateDelivery(d)
  BY <1>1, WebhookAssumption DEF CreateDelivery, DeliveryRow, Lease
<1>2. CASE f = MarkDelivered(d)
  BY <1>2 DEF MarkDelivered, DeliveryRow, Lease
<1>3. CASE f = MarkFailed(d)
  BY <1>3 DEF MarkFailed, DeliveryRow, Lease
<1>4. CASE f = RecoverStale(d)
  BY <1>4 DEF RecoverStale, DeliveryRow, Lease
<1>5. CASE f = PurgeDelivery(d)
  BY <1>5 DEF PurgeDelivery, DeliveryRow, Lease
<1>6. CASE f = [d EXCEPT !.lease = "expired"]
  BY <1>6 DEF DeliveryRow, Lease
<1> QED
  BY <1>1, <1>2, <1>3, <1>4, <1>5, <1>6

LEMMA ClaimRow ==
    ASSUME NEW d \in DeliveryRow, NEW r, CanClaimDelivery(d, r)
    PROVE  /\ ClaimDelivery(d) \in DeliveryRow /\ ClaimDelivery(d).status = "sending"
           /\ ClaimDelivery(d).payload /\ d.status = "pending" /\ d.payload
<1>1. d.status = "pending" /\ d.payload
  BY DEF CanClaimDelivery
<1> DEFINE a == IF d.attempts < AttemptLimit THEN d.attempts + 1 ELSE d.attempts
<1>2. a \in 0..AttemptLimit
  BY WebhookAssumption DEF DeliveryRow
<1>3. ClaimDelivery(d) = [d EXCEPT !.status = "sending", !.lease = "live", !.attempts = a]
  BY DEF ClaimDelivery
<1> HIDE DEF a
<1>4. ClaimDelivery(d) \in DeliveryRow
  BY <1>2, <1>3 DEF DeliveryRow, Lease
<1>5. ClaimDelivery(d).status = "sending" /\ ClaimDelivery(d).payload = d.payload
  BY <1>3 DEF DeliveryRow
<1> QED
  BY <1>1, <1>4, <1>5

LEMMA ReplayRow ==
    ASSUME NEW d \in DeliveryRow, NEW r, CanReplayFailed(d, r)
    PROVE  /\ ReplayFailed(d) \in DeliveryRow /\ ReplayFailed(d).status = "pending"
           /\ ReplayFailed(d).payload /\ d.status = "failed" /\ d.payload
<1>1. d.status = "failed" /\ d.payload
  BY DEF CanReplayFailed
<1>2. ReplayFailed(d) \in DeliveryRow
  <2>1. 0 \in 0..AttemptLimit
    BY WebhookAssumption
  <2> QED
    BY <2>1 DEF ReplayFailed, DeliveryRow, Lease
<1>3. ReplayFailed(d).status = "pending" /\ ReplayFailed(d).payload = d.payload
  BY DEF ReplayFailed, DeliveryRow
<1> QED
  BY <1>1, <1>2, <1>3

-----------------------------------------------------------------------------
(* The refinement mapping, webhook by webhook.                             *)

\* What Notice sees of a delivery.
LEMMA NoticeIs ==
    ASSUME NEW n \in Deliveries, deliveries[n] \in DeliveryRow
    PROVE  /\ hooks[n[2]].present = "deleted" => NoticeOf(n) = "withdrawn"
           /\ hooks[n[2]].present # "deleted" =>
                /\ deliveries[n].status = "absent" => NoticeOf(n) = "none"
                /\ deliveries[n].status \in {"pending", "sending"} => NoticeOf(n) = "owed"
                /\ deliveries[n].status = "delivered" => NoticeOf(n) = "done"
                /\ deliveries[n].status = "failed" /\ deliveries[n].payload => NoticeOf(n) = "failed"
                /\ deliveries[n].status = "failed" /\ ~deliveries[n].payload => NoticeOf(n) = "expired"
BY DEF NoticeOf, DeliveryRow

\* The same after a step.
LEMMA NoticeWillBe ==
    ASSUME NEW n \in Deliveries, deliveries'[n] \in DeliveryRow
    PROVE  /\ hooks'[n[2]].present = "deleted" => NoticeOf(n)' = "withdrawn"
           /\ hooks'[n[2]].present # "deleted" =>
                /\ deliveries'[n].status = "absent" => NoticeOf(n)' = "none"
                /\ deliveries'[n].status \in {"pending", "sending"} => NoticeOf(n)' = "owed"
                /\ deliveries'[n].status = "delivered" => NoticeOf(n)' = "done"
                /\ deliveries'[n].status = "failed" /\ deliveries'[n].payload => NoticeOf(n)' = "failed"
                /\ deliveries'[n].status = "failed" /\ ~deliveries'[n].payload => NoticeOf(n)' = "expired"
BY DEF NoticeOf, DeliveryRow

\* A step that Notice does not see.
LEMMA Stutters ==
    ASSUME UNCHANGED <<hooks, posted>>, Published' = Published,
           \A n \in Deliveries : NoticeOf(n)' = NoticeOf(n)
    PROVE  UNCHANGED Promise!vars
BY DEF Promise!vars, Published

\* What is shown of every step: it keeps the invariant, and Notice allows it.
StepKept == PipeInv' /\ [Promise!Next]_(Promise!vars)

LEMMA PipeInitInv == PipeInit => PipeInv /\ Promise!Init
<1> SUFFICES ASSUME PipeInit PROVE PipeInv /\ Promise!Init
  OBVIOUS
<1> USE DEF PipeInit, InboxInit, WebhookInit
<1>1. NoInbox \in InboxRow /\ NoInbox.status = "absent"
  BY InboxAssumption DEF NoInbox, InboxRow, Lease
<1>2. NoDelivery \in DeliveryRow /\ NoDelivery.status = "absent"
  <2>1. 0 \in 0..AttemptLimit
    BY WebhookAssumption
  <2> QED
    BY <2>1 DEF NoDelivery, DeliveryRow, Lease
<1>3. NoOutbox \in OutboxRow /\ NoOutbox.status = "absent"
  BY DEF NoOutbox, OutboxRow
<1>4. NoHook \in HookRow /\ NoHook.present = "no"
  BY DEF NoHook, HookRow
<1>5. IdleHandler \in HandlerState /\ IdleHandler.pc = "idle" /\ IdlePoster \in PosterState /\ IdlePoster.pc = "idle"
  BY DEF IdleHandler, HandlerState, IdlePoster, PosterState
<1>6. InboxTypeOK
  BY <1>1, <1>5 DEF InboxTypeOK
<1>7. WebhookTypeOK
  BY <1>2, <1>3, <1>4, <1>5, WebhookAssumption DEF WebhookTypeOK
<1>8. AppliedIsPublished /\ PurgedIsSettled
  BY <1>1, <1>2, <1>3, InboxAssumption DEF AppliedIsPublished, PurgedIsSettled
<1>9. HandlersInv /\ TestsSkipOutbox /\ DeliveriesInv /\ PostersInv
  BY <1>2, <1>3, <1>5, WebhookAssumption DEF HandlersInv, TestsSkipOutbox, DeliveriesInv, PostersInv
<1>10. \A n \in Deliveries : NoticeOf(n) = "none"
  BY <1>2, <1>4, NoticeIs, DeliveryPairs
<1>11. Published = {}
  BY <1>3 DEF Published
<1>12. Promise!Init
  BY <1>10, <1>11 DEF Promise!Init, Published, NoHook, Deliveries
<1> QED
  BY <1>6, <1>7, <1>8, <1>9, <1>12 DEF PipeInv, PipeTypeOK

-----------------------------------------------------------------------------
(* The inbox.                                                              *)

\* The step marks no row of the inbox as processed.
NoneProcessed ==
    \A e \in ProviderEvents : inbox'[e].status = "processed" => inbox[e].status = "processed"

\* Steps that neither apply an event nor touch the webhooks' half.
LEMMA InboxSide ==
    ASSUME PipeInv, NoneProcessed, HandlersInv',
           inbox' \in [ProviderEvents -> InboxRow], handler' \in [Handlers -> HandlerState],
           email' \in [ProviderEvents -> {"unknown", "known", "other"}],
           week' \in SUBSET ProviderEvents, faults' \in 0..MaxFaults,
           UNCHANGED <<applied, outbox, webhookVars>>
    PROVE  StepKept
<1>1. UNCHANGED <<hooks, deliveries, poster, edit, tested, posted>>
  BY DEF webhookVars
<1>2. PipeTypeOK'
  BY <1>1 DEF PipeInv, PipeTypeOK, InboxTypeOK, WebhookTypeOK
<1>3. AppliedIsPublished'
  BY DEF PipeInv, AppliedIsPublished, NoneProcessed
<1>4. PurgedIsSettled' /\ TestsSkipOutbox'
  BY <1>1 DEF PipeInv, PurgedIsSettled, TestsSkipOutbox
<1>5. Published' = Published
  BY <1>1 DEF Published
<1>6. DeliveriesInv' /\ PostersInv'
  BY <1>1, <1>5 DEF PipeInv, DeliveriesInv, PostersInv
<1>7. \A n \in Deliveries : NoticeOf(n)' = NoticeOf(n)
  BY <1>1 DEF NoticeOf
<1>8. UNCHANGED Promise!vars
  BY <1>1, <1>5, <1>7, Stutters
<1> QED
  BY <1>2, <1>3, <1>4, <1>6, <1>8 DEF StepKept, PipeInv

\* One row of the inbox changes.
LEMMA InboxRowMoves ==
    ASSUME PipeInv, NEW e \in ProviderEvents, NEW r \in InboxRow,
           inbox' = [inbox EXCEPT ![e] = r],
           r.status = "processed" => inbox[e].status = "processed"
    PROVE  inbox' \in [ProviderEvents -> InboxRow] /\ NoneProcessed
<1>1. inbox \in [ProviderEvents -> InboxRow]
  BY DEF PipeInv, PipeTypeOK, InboxTypeOK
<1> QED
  BY <1>1 DEF NoneProcessed

\* One handler moves.
LEMMA HandlerMoves ==
    ASSUME PipeInv, NEW i \in Handlers, NEW new \in HandlerState,
           handler' = [handler EXCEPT ![i] = new],
           new.pc # "idle" => new.event \in ProviderEvents
    PROVE  handler' \in [Handlers -> HandlerState] /\ HandlersInv'
<1>1. handler \in [Handlers -> HandlerState]
  BY DEF PipeInv, PipeTypeOK, InboxTypeOK
<1>2. \A j \in Handlers : handler'[j] = IF j = i THEN new ELSE handler[j]
  BY <1>1
<1> QED
  BY <1>1, <1>2 DEF PipeInv, HandlersInv

LEMMA HandlerEnds ==
    ASSUME PipeInv, NEW i \in Handlers, handler' = [handler EXCEPT ![i] = IdleHandler]
    PROVE  handler' \in [Handlers -> HandlerState] /\ HandlersInv'
<1>1. IdleHandler \in HandlerState /\ IdleHandler.pc = "idle"
  BY DEF IdleHandler, HandlerState
<1> QED
  BY <1>1, HandlerMoves

LEMMA HandlerGoes ==
    ASSUME PipeInv, NEW i \in Handlers, handler[i].pc # "idle",
           \/ InGoto(i, "apply") \/ InGoto(i, "ignore") \/ RetryOrGiveUp(i)
    PROVE  handler' \in [Handlers -> HandlerState] /\ HandlersInv'
<1>1. PICK l \in {"apply", "retry", "ignore"} : InGoto(i, l)
  BY DEF RetryOrGiveUp
<1> DEFINE new == [handler[i] EXCEPT !.pc = l]
<1>2. handler[i] \in HandlerState /\ handler[i].event \in ProviderEvents
  BY DEF PipeInv, PipeTypeOK, InboxTypeOK, HandlersInv
<1>3. new \in HandlerState /\ new.event = handler[i].event
  BY <1>2 DEF HandlerState
<1>4. handler' = [handler EXCEPT ![i] = new]
  BY <1>1 DEF InGoto
<1> HIDE DEF new
<1> QED
  BY <1>2, <1>3, <1>4, HandlerMoves

\* The types of what a step leaves alone.
LEMMA InboxTypes ==
    ASSUME PipeInv
    PROVE  /\ inbox \in [ProviderEvents -> InboxRow] /\ handler \in [Handlers -> HandlerState]
           /\ email \in [ProviderEvents -> {"unknown", "known", "other"}]
           /\ week \in SUBSET ProviderEvents /\ faults \in 0..MaxFaults
           /\ UNCHANGED inbox => NoneProcessed
           /\ UNCHANGED handler => HandlersInv'
           /\ Fault \/ UNCHANGED faults => faults' \in 0..MaxFaults
<1>1. /\ inbox \in [ProviderEvents -> InboxRow] /\ handler \in [Handlers -> HandlerState]
      /\ email \in [ProviderEvents -> {"unknown", "known", "other"}]
      /\ week \in SUBSET ProviderEvents /\ faults \in 0..MaxFaults
  BY DEF PipeInv, PipeTypeOK, InboxTypeOK, WebhookTypeOK
<1>2. Fault \/ UNCHANGED faults => faults' \in 0..MaxFaults
  BY <1>1, WebhookAssumption DEF Fault
<1>3. UNCHANGED handler => HandlersInv'
  BY DEF PipeInv, HandlersInv
<1> QED
  BY <1>1, <1>2, <1>3 DEF NoneProcessed

LEMMA HandleKeeps ==
    ASSUME PipeInv, NEW e \in ProviderEvents, Handle(e), UNCHANGED webhookVars
    PROVE  StepKept
<1>1. /\ inbox' = [inbox EXCEPT ![e] = StoreProviderEvent(inbox[e])]
      /\ UNCHANGED <<email, week, handler, applied, outbox, faults>>
  BY DEF Handle
<1>2. inbox[e] \in InboxRow
  BY InboxTypes
<1>3. inbox' \in [ProviderEvents -> InboxRow] /\ NoneProcessed
  BY <1>1, <1>2, InboxRows, OnlyMarkProcesses, InboxRowMoves
<1> QED
  BY <1>1, <1>3, InboxTypes, InboxSide

LEMMA ClaimEventKeeps ==
    ASSUME PipeInv, NEW i \in Handlers, NEW e \in ProviderEvents, ClaimEvent(i, e), UNCHANGED webhookVars
    PROVE  StepKept
<1> DEFINE new == [pc |-> "claimed", event |-> e, last |-> inbox[e].attempts + 1 >= InboxLimit]
<1>1. /\ CanClaimProviderEvent(inbox[e])
      /\ inbox' = [inbox EXCEPT ![e] = ClaimProviderEvent(inbox[e])]
      /\ handler' = [handler EXCEPT ![i] = new]
      /\ UNCHANGED <<email, week, applied, outbox, faults>>
  BY DEF ClaimEvent
<1>2. inbox[e] \in InboxRow
  BY InboxTypes
<1>3. inbox' \in [ProviderEvents -> InboxRow] /\ NoneProcessed
  BY <1>1, <1>2, InboxRows, OnlyMarkProcesses, InboxRowMoves
<1>4. new \in HandlerState /\ new.event = e
  BY DEF HandlerState
<1> HIDE DEF new
<1>5. handler' \in [Handlers -> HandlerState] /\ HandlersInv'
  BY <1>1, <1>4, HandlerMoves
<1> QED
  BY <1>1, <1>3, <1>5, InboxTypes, InboxSide

LEMMA CorrelateKeeps ==
    ASSUME PipeInv, NEW i \in Handlers, Correlate(i), UNCHANGED webhookVars
    PROVE  StepKept
<1>1. /\ handler[i].pc # "idle" /\ UNCHANGED <<inbox, email, week, applied, outbox>>
      /\ (Fault \/ UNCHANGED faults)
  BY DEF Correlate
<1>2. handler[i].event \in ProviderEvents
  BY <1>1 DEF PipeInv, HandlersInv
<1>3. email[handler[i].event] \in {"unknown", "known", "other"}
  BY <1>2, InboxTypes
<1>4. InGoto(i, "apply") \/ InGoto(i, "ignore") \/ RetryOrGiveUp(i)
  BY <1>3 DEF Correlate
<1>5. handler' \in [Handlers -> HandlerState] /\ HandlersInv'
  BY <1>1, <1>4, HandlerGoes
<1> QED
  BY <1>1, <1>5, InboxTypes, InboxSide

LEMMA RetryKeeps ==
    ASSUME PipeInv, NEW i \in Handlers, Retry(i), UNCHANGED webhookVars
    PROVE  StepKept
<1> DEFINE e == handler[i].event
           last == handler[i].pc = "ignore"
<1>1. /\ handler[i].pc # "idle" /\ handler' = [handler EXCEPT ![i] = IdleHandler]
      /\ UNCHANGED <<email, week, applied, outbox>> /\ (Fault \/ UNCHANGED faults)
  BY DEF Retry
<1>2. e \in ProviderEvents /\ inbox[e] \in InboxRow
  BY <1>1, InboxTypes DEF PipeInv, HandlersInv
<1>3. handler' \in [Handlers -> HandlerState] /\ HandlersInv'
  BY <1>1, HandlerEnds
<1>4. CASE inbox' = [inbox EXCEPT ![e] = RetryProviderEvent(@, last)]
  <2> DEFINE r == RetryProviderEvent(inbox[e], last)
  <2>1. r \in InboxRow /\ (r.status = "processed" => inbox[e].status = "processed")
    BY <1>2, InboxRows, OnlyMarkProcesses
  <2>2. inbox' = [inbox EXCEPT ![e] = r]
    BY <1>4
  <2> HIDE DEF r, e
  <2>3. inbox' \in [ProviderEvents -> InboxRow] /\ NoneProcessed
    BY <1>2, <2>1, <2>2, InboxRowMoves
  <2> QED
    BY <1>1, <1>3, <2>3, InboxTypes, InboxSide
<1>5. CASE UNCHANGED inbox
  BY <1>1, <1>3, <1>5, InboxTypes, InboxSide
<1> QED
  BY <1>4, <1>5 DEF Retry

LEMMA HandlerDiesKeeps ==
    ASSUME PipeInv, NEW i \in Handlers, HandlerDies(i), UNCHANGED webhookVars
    PROVE  StepKept
<1>1. /\ handler' = [handler EXCEPT ![i] = IdleHandler] /\ Fault
      /\ UNCHANGED <<inbox, email, week, applied, outbox>>
  BY DEF HandlerDies
<1>2. handler' \in [Handlers -> HandlerState] /\ HandlersInv'
  BY <1>1, HandlerEnds
<1> QED
  BY <1>1, <1>2, InboxTypes, InboxSide

LEMMA InboxLeaseExpiresKeeps ==
    ASSUME PipeInv, NEW e \in ProviderEvents, InboxLeaseExpires(e), UNCHANGED webhookVars
    PROVE  StepKept
<1> DEFINE r == [inbox[e] EXCEPT !.lease = "expired"]
<1>1. /\ inbox' = [inbox EXCEPT ![e] = r] /\ (Fault \/ UNCHANGED faults)
      /\ UNCHANGED <<email, week, handler, applied, outbox>>
  BY DEF InboxLeaseExpires
<1>2. inbox[e] \in InboxRow
  BY InboxTypes
<1>3. r \in InboxRow /\ (r.status = "processed" => inbox[e].status = "processed")
  BY <1>2, InboxRows, OnlyMarkProcesses
<1> HIDE DEF r
<1>4. inbox' \in [ProviderEvents -> InboxRow] /\ NoneProcessed
  BY <1>1, <1>3, InboxRowMoves
<1> QED
  BY <1>1, <1>4, InboxTypes, InboxSide

LEMMA RecoverStalePipelineWorkKeeps ==
    ASSUME PipeInv, RecoverStalePipelineWork, UNCHANGED webhookVars
    PROVE  StepKept
<1>1. /\ inbox' = [e \in ProviderEvents |-> RecoverInbox(inbox[e])]
      /\ UNCHANGED <<email, week, handler, applied, outbox, faults>>
  BY DEF RecoverStalePipelineWork
<1>2. \A e \in ProviderEvents : inbox[e] \in InboxRow
  BY InboxTypes
<1>3. inbox' \in [ProviderEvents -> InboxRow] /\ NoneProcessed
  BY <1>1, <1>2, InboxRows, OnlyMarkProcesses DEF NoneProcessed
<1> QED
  BY <1>1, <1>3, InboxTypes, InboxSide

LEMMA EmailKeeps ==
    ASSUME PipeInv, NEW e \in ProviderEvents, UNCHANGED webhookVars,
           EmailFinalized(e) \/ EmailMoved(e) \/ WeekPasses(e)
    PROVE  StepKept
<1>1. CASE EmailFinalized(e)
  <2>1. /\ inbox' = [inbox EXCEPT ![e] = RecoverInbox(inbox[e])] /\ email' = [email EXCEPT ![e] = "known"]
        /\ UNCHANGED <<week, handler, applied, outbox, faults>>
    BY <1>1 DEF EmailFinalized
  <2>2. inbox[e] \in InboxRow /\ email' \in [ProviderEvents -> {"unknown", "known", "other"}]
    BY <2>1, InboxTypes
  <2>3. inbox' \in [ProviderEvents -> InboxRow] /\ NoneProcessed
    BY <2>1, <2>2, InboxRows, OnlyMarkProcesses, InboxRowMoves
  <2> QED
    BY <2>1, <2>2, <2>3, InboxTypes, InboxSide
<1>2. CASE EmailMoved(e)
  <2>1. /\ email' = [email EXCEPT ![e] = "other"] \/ email' = [email EXCEPT ![e] = "unknown"]
        /\ Fault /\ UNCHANGED <<inbox, week, handler, applied, outbox>>
    BY <1>2 DEF EmailMoved
  <2>2. email' \in [ProviderEvents -> {"unknown", "known", "other"}]
    BY <2>1, InboxTypes
  <2> QED
    BY <2>1, <2>2, InboxTypes, InboxSide
<1>3. CASE WeekPasses(e)
  <2>1. week' = week \cup {e} /\ UNCHANGED <<inbox, email, handler, applied, outbox, faults>>
    BY <1>3 DEF WeekPasses
  <2>2. week' \in SUBSET ProviderEvents
    BY <2>1, InboxTypes
  <2> QED
    BY <2>1, <2>2, InboxTypes, InboxSide
<1> QED
  BY <1>1, <1>2, <1>3

\* A row of the outbox is inserted, or was there; nothing is dispatched.
LEMMA InsertIsUnseen ==
    ASSUME PipeInv, NEW e \in Events, e \notin TestEvents,
           outbox' = [outbox EXCEPT ![e] = InsertOutbox(outbox[e])], UNCHANGED webhookVars
    PROVE  /\ WebhookTypeOK' <=> faults' \in 0..MaxFaults
           /\ PurgedIsSettled' /\ TestsSkipOutbox' /\ DeliveriesInv' /\ PostersInv'
           /\ \A x \in Events : x # e => outbox'[x] = outbox[x]
           /\ outbox'[e].status # "absent"
           /\ UNCHANGED Promise!vars
<1>1. UNCHANGED <<hooks, deliveries, poster, edit, tested, posted>>
  BY DEF webhookVars
<1>2. outbox \in [Events -> OutboxRow]
  BY DEF PipeInv, PipeTypeOK, WebhookTypeOK
<1>3. /\ InsertOutbox(outbox[e]) \in OutboxRow /\ InsertOutbox(outbox[e]).status # "absent"
      /\ InsertOutbox(outbox[e]).status \in {"dispatched", "failed"} <=> outbox[e].status \in {"dispatched", "failed"}
  BY <1>2, OutboxRows
<1>4. /\ outbox' \in [Events -> OutboxRow] /\ outbox'[e] = InsertOutbox(outbox[e])
      /\ \A x \in Events : x # e => outbox'[x] = outbox[x]
  BY <1>2, <1>3
<1>5. Published' = Published
  BY <1>1, <1>3, <1>4 DEF Published
<1>6. WebhookTypeOK' <=> faults' \in 0..MaxFaults
  BY <1>1, <1>4 DEF PipeInv, PipeTypeOK, WebhookTypeOK
<1>7. PurgedIsSettled' /\ TestsSkipOutbox'
  BY <1>1, <1>4, WebhookAssumption DEF PipeInv, PurgedIsSettled, TestsSkipOutbox
<1>8. DeliveriesInv' /\ PostersInv'
  BY <1>1, <1>5 DEF PipeInv, DeliveriesInv, PostersInv
<1>9. \A n \in Deliveries : NoticeOf(n)' = NoticeOf(n)
  BY <1>1 DEF NoticeOf
<1>10. UNCHANGED Promise!vars
  BY <1>1, <1>5, <1>9, Stutters
<1> QED
  BY <1>3, <1>4, <1>6, <1>7, <1>8, <1>10

LEMMA ApplyProviderEventTxKeeps ==
    ASSUME PipeInv, NEW i \in Handlers, ApplyProviderEventTx(i), UNCHANGED webhookVars
    PROVE  StepKept
<1> DEFINE e == handler[i].event
<1>1. handler[i].pc = "apply" /\ handler[i].pc # "idle" /\ UNCHANGED <<email, week>>
  BY DEF ApplyProviderEventTx
<1>2. e \in ProviderEvents /\ e \in Events /\ e \notin TestEvents /\ inbox[e] \in InboxRow
  BY <1>1, InboxTypes, InboxAssumption DEF PipeInv, HandlersInv
<1>3. CASE /\ InGoto(i, "ignore") \/ RetryOrGiveUp(i)
           /\ UNCHANGED <<applied, outbox, inbox, faults>>
  <2>1. handler' \in [Handlers -> HandlerState] /\ HandlersInv'
    BY <1>1, <1>3, HandlerGoes
  <2> QED
    BY <1>1, <1>3, <2>1, InboxTypes, InboxSide
<1>4. CASE /\ Apply(e)
           /\ \/ handler' = [handler EXCEPT ![i] = IdleHandler] /\ UNCHANGED faults
              \/ RetryOrGiveUp(i) /\ Fault
  <2>1. /\ applied' = applied \cup {e} /\ outbox' = [outbox EXCEPT ![e] = InsertOutbox(outbox[e])]
        /\ inbox' = [inbox EXCEPT ![e] = MarkProcessed(inbox[e])]
    BY <1>4 DEF Apply
  <2>2. handler' \in [Handlers -> HandlerState] /\ HandlersInv'
    BY <1>1, <1>4, HandlerEnds, HandlerGoes
  <2>3. faults' \in 0..MaxFaults
    BY <1>4, InboxTypes
  <2> HIDE DEF e
  <2>4. /\ inbox' \in [ProviderEvents -> InboxRow]
        /\ \A x \in ProviderEvents : x # e => inbox'[x] = inbox[x]
    BY <1>2, <2>1, InboxRows, InboxTypes
  <2>5. /\ WebhookTypeOK' /\ PurgedIsSettled' /\ TestsSkipOutbox' /\ DeliveriesInv' /\ PostersInv'
        /\ \A x \in Events : x # e => outbox'[x] = outbox[x]
        /\ outbox'[e].status # "absent" /\ UNCHANGED Promise!vars
    BY <1>2, <2>1, <2>3, InsertIsUnseen
  <2>6. AppliedIsPublished'
    BY <1>2, <2>1, <2>4, <2>5, InboxAssumption DEF PipeInv, AppliedIsPublished
  <2>7. InboxTypeOK'
    BY <1>1, <1>2, <2>1, <2>2, <2>4 DEF PipeInv, PipeTypeOK, InboxTypeOK
  <2> QED
    BY <2>2, <2>5, <2>6, <2>7 DEF StepKept, PipeInv, PipeTypeOK
<1> QED
  BY <1>3, <1>4 DEF ApplyProviderEventTx

LEMMA PublishOwnKeeps ==
    ASSUME PipeInv, NEW e \in Events, PublishOwn(e)
    PROVE  StepKept
<1>1. /\ e \notin ProviderEvents /\ e \notin TestEvents
      /\ outbox' = [outbox EXCEPT ![e] = InsertOutbox(outbox[e])]
      /\ UNCHANGED <<inbox, email, week, handler, applied>> /\ UNCHANGED webhookVars /\ UNCHANGED faults
  BY DEF PublishOwn, inboxVars
<1>2. /\ WebhookTypeOK' <=> faults' \in 0..MaxFaults
      /\ PurgedIsSettled' /\ TestsSkipOutbox' /\ DeliveriesInv' /\ PostersInv'
      /\ \A x \in Events : x # e => outbox'[x] = outbox[x]
      /\ UNCHANGED Promise!vars
  BY <1>1, InsertIsUnseen
<1>3. faults' \in 0..MaxFaults /\ HandlersInv'
  BY <1>1, InboxTypes
<1>4. AppliedIsPublished'
  BY <1>1, <1>2, InboxAssumption DEF PipeInv, AppliedIsPublished
<1>5. InboxTypeOK'
  BY <1>1 DEF PipeInv, PipeTypeOK, InboxTypeOK
<1> QED
  BY <1>2, <1>3, <1>4, <1>5 DEF StepKept, PipeInv, PipeTypeOK

-----------------------------------------------------------------------------
(* Webhooks and their deliveries.                                          *)

\* What the webhooks' half leaves of the invariant, when it does not touch the
\* outbox.
LEMMA WebhookSide ==
    ASSUME PipeInv, UNCHANGED inboxVars, UNCHANGED outbox, WebhookTypeOK',
           PurgedIsSettled', DeliveriesInv', PostersInv'
    PROVE  PipeInv'
<1>1. UNCHANGED <<inbox, email, week, handler, applied>>
  BY DEF inboxVars
<1>2. InboxTypeOK' /\ AppliedIsPublished' /\ HandlersInv' /\ TestsSkipOutbox'
  BY <1>1 DEF PipeInv, PipeTypeOK, InboxTypeOK, AppliedIsPublished, HandlersInv, TestsSkipOutbox
<1> QED
  BY <1>2 DEF PipeInv, PipeTypeOK

LEMMA WebhookTypes ==
    ASSUME PipeInv
    PROVE  /\ hooks \in [Hooks -> HookRow] /\ outbox \in [Events -> OutboxRow]
           /\ deliveries \in [Deliveries -> DeliveryRow]
           /\ poster \in [WebhookWorkers -> PosterState]
           /\ edit \in [hook : Hooks, copy : HookRow] \cup {Nobody}
           /\ tested \in SUBSET TestEvents /\ posted \in SUBSET Deliveries
BY DEF PipeInv, PipeTypeOK, WebhookTypeOK

\* The owner's changes: Configure, or nothing that Notice sees.
LEMMA CreateKeeps ==
    ASSUME PipeInv, NEW h \in Hooks, Create(h), UNCHANGED inboxVars
    PROVE  StepKept
<1>1. /\ hooks[h].present = "no"
      /\ UNCHANGED <<deliveries, poster, edit, tested, posted, outbox, faults>>
  BY DEF Create
<1>2. PICK ev \in Subscriptions : hooks' = [hooks EXCEPT ![h] = CreateHook(ev)]
  BY DEF Create
<1> DEFINE c == CreateHook(ev)
<1>3. c \in HookRow /\ c.present = "yes"
  BY SubscriptionAssumption DEF CreateHook, HookRow
<1>4. hooks' = [hooks EXCEPT ![h] = c]
  BY <1>2
<1> HIDE DEF c
<1>5. /\ hooks' \in [Hooks -> HookRow]
      /\ \A g \in Hooks : hooks'[g] = IF g = h THEN c ELSE hooks[g]
  BY <1>3, <1>4, WebhookTypes
<1>6. Published' = Published
  BY <1>1 DEF Published
<1>7. WebhookTypeOK'
  BY <1>1, <1>5 DEF PipeInv, PipeTypeOK, WebhookTypeOK
<1>8. PurgedIsSettled' /\ DeliveriesInv'
  BY <1>1, <1>3, <1>5, <1>6, DeliveryPairs DEF PipeInv, PurgedIsSettled, DeliveriesInv
<1>9. PostersInv'
  BY <1>1, <1>5, DeliveryPairs DEF PipeInv, PostersInv
<1>10. ASSUME NEW n \in Deliveries PROVE NoticeOf(n)' = NoticeOf(n)
  <2>1. n[2] \in Hooks /\ deliveries[n] \in DeliveryRow
    BY DeliveryPairs, WebhookTypes
  <2>2. CASE n[2] # h
    BY <1>1, <1>5, <2>1, <2>2 DEF NoticeOf
  <2>3. CASE n[2] = h
    <3>1. deliveries[n].status = "absent" /\ deliveries'[n] = deliveries[n]
      BY <1>1, <2>3 DEF PipeInv, DeliveriesInv
    <3>2. NoticeOf(n) = "none"
      BY <1>1, <2>1, <2>3, <3>1, NoticeIs
    <3>3. NoticeOf(n)' = "none"
      BY <1>3, <1>5, <2>1, <2>3, <3>1, NoticeWillBe
    <3> QED
      BY <3>2, <3>3
  <2> QED
    BY <2>2, <2>3
<1>11. Promise!Configure(h)
  BY <1>1, <1>3, <1>4, <1>6, <1>10 DEF Promise!Configure, Promise!Hook, HookRow, Published, Deliveries
<1>12. Promise!Next
  BY <1>11 DEF Promise!Next
<1>13. PipeInv'
  BY <1>1, <1>7, <1>8, <1>9, WebhookSide
<1> QED
  BY <1>12, <1>13 DEF StepKept

LEMMA UpdateReadKeeps ==
    ASSUME PipeInv, NEW h \in Hooks, UpdateRead(h), UNCHANGED inboxVars
    PROVE  StepKept
<1>1. /\ UNCHANGED <<hooks, deliveries, poster, tested, posted, outbox, faults>>
      /\ \E active \in BOOLEAN, ev \in Subscriptions :
            edit' = [hook |-> h, copy |-> [hooks[h] EXCEPT !.active = active, !.events = ev]]
  BY DEF UpdateRead
<1>2. hooks[h] \in HookRow
  BY WebhookTypes
<1>3. \A active \in BOOLEAN, ev \in Subscriptions :
        [hooks[h] EXCEPT !.active = active, !.events = ev] \in HookRow
  BY <1>2, SubscriptionAssumption DEF HookRow
<1>4. edit' \in [hook : Hooks, copy : HookRow]
  <2>1. PICK active \in BOOLEAN, ev \in Subscriptions :
          edit' = [hook |-> h, copy |-> [hooks[h] EXCEPT !.active = active, !.events = ev]]
    BY <1>1
  <2> DEFINE c == [hooks[h] EXCEPT !.active = active, !.events = ev]
  <2>2. c \in HookRow /\ edit' = [hook |-> h, copy |-> c]
    BY <1>3, <2>1
  <2> HIDE DEF c
  <2> QED
    BY <2>2
<1>5. WebhookTypeOK'
  BY <1>1, <1>4 DEF PipeInv, PipeTypeOK, WebhookTypeOK
<1>6. Published' = Published /\ \A n \in Deliveries : NoticeOf(n)' = NoticeOf(n)
  BY <1>1 DEF Published, NoticeOf
<1>7. PurgedIsSettled' /\ DeliveriesInv' /\ PostersInv'
  BY <1>1, <1>6 DEF PipeInv, PurgedIsSettled, DeliveriesInv, PostersInv
<1> QED
  BY <1>1, <1>5, <1>6, <1>7, WebhookSide, Stutters DEF StepKept

\* A late PATCH changes a webhook that is there; one that is gone stays gone.
LEMMA UpdateWriteKeeps ==
    ASSUME PipeInv, UpdateWrite, UNCHANGED inboxVars
    PROVE  StepKept
<1> DEFINE h == edit.hook
           c == UpdateForTeam(hooks[h], edit.copy)
<1>1. /\ edit # Nobody /\ hooks' = [hooks EXCEPT ![h] = c] /\ edit' = Nobody
      /\ UNCHANGED <<deliveries, poster, tested, posted, outbox, faults>>
  BY DEF UpdateWrite
<1>2. h \in Hooks /\ edit.copy \in HookRow /\ hooks[h] \in HookRow
  BY <1>1, WebhookTypes
<1>3. /\ c \in HookRow /\ c.present = hooks[h].present
      /\ hooks[h].present # "yes" => c = hooks[h]
  BY <1>2 DEF UpdateForTeam, HookRow
<1> HIDE DEF h, c
<1>4. /\ hooks' \in [Hooks -> HookRow]
      /\ \A g \in Hooks : hooks'[g] = IF g = h THEN c ELSE hooks[g]
  BY <1>1, <1>2, <1>3, WebhookTypes
<1>5. \A g \in Hooks : hooks'[g].present = hooks[g].present
  BY <1>3, <1>4
<1>6. Published' = Published
  BY <1>1 DEF Published
<1>7. WebhookTypeOK'
  BY <1>1, <1>4 DEF PipeInv, PipeTypeOK, WebhookTypeOK
<1>8. PurgedIsSettled' /\ DeliveriesInv'
  BY <1>1, <1>5, <1>6, DeliveryPairs DEF PipeInv, PurgedIsSettled, DeliveriesInv
<1>9. PostersInv'
  BY <1>1, <1>5, DeliveryPairs DEF PipeInv, PostersInv
<1>10. PipeInv'
  BY <1>1, <1>7, <1>8, <1>9, WebhookSide
<1>11. \A n \in Deliveries : NoticeOf(n)' = NoticeOf(n)
  BY <1>1, <1>5, DeliveryPairs DEF NoticeOf
<1>12. CASE hooks[h].present = "yes"
  <2>1. Promise!Configure(h)
    BY <1>1, <1>3, <1>6, <1>11, <1>12
    DEF Promise!Configure, Promise!Hook, HookRow, Published, Deliveries
  <2> QED
    BY <1>2, <1>10, <2>1 DEF StepKept, Promise!Next
<1>13. CASE hooks[h].present # "yes"
  <2>1. hooks' = hooks
    BY <1>1, <1>2, <1>3, <1>13, WebhookTypes
  <2> QED
    BY <1>1, <1>6, <1>10, <1>11, <2>1, Stutters DEF StepKept
<1> QED
  BY <1>12, <1>13

LEMMA DeleteKeeps ==
    ASSUME PipeInv, NEW h \in Hooks, Delete(h), UNCHANGED inboxVars
    PROVE  StepKept
<1> DEFINE c == DeleteForTeam(hooks[h])
<1>1. /\ hooks[h].present = "yes" /\ hooks' = [hooks EXCEPT ![h] = c]
      /\ deliveries' = [n \in Deliveries |-> IF n[2] = h THEN NoDelivery ELSE deliveries[n]]
      /\ UNCHANGED <<poster, edit, tested, posted, outbox, faults>>
  BY DEF Delete
<1>2. c \in HookRow /\ c.present = "deleted"
  BY DEF DeleteForTeam, HookRow
<1> HIDE DEF c
<1>3. /\ hooks' \in [Hooks -> HookRow]
      /\ \A g \in Hooks : hooks'[g] = IF g = h THEN c ELSE hooks[g]
  BY <1>1, <1>2, WebhookTypes
<1>4. NoDelivery \in DeliveryRow /\ NoDelivery.status = "absent"
  <2>1. 0 \in 0..AttemptLimit
    BY WebhookAssumption
  <2> QED
    BY <2>1 DEF NoDelivery, DeliveryRow, Lease
<1>5. /\ deliveries' \in [Deliveries -> DeliveryRow]
      /\ \A n \in Deliveries : deliveries'[n] = IF n[2] = h THEN NoDelivery ELSE deliveries[n]
  BY <1>1, <1>4, WebhookTypes
<1>6. Published' = Published
  BY <1>1 DEF Published
<1>7. WebhookTypeOK'
  BY <1>1, <1>3, <1>5 DEF PipeInv, PipeTypeOK, WebhookTypeOK
<1>8. PurgedIsSettled' /\ DeliveriesInv'
  BY <1>3, <1>4, <1>5, <1>6, DeliveryPairs DEF PipeInv, PurgedIsSettled, DeliveriesInv
<1>9. PostersInv'
  BY <1>1, <1>2, <1>3, <1>5, DeliveryPairs DEF PipeInv, PostersInv
<1>10. ASSUME NEW n \in Deliveries
       PROVE  NoticeOf(n)' = IF n[2] = h /\ c.present = "deleted" THEN "withdrawn" ELSE NoticeOf(n)
  <2>1. n[2] \in Hooks /\ deliveries'[n] \in DeliveryRow
    BY <1>5, DeliveryPairs
  <2>2. CASE n[2] = h
    BY <1>2, <1>3, <2>1, <2>2, NoticeWillBe
  <2>3. CASE n[2] # h
    <3>1. hooks'[n[2]] = hooks[n[2]] /\ deliveries'[n] = deliveries[n]
      BY <1>3, <1>5, <2>1, <2>3
    <3>2. NoticeOf(n)' = NoticeOf(n)
      BY <3>1 DEF NoticeOf
    <3> QED
      BY <2>3, <3>2
  <2> QED
    BY <1>2, <2>2, <2>3
<1>11. Promise!Configure(h)
  BY <1>1, <1>2, <1>6, <1>10 DEF Promise!Configure, Promise!Hook, HookRow, Published, Deliveries
<1>12. PipeInv'
  BY <1>1, <1>7, <1>8, <1>9, WebhookSide
<1> QED
  BY <1>11, <1>12 DEF StepKept, Promise!Next

\* Steps that change rows of deliveries and neither make nor remove one.
LEMMA DeliverySide ==
    ASSUME PipeInv, UNCHANGED inboxVars, UNCHANGED <<hooks, outbox, edit, tested, posted>>,
           deliveries' \in [Deliveries -> DeliveryRow], poster' \in [WebhookWorkers -> PosterState],
           faults' \in 0..MaxFaults, PostersInv',
           \A n \in Deliveries : deliveries'[n].status = "absent" <=> deliveries[n].status = "absent",
           \A n \in Deliveries : deliveries'[n].status \in {"pending", "sending"} => deliveries'[n].payload
    PROVE  PipeInv' /\ Published' = Published
<1>1. Published' = Published
  BY DEF Published
<1>2. WebhookTypeOK'
  BY DEF PipeInv, PipeTypeOK, WebhookTypeOK
<1>3. PurgedIsSettled' /\ DeliveriesInv'
  BY <1>1 DEF PipeInv, PurgedIsSettled, DeliveriesInv
<1> QED
  BY <1>1, <1>2, <1>3, WebhookSide

LEMMA ReplayDeliveryKeeps ==
    ASSUME PipeInv, NEW n \in Deliveries, ReplayDelivery(n), UNCHANGED inboxVars
    PROVE  StepKept
<1> DEFINE r == ReplayFailed(deliveries[n])
<1>1. /\ CanReplayFailed(deliveries[n], hooks[n[2]]) /\ deliveries' = [deliveries EXCEPT ![n] = r]
      /\ UNCHANGED <<hooks, poster, edit, tested, posted, outbox, faults>>
  BY DEF ReplayDelivery
<1>2. deliveries[n] \in DeliveryRow /\ hooks[n[2]].present = "yes"
  BY <1>1, WebhookTypes DEF CanReplayFailed
<1>3. /\ r \in DeliveryRow /\ r.status = "pending" /\ r.payload
      /\ deliveries[n].status = "failed" /\ deliveries[n].payload
  BY <1>1, <1>2, ReplayRow
<1> HIDE DEF r
<1>4. /\ deliveries' \in [Deliveries -> DeliveryRow]
      /\ \A m \in Deliveries : deliveries'[m] = IF m = n THEN r ELSE deliveries[m]
  BY <1>1, <1>3, WebhookTypes
<1>5. \A m \in Deliveries : /\ deliveries'[m].status = "absent" <=> deliveries[m].status = "absent"
                            /\ deliveries'[m].status \in {"pending", "sending"} => deliveries'[m].payload
  BY <1>3, <1>4 DEF PipeInv, PurgedIsSettled
<1>6. PostersInv'
  BY <1>1, <1>5 DEF PipeInv, PostersInv
<1>7. PipeInv' /\ Published' = Published
  BY <1>1, <1>4, <1>5, <1>6, DeliverySide, InboxTypes, WebhookTypes
<1>8. /\ NoticeOf(n) = "failed" /\ NoticeOf(n)' = "owed"
      /\ \A m \in Deliveries : m # n => NoticeOf(m)' = NoticeOf(m)
  <2>1. NoticeOf(n) = "failed"
    BY <1>2, <1>3, NoticeIs
  <2>2. NoticeOf(n)' = "owed"
    BY <1>1, <1>2, <1>3, <1>4, NoticeWillBe
  <2>3. \A m \in Deliveries : m # n => NoticeOf(m)' = NoticeOf(m)
    BY <1>1, <1>4 DEF NoticeOf
  <2> QED
    BY <2>1, <2>2, <2>3
<1>9. Promise!Renew(n)
  BY <1>1, <1>7, <1>8 DEF Promise!Renew, Published, Deliveries
<1> QED
  BY <1>7, <1>9 DEF StepKept, Promise!Next, Deliveries

\* A row of deliveries is recovered, or its lease runs out: owed before and after.
LEMMA LeaseKeeps ==
    ASSUME PipeInv, UNCHANGED inboxVars, Fault \/ UNCHANGED faults,
           UNCHANGED <<hooks, poster, edit, tested, posted, outbox>>,
           deliveries' \in [Deliveries -> DeliveryRow],
           \A n \in Deliveries :
               /\ deliveries'[n].payload = deliveries[n].payload
               /\ \/ deliveries'[n].status = deliveries[n].status
                  \/ deliveries[n].status = "sending" /\ deliveries'[n].status = "pending"
    PROVE  StepKept
<1>1. \A n \in Deliveries : /\ deliveries'[n].status = "absent" <=> deliveries[n].status = "absent"
                            /\ deliveries'[n].status \in {"pending", "sending"} => deliveries'[n].payload
  BY DEF PipeInv, PurgedIsSettled
<1>2. PostersInv'
  BY <1>1 DEF PipeInv, PostersInv
<1>3. PipeInv' /\ Published' = Published
  BY <1>1, <1>2, DeliverySide, InboxTypes, WebhookTypes
<1>4. ASSUME NEW n \in Deliveries PROVE NoticeOf(n)' = NoticeOf(n)
  <2>1. CASE deliveries'[n].status = deliveries[n].status
    BY <2>1 DEF NoticeOf
  <2>2. CASE deliveries[n].status = "sending" /\ deliveries'[n].status = "pending"
    BY <2>2 DEF NoticeOf
  <2> QED
    BY <2>1, <2>2
<1> QED
  BY <1>3, <1>4, Stutters DEF StepKept

LEMMA DeliveryLeaseExpiresKeeps ==
    ASSUME PipeInv, NEW n \in Deliveries, DeliveryLeaseExpires(n), UNCHANGED inboxVars
    PROVE  StepKept
<1> DEFINE r == [deliveries[n] EXCEPT !.lease = "expired"]
<1>1. /\ deliveries' = [deliveries EXCEPT ![n] = r] /\ (Fault \/ UNCHANGED faults)
      /\ UNCHANGED <<hooks, poster, edit, tested, posted, outbox>>
  BY DEF DeliveryLeaseExpires
<1>2. deliveries[n] \in DeliveryRow
  BY WebhookTypes
<1>3. r \in DeliveryRow /\ r.status = deliveries[n].status /\ r.payload = deliveries[n].payload
  BY <1>2 DEF DeliveryRow, Lease
<1> HIDE DEF r
<1>4. /\ deliveries' \in [Deliveries -> DeliveryRow]
      /\ \A m \in Deliveries : deliveries'[m] = IF m = n THEN r ELSE deliveries[m]
  BY <1>1, <1>3, WebhookTypes
<1> QED
  BY <1>1, <1>3, <1>4, LeaseKeeps

LEMMA RecoverStaleDeliveriesKeeps ==
    ASSUME PipeInv, RecoverStaleDeliveries, UNCHANGED inboxVars
    PROVE  StepKept
<1>1. /\ deliveries' = [n \in Deliveries |-> RecoverStale(deliveries[n])]
      /\ UNCHANGED <<hooks, poster, edit, tested, posted, outbox, faults>>
  BY DEF RecoverStaleDeliveries
<1>2. ASSUME NEW d \in DeliveryRow
      PROVE  /\ RecoverStale(d) \in DeliveryRow /\ RecoverStale(d).payload = d.payload
             /\ \/ RecoverStale(d).status = d.status
                \/ d.status = "sending" /\ RecoverStale(d).status = "pending"
  BY DEF RecoverStale, DeliveryRow, Lease
<1>3. \A n \in Deliveries : deliveries[n] \in DeliveryRow /\ deliveries'[n] = RecoverStale(deliveries[n])
  BY <1>1, WebhookTypes
<1>4. deliveries' \in [Deliveries -> DeliveryRow]
  BY <1>1, <1>2, <1>3
<1> QED
  BY <1>1, <1>2, <1>3, <1>4, LeaseKeeps

\* The test endpoint: Probe.
LEMMA TestKeeps ==
    ASSUME PipeInv, NEW h \in Hooks, NEW e \in TestEvents, Test(h, e), UNCHANGED inboxVars
    PROVE  StepKept
<1> DEFINE n == <<e, h>>
           r == CreateDelivery(deliveries[n])
<1>1. /\ hooks[h].present = "yes" /\ e \notin tested /\ tested' = tested \cup {e}
      /\ deliveries' = [deliveries EXCEPT ![n] = r]
      /\ UNCHANGED <<hooks, poster, edit, posted, outbox, faults>>
  BY DEF Test
<1>2. e \in Events /\ n \in Deliveries /\ n[1] = e /\ n[2] = h
  BY WebhookAssumption, DeliveryPairs
<1>3. e \notin Published /\ Published' = Published \cup {e}
  BY <1>1, <1>2 DEF Published, PipeInv, TestsSkipOutbox
<1>4. deliveries[n] \in DeliveryRow /\ deliveries[n].status = "absent"
  BY <1>2, <1>3, WebhookTypes DEF PipeInv, DeliveriesInv
<1>5. r \in DeliveryRow /\ r.status = "pending" /\ r.payload
  <2>1. 0 \in 0..AttemptLimit
    BY WebhookAssumption
  <2> QED
    BY <1>4, <2>1 DEF CreateDelivery, DeliveryRow, Lease
<1> HIDE DEF n, r
<1>6. /\ deliveries' \in [Deliveries -> DeliveryRow]
      /\ \A m \in Deliveries : deliveries'[m] = IF m = n THEN r ELSE deliveries[m]
  BY <1>1, <1>2, <1>5, WebhookTypes
<1>7. WebhookTypeOK'
  BY <1>1, <1>6 DEF PipeInv, PipeTypeOK, WebhookTypeOK
<1>8. PurgedIsSettled' /\ DeliveriesInv'
  BY <1>1, <1>2, <1>3, <1>5, <1>6 DEF PipeInv, PurgedIsSettled, DeliveriesInv
<1>9. PostersInv'
  BY <1>1, <1>5, <1>6 DEF PipeInv, PostersInv
<1>10. NoticeOf(n)' = "owed" /\ \A m \in Deliveries : m # n => NoticeOf(m)' = NoticeOf(m)
  <2>1. NoticeOf(n)' = "owed"
    BY <1>1, <1>2, <1>5, <1>6, NoticeWillBe
  <2>2. \A m \in Deliveries : m # n => NoticeOf(m)' = NoticeOf(m)
    BY <1>1, <1>6 DEF NoticeOf
  <2> QED
    BY <2>1, <2>2
<1>11. Promise!Probe(n)
  BY <1>1, <1>2, <1>3, <1>10 DEF Promise!Probe, Published, Deliveries
<1>12. PipeInv'
  BY <1>1, <1>7, <1>8, <1>9, WebhookSide
<1> QED
  BY <1>2, <1>11, <1>12 DEF StepKept, Promise!Next, Deliveries

\* The dispatch of an event: Publish.
LEMMA DispatchNextOutboxKeeps ==
    ASSUME PipeInv, NEW e \in Events, DispatchNextOutbox(e), UNCHANGED inboxVars
    PROVE  StepKept
<1>1. /\ outbox[e].status = "pending" /\ outbox' = [outbox EXCEPT ![e] = Dispatch(outbox[e])]
      /\ deliveries' = [n \in Deliveries |->
            IF n[1] = e /\ n[2] \in Recipients(e) THEN CreateDelivery(deliveries[n])
            ELSE deliveries[n]]
      /\ UNCHANGED <<hooks, poster, edit, tested, posted, faults>>
  BY DEF DispatchNextOutbox, CanDispatch
<1>2. Dispatch(outbox[e]) \in OutboxRow /\ Dispatch(outbox[e]).status = "dispatched"
  BY OutboxRows, WebhookTypes
<1>3. /\ outbox' \in [Events -> OutboxRow] /\ outbox'[e].status = "dispatched"
      /\ \A x \in Events : x # e => outbox'[x] = outbox[x]
  BY <1>1, <1>2, WebhookTypes
<1>4. e \notin TestEvents /\ e \notin tested
  BY <1>1, WebhookTypes DEF PipeInv, TestsSkipOutbox
<1>5. e \notin Published /\ Published' = Published \cup {e}
  BY <1>1, <1>3, <1>4 DEF Published
<1>6. \A n \in Deliveries : n[1] = e => deliveries[n].status = "absent"
  BY <1>5 DEF PipeInv, DeliveriesInv
<1>7. ASSUME NEW d \in DeliveryRow, d.status = "absent"
      PROVE  CreateDelivery(d) \in DeliveryRow /\ CreateDelivery(d).status = "pending" /\ CreateDelivery(d).payload
  <2>1. 0 \in 0..AttemptLimit
    BY WebhookAssumption
  <2> QED
    BY <1>7, <2>1 DEF CreateDelivery, DeliveryRow, Lease
<1> DEFINE To(n) == n[1] = e /\ n[2] \in Recipients(e)
<1>8. \A n \in Deliveries :
        /\ deliveries'[n] \in DeliveryRow
        /\ To(n) => deliveries'[n].status = "pending" /\ deliveries'[n].payload
        /\ ~To(n) => deliveries'[n] = deliveries[n]
  BY <1>1, <1>6, <1>7, WebhookTypes
<1>9. deliveries' \in [Deliveries -> DeliveryRow]
  BY <1>1, <1>8
<1>10. \A n \in Deliveries : To(n) => hooks[n[2]].present = "yes" /\ n[1] = e
  BY DEF Recipients, Subscribes
<1>11. \A n \in Deliveries : To(n) <=> n[1] = e /\ Promise!Subscribed(n[2], e)
  BY DeliveryPairs DEF Recipients, Subscribes, Promise!Subscribed
<1> HIDE DEF To
<1>12. WebhookTypeOK'
  BY <1>1, <1>3, <1>9 DEF PipeInv, PipeTypeOK, WebhookTypeOK
<1>13. PurgedIsSettled' /\ DeliveriesInv'
  BY <1>1, <1>5, <1>8, <1>10 DEF PipeInv, PurgedIsSettled, DeliveriesInv
<1>14. PostersInv'
  BY <1>1, <1>8 DEF PipeInv, PostersInv
<1>15. AppliedIsPublished' /\ TestsSkipOutbox' /\ InboxTypeOK' /\ HandlersInv'
  <2>1. UNCHANGED <<inbox, email, week, handler, applied>>
    BY DEF inboxVars
  <2>2. AppliedIsPublished' /\ TestsSkipOutbox'
    BY <1>1, <1>3, <1>4, <2>1, InboxAssumption, WebhookAssumption
    DEF PipeInv, AppliedIsPublished, TestsSkipOutbox
  <2> QED
    BY <2>1, <2>2 DEF PipeInv, PipeTypeOK, InboxTypeOK, HandlersInv
<1>16. ASSUME NEW n \in Deliveries
       PROVE  NoticeOf(n)' = IF n[1] = e /\ Promise!Subscribed(n[2], e) THEN "owed" ELSE NoticeOf(n)
  <2>1. CASE To(n)
    <3>1. NoticeOf(n)' = "owed"
      BY <1>1, <1>8, <1>10, <2>1, NoticeWillBe
    <3> QED
      BY <1>11, <2>1, <3>1
  <2>2. CASE ~To(n)
    <3>1. NoticeOf(n)' = NoticeOf(n)
      BY <1>1, <1>8, <2>2 DEF NoticeOf
    <3> QED
      BY <1>11, <2>2, <3>1
  <2> QED
    BY <2>1, <2>2
<1>17. Promise!Publish(e)
  BY <1>1, <1>5, <1>16 DEF Promise!Publish, Published, Deliveries
<1> QED
  BY <1>12, <1>13, <1>14, <1>15, <1>17 DEF StepKept, PipeInv, PipeTypeOK, Promise!Next

-----------------------------------------------------------------------------
(* The webhook workers.                                                    *)

LEMMA ClaimKeeps ==
    ASSUME PipeInv, NEW w \in WebhookWorkers, NEW n \in Deliveries, Claim(w, n), UNCHANGED inboxVars
    PROVE  StepKept
<1> DEFINE r == ClaimDelivery(deliveries[n])
           new == [pc |-> "claimed", delivery |-> n]
<1>1. /\ CanClaimDelivery(deliveries[n], hooks[n[2]]) /\ deliveries' = [deliveries EXCEPT ![n] = r]
      /\ poster' = [poster EXCEPT ![w] = new] \/ poster' = poster
      /\ Fault \/ UNCHANGED faults
      /\ UNCHANGED <<hooks, edit, tested, posted, outbox>>
  BY DEF Claim
<1>2. deliveries[n] \in DeliveryRow /\ hooks[n[2]].present = "yes"
  BY <1>1, WebhookTypes DEF CanClaimDelivery
<1>3. r \in DeliveryRow /\ r.status = "sending" /\ r.payload /\ deliveries[n].status = "pending"
  BY <1>1, <1>2, ClaimRow
<1>4. new \in PosterState /\ new.pc = "claimed" /\ new.delivery = n
  BY DEF PosterState
<1> HIDE DEF r, new
<1>5. /\ deliveries' \in [Deliveries -> DeliveryRow]
      /\ \A m \in Deliveries : deliveries'[m] = IF m = n THEN r ELSE deliveries[m]
  BY <1>1, <1>3, WebhookTypes
<1>6. \A m \in Deliveries : /\ deliveries'[m].status = "absent" <=> deliveries[m].status = "absent"
                            /\ deliveries'[m].status \in {"pending", "sending"} => deliveries'[m].payload
  BY <1>3, <1>5 DEF PipeInv, PurgedIsSettled
<1>7. /\ poster' \in [WebhookWorkers -> PosterState]
      /\ \A v \in WebhookWorkers : poster'[v] = poster[v] \/ poster'[v] = new
  BY <1>1, <1>4, WebhookTypes
<1>8. PostersInv'
  BY <1>1, <1>3, <1>4, <1>5, <1>6, <1>7 DEF PipeInv, PostersInv
<1>9. PipeInv' /\ Published' = Published
  BY <1>1, <1>5, <1>6, <1>7, <1>8, DeliverySide, InboxTypes
<1>10. ASSUME NEW m \in Deliveries PROVE NoticeOf(m)' = NoticeOf(m)
  <2>1. CASE m # n
    BY <1>1, <1>5, <2>1 DEF NoticeOf
  <2>2. CASE m = n
    <3>1. NoticeOf(n) = "owed"
      BY <1>2, <1>3, NoticeIs
    <3>2. NoticeOf(n)' = "owed"
      BY <1>1, <1>2, <1>3, <1>5, NoticeWillBe
    <3> QED
      BY <2>2, <3>1, <3>2
  <2> QED
    BY <2>1, <2>2
<1> QED
  BY <1>1, <1>9, <1>10, Stutters DEF StepKept

\* A worker at work has a delivery that Notice knows.
LEMMA PosterHasNotice ==
    ASSUME PipeInv, NEW w \in WebhookWorkers, poster[w].pc # "idle"
    PROVE  /\ poster[w].delivery \in Deliveries /\ deliveries[poster[w].delivery] \in DeliveryRow
           /\ NoticeOf(poster[w].delivery) # "none"
<1> DEFINE n == poster[w].delivery
<1>1. /\ n \in Deliveries
      /\ hooks[n[2]].present = "deleted" \/ deliveries[n].status # "absent"
  BY DEF PipeInv, PostersInv
<1>2. deliveries[n] \in DeliveryRow
  BY <1>1, WebhookTypes
<1>3. deliveries[n].status \in {"absent", "pending", "sending", "delivered", "failed"}
      /\ deliveries[n].payload \in BOOLEAN
  BY <1>2 DEF DeliveryRow
<1> HIDE DEF n
<1>4. NoticeOf(n) # "none"
  BY <1>1, <1>2, <1>3, NoticeIs
<1> QED
  BY <1>1, <1>2, <1>4 DEF n

\* The endpoint takes the request, or does not: Receive.
LEMMA SendWebhookKeeps ==
    ASSUME PipeInv, NEW w \in WebhookWorkers, SendWebhook(w), UNCHANGED inboxVars
    PROVE  StepKept
<1> DEFINE n == poster[w].delivery
<1>1. poster[w].pc # "idle" /\ UNCHANGED <<hooks, deliveries, edit, tested, outbox, faults>>
  BY DEF SendWebhook
<1>2. PICK pc \in {"succeeded", "failed"} :
        /\ poster' = [poster EXCEPT ![w].pc = pc]
        /\ posted' = posted \cup {n} \/ posted' = posted
        /\ pc = "succeeded" => posted' = posted \cup {n}
  BY DEF SendWebhook
<1> DEFINE new == [poster[w] EXCEPT !.pc = pc]
<1>3. n \in Deliveries /\ deliveries[n] \in DeliveryRow /\ NoticeOf(n) # "none" /\ poster[w] \in PosterState
  BY <1>1, PosterHasNotice, WebhookTypes
<1>4. /\ new \in PosterState /\ new.pc = pc /\ new.delivery = n
      /\ poster' = [poster EXCEPT ![w] = new]
  BY <1>2, <1>3 DEF PosterState
<1>5. hooks[n[2]].present = "deleted" \/ deliveries[n].status # "absent"
  BY <1>1 DEF PipeInv, PostersInv
<1> HIDE DEF n, new
<1>6. /\ poster' \in [WebhookWorkers -> PosterState]
      /\ \A v \in WebhookWorkers : poster'[v] = IF v = w THEN new ELSE poster[v]
  BY <1>4, WebhookTypes
<1>7. posted' \in SUBSET Deliveries /\ posted \subseteq posted'
  BY <1>2, <1>3, WebhookTypes
<1>8. PostersInv'
  BY <1>1, <1>2, <1>3, <1>4, <1>5, <1>6, <1>7 DEF PipeInv, PostersInv
<1>9. WebhookTypeOK'
  BY <1>1, <1>6, <1>7 DEF PipeInv, PipeTypeOK, WebhookTypeOK
<1>10. Published' = Published /\ \A m \in Deliveries : NoticeOf(m)' = NoticeOf(m)
  BY <1>1 DEF Published, NoticeOf
<1>11. PurgedIsSettled' /\ DeliveriesInv'
  BY <1>1, <1>10 DEF PipeInv, PurgedIsSettled, DeliveriesInv
<1>12. PipeInv'
  BY <1>1, <1>8, <1>9, <1>11, WebhookSide
<1>13. CASE posted' = posted \cup {n}
  <2>1. Promise!Receive(n)
    BY <1>1, <1>3, <1>10, <1>13 DEF Promise!Receive, Published, Deliveries
  <2> QED
    BY <1>3, <1>12, <2>1 DEF StepKept, Promise!Next, Deliveries
<1>14. CASE posted' = posted
  BY <1>1, <1>10, <1>12, <1>14, Stutters DEF StepKept
<1> QED
  BY <1>2, <1>13, <1>14

\* A worker ends its turn.
LEMMA PosterEnds ==
    ASSUME PipeInv, NEW w \in WebhookWorkers, poster' = [poster EXCEPT ![w] = IdlePoster],
           UNCHANGED <<hooks, posted>>,
           \A n \in Deliveries : deliveries'[n].status = "absent" <=> deliveries[n].status = "absent"
    PROVE  poster' \in [WebhookWorkers -> PosterState] /\ PostersInv'
<1>1. IdlePoster \in PosterState /\ IdlePoster.pc = "idle"
  BY DEF IdlePoster, PosterState
<1>2. /\ poster' \in [WebhookWorkers -> PosterState]
      /\ \A v \in WebhookWorkers : poster'[v] = IF v = w THEN IdlePoster ELSE poster[v]
  BY <1>1, WebhookTypes
<1> QED
  BY <1>1, <1>2 DEF PipeInv, PostersInv

LEMMA PosterDropsKeeps ==
    ASSUME PipeInv, NEW w \in WebhookWorkers, poster' = [poster EXCEPT ![w] = IdlePoster], Fault,
           UNCHANGED <<hooks, deliveries, edit, tested, posted, outbox>>, UNCHANGED inboxVars
    PROVE  StepKept
<1>1. poster' \in [WebhookWorkers -> PosterState] /\ PostersInv'
  BY PosterEnds
<1>2. PipeInv' /\ Published' = Published
  BY <1>1, DeliverySide, InboxTypes, WebhookTypes DEF PipeInv, PurgedIsSettled
<1>3. \A m \in Deliveries : NoticeOf(m)' = NoticeOf(m)
  BY DEF NoticeOf
<1> QED
  BY <1>2, <1>3, Stutters DEF StepKept

\* The outcome is written down: Settle, if the delivery is still being sent.
LEMMA OutcomeKeeps ==
    ASSUME PipeInv, NEW w \in WebhookWorkers, NEW n \in Deliveries, n = poster[w].delivery,
           poster[w].pc # "idle", poster' = [poster EXCEPT ![w] = IdlePoster],
           NEW r, r = IF poster[w].pc = "succeeded" THEN MarkDelivered(deliveries[n])
                      ELSE MarkFailed(deliveries[n]),
           deliveries' = [deliveries EXCEPT ![n] = r],
           UNCHANGED <<hooks, edit, tested, posted, outbox, faults>>, UNCHANGED inboxVars
    PROVE  StepKept
<1> DEFINE d == deliveries[n]
<1>1. d \in DeliveryRow
  BY WebhookTypes
<1>2. d.status \in {"pending", "sending"} => d.payload
  BY <1>1 DEF PipeInv, PurgedIsSettled
<1>3. /\ r \in DeliveryRow /\ (r.status \in {"pending", "sending"} => r.payload)
      /\ d.status # "sending" => r = d
      /\ d.status = "sending" =>
            /\ r.status \in {"delivered", "failed", "pending"} /\ r.payload
            /\ r.status = "delivered" => poster[w].pc = "succeeded"
  <2>1. r \in DeliveryRow /\ (r.status \in {"pending", "sending"} => r.payload)
    BY <1>1, <1>2, DeliveryRows
  <2>2. CASE poster[w].pc = "succeeded"
    BY <1>1, <1>2, <2>1, <2>2 DEF MarkDelivered, DeliveryRow
  <2>3. CASE poster[w].pc # "succeeded"
    BY <1>1, <1>2, <2>1, <2>3 DEF MarkFailed, DeliveryRow
  <2> QED
    BY <2>1, <2>2, <2>3
<1>4. poster[w].pc = "succeeded" => n \in posted
  BY DEF PipeInv, PostersInv
<1>5. d.status = "sending" => hooks[n[2]].present = "yes"
  BY <1>1 DEF PipeInv, DeliveriesInv
<1>6. /\ deliveries' \in [Deliveries -> DeliveryRow]
      /\ \A m \in Deliveries : deliveries'[m] = IF m = n THEN r ELSE deliveries[m]
  BY <1>1, <1>3, WebhookTypes
<1>7. \A m \in Deliveries : /\ deliveries'[m].status = "absent" <=> deliveries[m].status = "absent"
                            /\ deliveries'[m].status \in {"pending", "sending"} => deliveries'[m].payload
  BY <1>3, <1>6 DEF PipeInv, PurgedIsSettled
<1>8. poster' \in [WebhookWorkers -> PosterState] /\ PostersInv'
  BY <1>7, PosterEnds
<1>9. PipeInv' /\ Published' = Published
  BY <1>6, <1>7, <1>8, DeliverySide, InboxTypes
<1>10. \A m \in Deliveries : m # n => NoticeOf(m)' = NoticeOf(m)
  BY <1>6 DEF NoticeOf
<1>11. CASE d.status # "sending"
  <2>1. deliveries' = deliveries
    BY <1>1, <1>3, <1>11, WebhookTypes
  <2>2. \A m \in Deliveries : NoticeOf(m)' = NoticeOf(m)
    BY <2>1 DEF NoticeOf
  <2> QED
    BY <1>9, <2>2, Stutters DEF StepKept
<1>12. CASE d.status = "sending"
  <2>1. NoticeOf(n) = "owed"
    BY <1>1, <1>5, <1>12, NoticeIs
  <2>2. deliveries'[n] = r /\ hooks'[n[2]].present = "yes"
    BY <1>1, <1>5, <1>6, <1>12
  <2>3. CASE r.status = "pending"
    <3>1. NoticeOf(n)' = "owed"
      BY <1>1, <1>6, <2>2, <2>3, NoticeWillBe
    <3> QED
      BY <1>9, <1>10, <2>1, <3>1, Stutters DEF StepKept
  <2>4. CASE r.status = "delivered"
    <3>1. NoticeOf(n)' = "done" /\ n \in posted
      BY <1>1, <1>3, <1>4, <1>6, <1>12, <2>2, <2>4, NoticeWillBe
    <3>2. Promise!Settle(n)
      BY <1>1, <1>9, <1>10, <2>1, <3>1 DEF Promise!Settle, Published, Deliveries
    <3> QED
      BY <1>1, <1>9, <3>2 DEF StepKept, Promise!Next, Deliveries
  <2>5. CASE r.status = "failed"
    <3>1. NoticeOf(n)' = "failed"
      BY <1>1, <1>3, <1>6, <1>12, <2>2, <2>5, NoticeWillBe
    <3>2. Promise!Settle(n)
      BY <1>1, <1>9, <1>10, <2>1, <3>1 DEF Promise!Settle, Published, Deliveries
    <3> QED
      BY <1>1, <1>9, <3>2 DEF StepKept, Promise!Next, Deliveries
  <2> QED
    BY <1>3, <1>12, <2>3, <2>4, <2>5
<1> QED
  BY <1>11, <1>12

LEMMA MarkKeeps ==
    ASSUME PipeInv, NEW w \in WebhookWorkers, Mark(w), UNCHANGED inboxVars
    PROVE  StepKept
<1>1. /\ poster[w].pc # "idle" /\ poster' = [poster EXCEPT ![w] = IdlePoster]
      /\ UNCHANGED <<hooks, edit, tested, posted, outbox>>
  BY DEF Mark
<1>2. CASE Fault /\ UNCHANGED deliveries
  BY <1>1, <1>2, PosterDropsKeeps
<1>3. CASE ~(Fault /\ UNCHANGED deliveries)
  <2>1. PICK n \in Deliveries : n = poster[w].delivery
    BY <1>1, PosterHasNotice
  <2>2. PICK r : r = IF poster[w].pc = "succeeded" THEN MarkDelivered(deliveries[n])
                     ELSE MarkFailed(deliveries[n])
    OBVIOUS
  <2>3. deliveries' = [deliveries EXCEPT ![n] = r] /\ UNCHANGED faults
    BY <1>3, <2>1, <2>2 DEF Mark
  <2> QED
    BY <1>1, <2>1, <2>2, <2>3, OutcomeKeeps
<1> QED
  BY <1>2, <1>3

LEMMA PosterDiesKeeps ==
    ASSUME PipeInv, NEW w \in WebhookWorkers, PosterDies(w), UNCHANGED inboxVars
    PROVE  StepKept
BY PosterDropsKeeps DEF PosterDies

-----------------------------------------------------------------------------
(* Retention, and all steps together.                                      *)

\* A purge is Expire for the old deliveries; an event purged before it is
\* dispatched is one that nobody will hear of.
LEMMA PurgeKeeps ==
    ASSUME PipeInv, Purge
    PROVE  StepKept
<1>1. PICK c \in {"outbound", "inbound"} :
        \E old \in SUBSET {e \in Entered : RetentionClass(e) = c} :
            \E oldDeliveries \in SUBSET (old \X Hooks) : PurgeByEventClass(c, old, oldDeliveries)
  BY DEF Purge
<1>2. PICK old, N : PurgeByEventClass(c, old, N)
  BY <1>1
<1>3. /\ deliveries' = [n \in Deliveries |-> IF n \in N THEN PurgeDelivery(deliveries[n]) ELSE deliveries[n]]
      /\ outbox' = [e \in Events |-> IF e \in old THEN PurgeOutbox(outbox[e]) ELSE outbox[e]]
      /\ inbox' = [e \in ProviderEvents |->
            IF e \in old /\ c = "outbound" THEN PurgeInbox(inbox[e]) ELSE inbox[e]]
      /\ UNCHANGED <<email, week, handler, applied, hooks, poster, edit, tested, posted, faults>>
  BY <1>2 DEF PurgeByEventClass
<1>4. /\ inbox \in [ProviderEvents -> InboxRow] /\ deliveries \in [Deliveries -> DeliveryRow]
      /\ outbox \in [Events -> OutboxRow]
  BY DEF PipeInv, PipeTypeOK, InboxTypeOK, WebhookTypeOK
<1>5. inbox' \in [ProviderEvents -> InboxRow] /\ NoneProcessed
  <2>1. ASSUME NEW e \in ProviderEvents
        PROVE  inbox'[e] \in InboxRow /\ (inbox'[e].status = "processed" => inbox[e].status = "processed")
    <3>1. inbox'[e] \in {PurgeInbox(inbox[e]), inbox[e]} /\ inbox[e] \in InboxRow
      BY <1>3, <1>4
    <3> QED
      BY <3>1, InboxRows, OnlyMarkProcesses
  <2> QED
    BY <1>3, <2>1 DEF NoneProcessed
<1>6. /\ outbox' \in [Events -> OutboxRow]
      /\ \A e \in Events : /\ outbox'[e].status = "absent" <=> outbox[e].status = "absent"
                           /\ outbox[e].status \in {"dispatched", "failed"} =>
                                 outbox'[e].status \in {"dispatched", "failed"}
  <2>1. ASSUME NEW e \in Events
        PROVE  /\ outbox'[e] \in OutboxRow /\ (outbox'[e].status = "absent" <=> outbox[e].status = "absent")
               /\ outbox[e].status \in {"dispatched", "failed"} =>
                     outbox'[e].status \in {"dispatched", "failed"}
    <3>1. outbox'[e] \in {PurgeOutbox(outbox[e]), outbox[e]} /\ outbox[e] \in OutboxRow
      BY <1>3, <1>4
    <3> QED
      BY <3>1, OutboxRows
  <2> QED
    BY <1>3, <2>1
<1>7. \A n \in Deliveries :
        /\ deliveries'[n] \in DeliveryRow
        /\ deliveries'[n].status \in {"pending", "sending"} => deliveries'[n].payload
        /\ deliveries'[n].status = "absent" <=> deliveries[n].status = "absent"
  <2>1. ASSUME NEW n \in Deliveries
        PROVE  /\ deliveries'[n] \in DeliveryRow
               /\ deliveries'[n].status \in {"pending", "sending"} => deliveries'[n].payload
               /\ deliveries'[n].status = "absent" <=> deliveries[n].status = "absent"
    <3>1. deliveries'[n] \in {PurgeDelivery(deliveries[n]), deliveries[n]} /\ deliveries[n] \in DeliveryRow
      BY <1>3, <1>4
    <3>2. deliveries[n].status \in {"pending", "sending"} => deliveries[n].payload
      BY DEF PipeInv, PurgedIsSettled
    <3>3. PurgeDelivery(deliveries[n]).status = "absent" <=> deliveries[n].status = "absent"
      BY <3>1 DEF PurgeDelivery, DeliveryRow
    <3> QED
      BY <3>1, <3>2, <3>3, DeliveryRows
  <2> QED
    BY <2>1
<1>8. deliveries' \in [Deliveries -> DeliveryRow]
  BY <1>3, <1>7
<1>9. Published \subseteq Published' /\ Published' \subseteq Events
  <2>1. tested \subseteq Events
    BY WebhookAssumption DEF PipeInv, PipeTypeOK, WebhookTypeOK
  <2> QED
    BY <1>3, <1>6, <2>1 DEF Published
<1>10. PipeInv'
  <2>1. PipeTypeOK'
    BY <1>3, <1>5, <1>6, <1>8 DEF PipeInv, PipeTypeOK, InboxTypeOK, WebhookTypeOK
  <2>2. AppliedIsPublished'
    BY <1>3, <1>5, <1>6, InboxAssumption DEF PipeInv, AppliedIsPublished, NoneProcessed
  <2>3. PurgedIsSettled'
    BY <1>7 DEF PurgedIsSettled
  <2>4. HandlersInv' /\ TestsSkipOutbox'
    BY <1>3, <1>6, WebhookAssumption DEF PipeInv, HandlersInv, TestsSkipOutbox
  <2>5. DeliveriesInv'
    BY <1>3, <1>7, <1>9 DEF PipeInv, DeliveriesInv
  <2>6. PostersInv'
    BY <1>3, <1>7 DEF PipeInv, PostersInv
  <2> QED
    BY <2>1, <2>2, <2>3, <2>4, <2>5, <2>6 DEF PipeInv
<1>11. ASSUME NEW n \in Deliveries
       PROVE  NoticeOf(n)' = IF n \in N /\ NoticeOf(n) \in {"owed", "failed"} THEN "expired" ELSE NoticeOf(n)
  <2>1. deliveries[n] \in DeliveryRow /\ deliveries'[n] \in DeliveryRow /\ hooks' = hooks
    BY <1>3, <1>4, <1>7
  <2>2. CASE n \notin N \/ hooks[n[2]].present = "deleted"
    <3>1. CASE n \notin N
      <4>1. deliveries'[n] = deliveries[n]
        BY <1>3, <3>1
      <4>2. NoticeOf(n)' = NoticeOf(n)
        BY <2>1, <4>1 DEF NoticeOf
      <4> QED
        BY <3>1, <4>2
    <3>2. CASE hooks[n[2]].present = "deleted"
      BY <2>1, <3>2, NoticeIs, NoticeWillBe
    <3> QED
      BY <2>2, <3>1, <3>2
  <2>3. CASE n \in N /\ hooks[n[2]].present # "deleted"
    <3>1. deliveries'[n] = PurgeDelivery(deliveries[n]) /\ hooks'[n[2]].present # "deleted"
      BY <1>3, <2>1, <2>3
    <3>2. deliveries[n].status \in {"pending", "sending"} => deliveries[n].payload
      BY DEF PipeInv, PurgedIsSettled
    <3>3. /\ deliveries[n].status \in {"pending", "sending", "failed"} =>
                deliveries'[n].status = "failed" /\ ~deliveries'[n].payload
          /\ deliveries[n].status \in {"absent", "delivered"} =>
                deliveries'[n].status = deliveries[n].status
      BY <2>1, <3>1, <3>2 DEF PurgeDelivery, DeliveryRow
    <3>4. deliveries[n].status \in {"absent", "pending", "sending", "delivered", "failed"}
          /\ deliveries[n].payload \in BOOLEAN
      BY <2>1 DEF DeliveryRow
    <3> QED
      BY <2>1, <2>3, <3>1, <3>3, <3>4, NoticeIs, NoticeWillBe
  <2> QED
    BY <2>2, <2>3
<1>12. Promise!ExpireAndSuppress
  <2> DEFINE M == N \cap (Events \X Hooks)
             E == Published' \ Published
  <2>1. Promise!Expire(M)
    BY <1>3, <1>11 DEF Promise!Expire, Deliveries
  <2>2. E \in SUBSET (Events \ Published) /\ Published' = Published \cup E
    BY <1>9
  <2>3. \E E1 \in SUBSET (Events \ Published) : Published' = Published \cup E1
    BY <2>2
  <2>4. M \in SUBSET (Events \X Hooks)
    OBVIOUS
  <2> HIDE DEF M
  <2> QED
    BY <2>1, <2>3, <2>4 DEF Promise!ExpireAndSuppress, Published
<1> QED
  BY <1>10, <1>12 DEF StepKept, Promise!Next

LEMMA PipeNextKeeps ==
    ASSUME PipeInv, [PipeNext]_pipeVars
    PROVE  StepKept
<1>1. ASSUME NEW e \in ProviderEvents, Handle(e), UNCHANGED webhookVars PROVE StepKept
  BY <1>1, HandleKeeps
<1>2. ASSUME NEW e \in ProviderEvents, UNCHANGED webhookVars,
             InboxLeaseExpires(e) \/ EmailFinalized(e) \/ EmailMoved(e) \/ WeekPasses(e)
      PROVE  StepKept
  BY <1>2, InboxLeaseExpiresKeeps, EmailKeeps
<1>3. ASSUME NEW i \in Handlers, UNCHANGED webhookVars, HandlerStep(i) \/ HandlerDies(i)
      PROVE  StepKept
  BY <1>3, ClaimEventKeeps, CorrelateKeeps, ApplyProviderEventTxKeeps, RetryKeeps, HandlerDiesKeeps
     DEF HandlerStep
<1>4. ASSUME RecoverStalePipelineWork, UNCHANGED webhookVars PROVE StepKept
  BY <1>4, RecoverStalePipelineWorkKeeps
<1>5. ASSUME NEW h \in Hooks, NEW e \in TestEvents, Test(h, e), UNCHANGED inboxVars PROVE StepKept
  BY <1>5, TestKeeps
<1>6. ASSUME UNCHANGED inboxVars, NEW h \in Hooks, Create(h) \/ UpdateRead(h) \/ Delete(h)
      PROVE  StepKept
  BY <1>6, CreateKeeps, UpdateReadKeeps, DeleteKeeps
<1>7. ASSUME UNCHANGED inboxVars, UpdateWrite \/ RecoverStaleDeliveries PROVE StepKept
  BY <1>7, UpdateWriteKeeps, RecoverStaleDeliveriesKeeps
<1>8. ASSUME UNCHANGED inboxVars, NEW e \in Events, DispatchNextOutbox(e) PROVE StepKept
  BY <1>8, DispatchNextOutboxKeeps
<1>9. ASSUME UNCHANGED inboxVars, NEW n \in Deliveries, ReplayDelivery(n) \/ DeliveryLeaseExpires(n)
      PROVE  StepKept
  BY <1>9, ReplayDeliveryKeeps, DeliveryLeaseExpiresKeeps
<1>10. ASSUME UNCHANGED inboxVars, NEW w \in WebhookWorkers, PosterStep(w) \/ PosterDies(w)
       PROVE  StepKept
  BY <1>10, ClaimKeeps, SendWebhookKeeps, MarkKeeps, PosterDiesKeeps DEF PosterStep
<1>11. ASSUME NEW e \in Events, PublishOwn(e) PROVE StepKept
  BY <1>11, PublishOwnKeeps
<1>12. CASE Purge
  BY <1>12, PurgeKeeps
<1>13. CASE UNCHANGED pipeVars
  <2>1. /\ UNCHANGED <<inbox, email, week, handler, applied, webhookVars, outbox, faults>>
    BY <1>13 DEF pipeVars, inboxVars
  <2> QED
    BY <2>1, InboxSide, InboxTypes
<1> QED
  BY <1>1, <1>2, <1>3, <1>4, <1>5, <1>6, <1>7, <1>8, <1>9, <1>10, <1>11, <1>12, <1>13 DEF PipeNext

-----------------------------------------------------------------------------

\* Every state of the pipeline satisfies the invariant.
THEOREM PipeInvariance == PipeSpec => []PipeInv
<1>1. PipeInit => PipeInv
  BY PipeInitInv
<1>2. PipeInv /\ [PipeNext]_pipeVars => PipeInv'
  BY PipeNextKeeps DEF StepKept
<1> QED
  BY <1>1, <1>2, PTL DEF PipeSpec

\* The columns of inbox, outbox, deliveries and webhooks, and what handlers,
\* workers and the PATCH request hold of them, keep their types under every
\* statement of delivery_pipeline_repo.go and webhook_delivery_repo.go and under retention.
THEOREM PipeTypeCorrectness == PipeSpec => []PipeTypeOK
<1>1. PipeInv => PipeTypeOK
  BY DEF PipeInv
<1> QED
  BY <1>1, PipeInvariance, PTL

\* A provider event is recorded as applied exactly if it is published:
\* ApplyProviderEvent writes both in one transaction, however many handlers
\* hold the event.
THEOREM PublishedIffApplied == PipeSpec => []AppliedIsPublished
<1>1. PipeInv => AppliedIsPublished
  BY DEF PipeInv
<1> QED
  BY <1>1, PipeInvariance, PTL

\* No delivery waits for a payload that retention has removed
\* (PurgeByEventClass), whatever its worker writes afterwards.
THEOREM NothingWaitsForPurged == PipeSpec => []PurgedIsSettled
<1>1. PipeInv => PurgedIsSettled
  BY DEF PipeInv
<1> QED
  BY <1>1, PipeInvariance, PTL

\* The pipeline implements the safety part of Notice: every step of inbox,
\* outbox, deliveries, workers and retention is one that the promise to the
\* webhook's owner allows, or is invisible to the owner.
THEOREM PromiseIsKept == PipeSpec => Promise!Init /\ [][Promise!Next]_(Promise!vars)
<1>1. PipeInit => PipeInv /\ Promise!Init
  BY PipeInitInv
<1>2. PipeInv /\ [PipeNext]_pipeVars => PipeInv' /\ [Promise!Next]_(Promise!vars)
  BY PipeNextKeeps DEF StepKept
<1> QED
  BY <1>1, <1>2, PTL DEF PipeSpec
=============================================================================
