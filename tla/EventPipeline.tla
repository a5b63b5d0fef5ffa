---------------------------- MODULE EventPipeline ----------------------------
(***************************************************************************)
(* The whole way of an event: provider event inbox, outbox, deliveries,    *)
(* with the retention worker taking payloads away underneath.  The two     *)
(* halves meet in the outbox; the purge is one transaction over all three  *)
(* tables.                                                                 *)
(***************************************************************************)
EXTENDS ProviderInbox, WebhookDelivery

CONSTANT
    MaxEvents   \* bound: events that enter the pipeline in a behaviour

pipeVars == <<inboxVars, webhookVars, outbox, faults>>

PipeTypeOK == InboxTypeOK /\ WebhookTypeOK

PipeInit == InboxInit /\ WebhookInit

Entered ==
    {e \in ProviderEvents : inbox[e].status # "absent"}
        \cup {e \in Events : outbox[e].status # "absent"} \cup tested

\* FinalizeAccepted, FinalizeFailed, FinalizeAmbiguous, CreateInboundWithOutbox:
\* the event is inserted in the transaction of what it reports.
PublishOwn(e) ==
    /\ e \notin ProviderEvents \cup TestEvents
    /\ outbox[e].status = "absent"
    /\ outbox' = [outbox EXCEPT ![e] = InsertOutbox(@)]
    /\ UNCHANGED <<inboxVars, webhookVars, faults>>

\* old: the rows of class c that were created before the cut, as event IDs; a
\* delivery is created after its event, so it may be younger.
PurgeByEventClass(c, old, oldDeliveries) ==
    /\ \A e \in old : RetentionClass(e) = c
    /\ oldDeliveries \subseteq old \X Hooks
    /\ deliveries' = [n \in Deliveries |->
          IF n \in oldDeliveries THEN PurgeDelivery(deliveries[n]) ELSE deliveries[n]]
    /\ outbox' = [e \in Events |-> IF e \in old THEN PurgeOutbox(outbox[e]) ELSE outbox[e]]
    /\ inbox' = [e \in ProviderEvents |->
          IF e \in old /\ c = "outbound" THEN PurgeInbox(inbox[e]) ELSE inbox[e]]
    /\ UNCHANGED <<email, week, handler, applied, hooks, poster, edit, tested, posted, faults>>

Purge ==
    \E c \in {"outbound", "inbound"} :
        \E old \in SUBSET {e \in Entered : RetentionClass(e) = c} :
            \E oldDeliveries \in SUBSET (old \X Hooks) : PurgeByEventClass(c, old, oldDeliveries)

Room(e) == e \in Entered \/ Cardinality(Entered) < MaxEvents

PipeNext ==
    \/ \E e \in ProviderEvents :
          /\ Room(e) /\ Handle(e)
          /\ UNCHANGED webhookVars
    \/ /\ \/ \E e \in ProviderEvents :
                InboxLeaseExpires(e) \/ EmailFinalized(e) \/ EmailMoved(e) \/ WeekPasses(e)
          \/ \E i \in Handlers : HandlerStep(i) \/ HandlerDies(i)
          \/ RecoverStalePipelineWork
       /\ UNCHANGED webhookVars
    \/ \E h \in Hooks, e \in TestEvents : Room(e) /\ Test(h, e) /\ UNCHANGED inboxVars
    \/ /\ \/ \E h \in Hooks : Create(h) \/ UpdateRead(h) \/ Delete(h)
          \/ UpdateWrite
          \/ \E e \in Events : DispatchNextOutbox(e)
          \/ \E n \in Deliveries : ReplayDelivery(n) \/ DeliveryLeaseExpires(n)
          \/ \E w \in WebhookWorkers : PosterStep(w) \/ PosterDies(w)
          \/ RecoverStaleDeliveries
       /\ UNCHANGED inboxVars
    \/ \E e \in Events : Room(e) /\ PublishOwn(e)
    \/ Purge

\* The loops of the workers, the 30 s tick and the clock.  Nothing is assumed
\* of the requests, the purge or the endpoint's answer.
PipeFairness ==
    /\ \A i \in Handlers : WF_pipeVars(HandlerStep(i) /\ UNCHANGED webhookVars)
    /\ WF_pipeVars(RecoverStalePipelineWork /\ UNCHANGED webhookVars)
    /\ \A e \in ProviderEvents : WF_pipeVars(InboxLeaseExpires(e) /\ UNCHANGED webhookVars)
    /\ \A w \in WebhookWorkers : WF_pipeVars(PosterStep(w) /\ UNCHANGED inboxVars)
    /\ \A e \in Events : WF_pipeVars(DispatchNextOutbox(e) /\ UNCHANGED inboxVars)
    /\ \A n \in Deliveries : WF_pipeVars(DeliveryLeaseExpires(n) /\ UNCHANGED inboxVars)
    /\ WF_pipeVars(RecoverStaleDeliveries /\ UNCHANGED inboxVars)

PipeSpec == PipeInit /\ [][PipeNext]_pipeVars /\ PipeFairness

-----------------------------------------------------------------------------
(* The promise to the webhook's owner (Notice), as the tables keep it.     *)

NoticeOf(n) ==
    LET d == deliveries[n] IN
    CASE hooks[n[2]].present = "deleted" -> "withdrawn"
      [] hooks[n[2]].present # "deleted" /\ d.status = "absent" -> "none"
      [] hooks[n[2]].present # "deleted" /\ d.status \in {"pending", "sending"} -> "owed"
      [] hooks[n[2]].present # "deleted" /\ d.status = "delivered" -> "done"
      [] hooks[n[2]].present # "deleted" /\ d.status = "failed" ->
            IF d.payload THEN "failed" ELSE "expired"

Promise == INSTANCE Notice WITH
    hook      <- hooks,
    published <- {e \in Events : outbox[e].status \in {"dispatched", "failed"}} \cup tested,
    notice    <- [n \in Deliveries |-> NoticeOf(n)],
    received  <- posted

\* The pipeline keeps the promise: an event is dispatched once, to the webhooks
\* subscribed at that moment; a delivery is marked delivered only if the
\* endpoint had it, although MarkDelivered and MarkFailed check the status and
\* not the claim; delivered and purged are final; and a delivery to a webhook
\* that is on ends, whatever workers die with it and however often the lease
\* recovery takes it past the attempt limit.
KeepsPromise == Promise!Spec

\* A payload that retention has removed is never sent by a claim made later,
\* and a delivery without one is not left waiting for it.
PurgedIsSettled ==
    \A n \in Deliveries :
        deliveries[n].status \in {"pending", "sending"} => deliveries[n].payload
=============================================================================
