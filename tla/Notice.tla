------------------------------- MODULE Notice -------------------------------
(***************************************************************************)
(* What the service promises the owner of a webhook, without inboxes,      *)
(* outboxes, leases or workers.                                            *)
(*                                                                         *)
(* An event is published once.  Publication makes it owed to the webhooks  *)
(* that subscribe to it at that moment and to no other, ever.  What is     *)
(* owed to a working webhook is settled: it ends as done, and then the     *)
(* endpoint has had it at least once, or as failed, or as expired.  Done   *)
(* and expired are final; what has failed can be asked for again.          *)
(***************************************************************************)
CONSTANTS
    Events,     \* things that are notified
    Hooks       \* webhooks

VARIABLES
    hook,       \* webhook -> is it there, is it on, what does it subscribe to
    published,  \* events published
    notice,     \* <<event, webhook>> -> where the notification stands
    received    \* notifications the endpoint has had at least once

vars == <<hook, published, notice, received>>

Hook == [present : {"no", "yes", "deleted"}, active : BOOLEAN, events : SUBSET Events]

Subscribed(h, e) == hook[h].present = "yes" /\ hook[h].active /\ e \in hook[h].events

Init ==
    /\ hook = [h \in Hooks |-> [present |-> "no", active |-> FALSE, events |-> {}]]
    /\ published = {}
    /\ notice = [n \in Events \X Hooks |-> "none"]
    /\ received = {}

\* The owner creates, changes, pauses or deletes webhook h; deleting it
\* withdraws what was owed to it.
Configure(h) ==
    /\ hook[h].present # "deleted"
    /\ \E c \in Hook :
          /\ hook' = [hook EXCEPT ![h] = c]
          /\ c.present # "no"
          /\ notice' = [n \in Events \X Hooks |->
                IF n[2] = h /\ c.present = "deleted" THEN "withdrawn" ELSE notice[n]]
    /\ UNCHANGED <<published, received>>

Publish(e) ==
    /\ e \notin published
    /\ published' = published \cup {e}
    /\ notice' = [n \in Events \X Hooks |->
          IF n[1] = e /\ Subscribed(n[2], e) THEN "owed" ELSE notice[n]]
    /\ UNCHANGED <<hook, received>>

\* A notification of the owner's own making, to one webhook.
Probe(n) ==
    /\ n[1] \notin published
    /\ hook[n[2]].present = "yes"
    /\ published' = published \cup {n[1]}
    /\ notice' = [notice EXCEPT ![n] = "owed"]
    /\ UNCHANGED <<hook, received>>

\* The endpoint may hear more than once, and late.
Receive(n) ==
    /\ notice[n] # "none"
    /\ received' = received \cup {n}
    /\ UNCHANGED <<hook, published, notice>>

Settle(n) ==
    /\ notice[n] = "owed"
    /\ \/ n \in received /\ notice' = [notice EXCEPT ![n] = "done"]
       \/ notice' = [notice EXCEPT ![n] = "failed"]
    /\ UNCHANGED <<hook, published, received>>

Renew(n) ==
    /\ notice[n] = "failed"
    /\ notice' = [notice EXCEPT ![n] = "owed"]
    /\ UNCHANGED <<hook, published, received>>

\* The content is removed: what is not done yet can no longer be done.
Expire(N) ==
    /\ notice' = [n \in Events \X Hooks |->
          IF n \in N /\ notice[n] \in {"owed", "failed"} THEN "expired" ELSE notice[n]]
    /\ UNCHANGED <<hook, received>>

ExpireAndSuppress ==
    /\ \E N \in SUBSET (Events \X Hooks) : Expire(N)
    /\ \E E \in SUBSET (Events \ published) : published' = published \cup E

Next ==
    \/ \E h \in Hooks : Configure(h)
    \/ \E e \in Events : Publish(e)
    \/ \E n \in Events \X Hooks : Probe(n) \/ Receive(n) \/ Settle(n) \/ Renew(n)
    \/ ExpireAndSuppress

\* Settling is prompt only while the webhook is switched on.
SettleWhileOn(n) == hook[n[2]].active /\ Settle(n)

Spec ==
    Init /\ [][Next]_vars /\ \A n \in Events \X Hooks : WF_vars(SettleWhileOn(n))
=============================================================================
