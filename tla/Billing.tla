------------------------------- MODULE Billing -------------------------------
(***************************************************************************)
(* A team's plan and Stripe (billing_service.go, billing/stripe.go, the    *)
(* billing statements of team_repo.go).  Stripe reports each change of a   *)
(* subscription in an event that carries the second it was made in and a   *)
(* unique name; it delivers the events in any order and as often as it     *)
(* likes.  Names are numbers: all the code does with them is compare.      *)
(***************************************************************************)
EXTENDS Integers, FiniteSets

CONSTANTS
    EventIDs,       \* names of Stripe events: a set of naturals
    StripeSubs,     \* subscriptions of the team, one per completed checkout
    Customers,      \* Stripe customers
    Plans,          \* paid plans
    Checkouts,      \* Checkout requests under way
    MaxSecond,      \* bound: seconds that pass at Stripe
    NONE            \* SQL NULL

VARIABLES
    billing,        \* the billing columns of the team's row
    seen,           \* stripe_events: IDs recorded
    emitted,        \* what Stripe has emitted: event ID -> event or NONE
    order,          \* Stripe's own order: event ID -> position, 0 if not emitted
    second,         \* the clock at Stripe
    customers,      \* customers Stripe has made for the team
    checkout,       \* request -> where it is, with which customer
    billingTeam     \* the team's row in teams, which has the columns

billingVars == <<billing, seen, emitted, order, second, customers, checkout, billingTeam>>

Types == {"checkout.session.completed", "customer.subscription.updated",
          "customer.subscription.deleted", "invoice.payment_failed"}

\* active: the status of an updated subscription; no other type reads it.
StripeEvent == [type : Types, created : 1..MaxSecond, sub : StripeSubs, plan : Plans,
                active : BOOLEAN]

ASSUME BillingAssumption ==
    /\ EventIDs \subseteq Nat \ {0} /\ MaxSecond \in Nat \ {0}
    /\ NONE \notin StripeSubs \cup Customers \cup StripeEvent

BillingRow == [customer : Customers \cup {NONE}, sub : StripeSubs \cup {NONE},
               plan : Plans \cup {"free"}, status : {"inactive", "active", "canceled", "past_due"},
               created : 0..MaxSecond, id : EventIDs \cup {0}]

Emitted == {x \in EventIDs : emitted[x] # NONE}

BillingTypeOK ==
    /\ billing \in BillingRow
    /\ seen \in SUBSET EventIDs
    /\ emitted \in [EventIDs -> StripeEvent \cup {NONE}]
    /\ order \in [EventIDs -> 0..Cardinality(Emitted)]
    /\ second \in 1..MaxSecond
    /\ customers \in SUBSET Customers
    /\ checkout \in [Checkouts -> [pc : {"new", "read", "made", "session", "done"}, customer : Customers \cup {NONE}]]
    /\ billingTeam \in {"present", "deleted"}

BillingInit ==
    /\ billing = [customer |-> NONE, sub |-> NONE, plan |-> "free", status |-> "inactive",
                  created |-> 0, id |-> 0]
    /\ seen = {}
    /\ emitted = [x \in EventIDs |-> NONE]
    /\ order = [x \in EventIDs |-> 0]
    /\ second = 1
    /\ customers = {}
    /\ checkout = [k \in Checkouts |-> [pc |-> "new", customer |-> NONE]]
    /\ billingTeam = "present"

-----------------------------------------------------------------------------
(* Checkout                                                                *)

CheckoutRead(k) ==
    /\ checkout[k].pc = "new"
    /\ checkout' = [checkout EXCEPT ![k] =
          IF billingTeam = "deleted" THEN [pc |-> "done", customer |-> NONE]
          ELSE [pc |-> IF billing.customer = NONE THEN "read" ELSE "session",
                customer |-> billing.customer]]
    /\ UNCHANGED <<billing, seen, emitted, order, second, customers, billingTeam>>

\* Mutant: every call makes a customer.
CreateCustomer_NoKey(c) == c \notin customers

\* The idempotency key names the team: a second call gets the first's customer.
\* Stripe keeps a key for a day at least; a call is taken to be over by then.
CreateCustomer(c) == IF customers = {} THEN c \in Customers ELSE c \in customers

CheckoutCreate(k) ==
    /\ checkout[k].pc = "read"
    /\ \E c \in Customers :
          /\ CreateCustomer(c)
          /\ customers' = customers \cup {c}
          /\ \/ checkout' = [checkout EXCEPT ![k] = [pc |-> "made", customer |-> c]]
             \/ checkout' = [checkout EXCEPT ![k] = [pc |-> "done", customer |-> NONE]] \* reply lost
    /\ UNCHANGED <<billing, seen, emitted, order, second, billingTeam>>

SetStripeCustomerID(k) ==
    /\ checkout[k].pc = "made"
    /\ billing' = IF billingTeam = "present" THEN [billing EXCEPT !.customer = checkout[k].customer]
                  ELSE billing
    /\ checkout' = [checkout EXCEPT ![k].pc = "session"]
    /\ UNCHANGED <<seen, emitted, order, second, customers, billingTeam>>

CreateCheckoutSession(k) ==
    /\ checkout[k].pc = "session"
    /\ checkout' = [checkout EXCEPT ![k].pc = "done"]
    /\ UNCHANGED <<billing, seen, emitted, order, second, customers, billingTeam>>

-----------------------------------------------------------------------------
(* Stripe.  There is a subscription once a session was completed; the      *)
(* customer of its events is the one that was made.                        *)

Emit(x) ==
    /\ emitted[x] = NONE
    /\ \E k \in Checkouts : checkout[k].pc = "done" /\ checkout[k].customer # NONE
    /\ \E ev \in StripeEvent :
          /\ ev.created = second
          /\ ev.type # "customer.subscription.updated" => ev.active
          /\ emitted' = [emitted EXCEPT ![x] = ev]
    /\ order' = [order EXCEPT ![x] = 1 + Cardinality(Emitted)]
    /\ UNCHANGED <<billing, seen, second, customers, checkout, billingTeam>>

SecondPasses ==
    /\ second < MaxSecond
    /\ second' = second + 1
    /\ UNCHANGED <<billing, seen, emitted, order, customers, checkout, billingTeam>>

-----------------------------------------------------------------------------
(* HandleWebhook: the columns an event asks for, and the statement.  An    *)
(* unknown price is the free plan, like an inactive subscription.          *)

PlanOf(ev) ==
    IF ev.type \in {"checkout.session.completed", "customer.subscription.updated"} /\ ev.active
    THEN ev.plan ELSE "free"

StatusOf(ev) ==
    CASE ev.type = "invoice.payment_failed" -> "past_due"
      [] ev.type = "customer.subscription.deleted" -> "canceled"
      [] OTHER -> IF ev.active THEN "active" ELSE "past_due"

SubscriptionOf(ev) == IF ev.type = "customer.subscription.deleted" THEN NONE ELSE ev.sub

\* Mutant: within a second the last to arrive wins.
Newer_Second(x, ev) == billing.created <= ev.created

Newer(x, ev) ==
    billing.created < ev.created \/ (billing.created = ev.created /\ billing.id <= x)

ApplyBillingEvent(x, ev) ==
    /\ seen' = seen \cup {x}
    /\ billing' = IF x \notin seen /\ Newer(x, ev)
                  THEN [customer |-> CHOOSE c \in customers : TRUE, sub |-> SubscriptionOf(ev),
                        plan |-> PlanOf(ev), status |-> StatusOf(ev),
                        created |-> ev.created, id |-> x]
                  ELSE billing

\* resolveTeam: subscriptions and sessions name the team in their metadata; an
\* invoice is resolved by its customer or its subscription.
Resolves(ev) ==
    \/ ev.type # "invoice.payment_failed"
    \/ billing.customer \in customers
    \/ billing.sub = ev.sub

\* An event that resolves to no team is acknowledged and dropped.  So is one of a
\* team that is gone, or it is recorded and the update finds no row, if the team
\* went in between.
HandleWebhook(x) ==
    /\ emitted[x] # NONE
    /\ \/ /\ billingTeam = "present"
          /\ IF Resolves(emitted[x]) THEN ApplyBillingEvent(x, emitted[x]) ELSE UNCHANGED <<billing, seen>>
       \/ /\ billingTeam = "deleted"
          /\ seen' \in {seen, seen \cup {x}} /\ UNCHANGED billing
    /\ UNCHANGED <<emitted, order, second, customers, checkout, billingTeam>>

\* DELETE FROM teams: the columns go, what Stripe and stripe_events hold stays.
DeleteTeamBilling ==
    /\ billingTeam = "present"
    /\ billingTeam' = "deleted"
    /\ UNCHANGED <<billing, seen, emitted, order, second, customers, checkout>>

BillingNext ==
    \/ \E k \in Checkouts :
          CheckoutRead(k) \/ CheckoutCreate(k) \/ SetStripeCustomerID(k) \/ CreateCheckoutSession(k)
    \/ \E x \in EventIDs : Emit(x) \/ HandleWebhook(x)
    \/ SecondPasses \/ DeleteTeamBilling

BillingSpec == BillingInit /\ [][BillingNext]_billingVars

-----------------------------------------------------------------------------
(* The team's plan is the one the newest recorded event asks for, in       *)
(* whatever order, and however often, the events arrived: newest by        *)
(* second, and by name within a second (ApplyBillingEvent's guard).        *)
NewestEventWins ==
    billingTeam = "present" /\ seen # {} =>
        \E x \in seen :
            /\ \A y \in seen :
                  \/ emitted[y].created < emitted[x].created
                  \/ emitted[y].created = emitted[x].created /\ y <= x
            /\ billing.plan = PlanOf(emitted[x]) /\ billing.sub = SubscriptionOf(emitted[x])
            /\ billing.status = StatusOf(emitted[x])

\* Two Checkout calls at once do not leave the team with two customers, and the
\* row never names a customer Stripe has not made.
OneCustomer ==
    /\ Cardinality(customers) <= 1
    /\ billing.customer \in customers \cup {NONE}

\* What the documentation says: an event never changes the plan that a later
\* event of Stripe has set.
StaleNeverOverwrites ==
    [][billing.id # 0 /\ billing'.plan # billing.plan => order[billing.id] < order[billing'.id]]_billingVars
=============================================================================
