------------------------------ MODULE Billing ------------------------------
(***************************************************************************)
(* Subscriptions of one account (apps/billing): checkout and cancellation, *)
(* the subscriptions Stripe keeps, its webhooks, the plan and quotas they  *)
(* leave on the account, the repricing command, and the requests that save *)
(* the whole User row.                                                     *)
(*                                                                         *)
(* Stripe delivers every event at least once and in any order.  dj-stripe  *)
(* drops an event it has processed, fetches the subscription as it is now  *)
(* and runs our receiver in the transaction that records the event, so the *)
(* writes of one webhook commit together.                                  *)
(***************************************************************************)
EXTENDS Naturals

CONSTANTS
    Subs,      \* bound: subscriptions the account takes out
    Paid,      \* the billable plans of PLAN_CONFIG
    Webhooks,  \* bound: webhooks processed at once
    Requests,  \* bound: requests that save the User row in flight at once
    MaxPrices  \* bound: prices created for a plan

\* No billable plan of PLAN_CONFIG has a name the model gives to something else.
ASSUME BillingAssumption ==
    /\ Paid \cap {"free", "archived", "keep"} = {}
    /\ MaxPrices \in Nat \ {0}

VARIABLES
    status,    \* Stripe: status of each subscription
    price,     \* Stripe: the price it was checked out with, <<plan, n>>
    ending,    \* Stripe: subscriptions with cancel_at_period_end
    prices,    \* Stripe: number of prices made for each plan
    keyed,     \* Stripe: plans whose newest price carries the lookup key
    mirror,    \* dj-stripe: subscriptions that were live when last synchronised
    pending,   \* events Stripe still has to deliver
    hook,      \* progress of each webhook
    event,     \* its event, the subscription it fetched, the plan it decided
    plan,      \* User.plan
    quotas,    \* the plan whose limits UserStats carries
    saver,     \* plan column read by each request that will save the User row
    overlap,   \* history: two webhooks were processed at once
    restored,  \* history: a request put back a plan that had changed since
    downgraded \* history: the end of one subscription took the account to free while
               \* another was active, and nothing has given it a plan since

stripe == <<status, price, ending, prices, keyed>>
account == <<plan, quotas>>
history == <<overlap, restored, downgraded>>
vars == <<stripe, mirror, pending, hook, event, account, saver, history>>

\* The statuses that give the plan, those the views take for a subscription, and those that
\* are not the end: unpaid stands for paused and incomplete too.
Granting == {"active", "trialing"}
Live == Granting \cup {"past_due"}
Ongoing == Live \cup {"unpaid"}
Statuses == {"none", "checkout", "canceled"} \cup Ongoing
Plans == Paid \cup {"free"}
Prices == Paid \X (1 .. MaxPrices)
Events == {"change", "deleted"} \X Subs
Keep == "keep"
Nothing == [of |-> <<"none", "none">>, seen |-> "none", plan |-> Keep]
NoPrice == <<"none", 0>>
NoSave == "none"

\* UserStats carries the limits of one plan: PLAN_CONFIG has no two alike.
TypeOK ==
    /\ status \in [Subs -> Statuses]
    /\ price \in [Subs -> Prices \cup {NoPrice}]
    /\ ending \in SUBSET {s \in Subs : status[s] \in Ongoing}
    /\ prices \in [Paid -> 1 .. MaxPrices]
    /\ keyed \in SUBSET Paid
    /\ mirror \in SUBSET Subs
    /\ pending \in SUBSET Events
    /\ hook \in [Webhooks -> {"idle", "decide", "commit"}]
    /\ event \in [Webhooks -> [of : Events, seen : Statuses, plan : Plans \cup {Keep}] \cup {Nothing}]
    /\ plan \in Plans /\ quotas \in Plans
    /\ saver \in [Requests -> Plans \cup {NoSave}]
    /\ {overlap, restored, downgraded} \subseteq BOOLEAN

Init ==
    /\ status = [s \in Subs |-> "none"]
    /\ price = [s \in Subs |-> NoPrice]
    /\ ending = {}
    /\ prices = [p \in Paid |-> 1]
    /\ keyed = Paid
    /\ mirror = {}
    /\ pending = {}
    /\ hook = [w \in Webhooks |-> "idle"]
    /\ event = [w \in Webhooks |-> Nothing]
    /\ plan = "free" /\ quotas = "free"
    /\ saver = [q \in Requests |-> NoSave]
    /\ overlap = FALSE /\ restored = FALSE /\ downgraded = FALSE

-----------------------------------------------------------------------------
(* Stripe, and the requests that act on it. *)

\* _get_active_subscription, over the mirrored rows.
ActiveSubs == mirror

\* SubscriptionView.get.
HasSubscription == ActiveSubs # {}

\* lookup_key of a price: repricing moves the key to the newest one.
LookupKey(x) == IF x[1] \in keyed /\ x[2] = prices[x[1]] THEN x[1] ELSE "archived"

\* CheckoutView.post: the current price of the plan, found by its lookup key.
Checkout(s, p) ==
    /\ status[s] = "none"
    /\ p \in keyed
    /\ status' = [status EXCEPT ![s] = "checkout"]
    /\ price' = [price EXCEPT ![s] = <<p, prices[p]>>]
    /\ UNCHANGED <<ending, prices, keyed, mirror, pending, hook, event, account, saver, history>>

Notify(kind, s) == pending' = pending \cup {<<kind, s>>}

Becomes(s, from, to) ==
    /\ status[s] \in from
    /\ status' = [status EXCEPT ![s] = to]
    /\ Notify("change", s)
    /\ UNCHANGED <<price, ending, prices, keyed, mirror, hook, event, account, saver, history>>

\* Paid for, on trial, or its first payment still to be confirmed.
PayCheckout(s) == \E to \in {"active", "trialing", "unpaid"} : Becomes(s, {"checkout"}, to)

\* A payment is late, and Stripe leaves off trying or pauses the subscription.
PaymentFails(s) ==
    \/ Becomes(s, Granting, "past_due")
    \/ Becomes(s, Live, "unpaid")

PaymentRecovers(s) == Becomes(s, Ongoing \ {"active"}, "active")

\* The period ends on a cancelled subscription, or Stripe gives up on an unpaid one.
EndSubscription(s) ==
    /\ status[s] \in Ongoing
    /\ status[s] \in Granting => s \in ending
    /\ status' = [status EXCEPT ![s] = "canceled"]
    /\ ending' = ending \ {s}
    /\ Notify("deleted", s)
    /\ UNCHANGED <<price, prices, keyed, mirror, hook, event, account, saver, history>>

\* CancelSubscriptionView.post: the first mirrored subscription that is live; Stripe
\* refuses if it is over.
CancelAtPeriodEnd(s) ==
    /\ s \in ActiveSubs \ ending
    /\ status[s] \in Ongoing
    /\ ending' = ending \cup {s}
    /\ Notify("change", s)
    /\ UNCHANGED <<status, price, prices, keyed, mirror, hook, event, account, saver, history>>

\* setup_stripe_products, the amount of a plan having changed: the key of the old price is
\* archived ...
ArchivePrice(p) ==
    /\ p \in keyed
    /\ prices[p] < MaxPrices
    /\ keyed' = keyed \ {p}
    /\ UNCHANGED <<status, price, ending, prices, mirror, pending, hook, event, account, saver, history>>

\* ... and a price created with it, by this run or by the next if this one is killed.
CreatePrice(p) ==
    /\ p \notin keyed
    /\ prices' = [prices EXCEPT ![p] = @ + 1]
    /\ keyed' = keyed \cup {p}
    /\ UNCHANGED <<status, price, ending, mirror, pending, hook, event, account, saver, history>>

-----------------------------------------------------------------------------
(* Webhooks. *)

\* dj-stripe retrieves the subscription of the event and synchronises its row, which
\* the transaction then holds.
Fetch(w, e) ==
    /\ hook[w] = "idle"
    /\ e \in pending
    /\ hook' = [hook EXCEPT ![w] = "decide"]
    /\ event' = [event EXCEPT ![w] = [of |-> e, seen |-> status[e[2]], plan |-> Keep]]
    /\ pending' = pending \ {e}
    /\ overlap' = (overlap \/ \E v \in Webhooks \ {w} : hook[v] # "idle")
    /\ UNCHANGED <<stripe, mirror, account, saver, restored, downgraded>>

\* Fault: the status is not looked at.
PlanOfAnyStatus(w) ==
    LET key == LookupKey(price[event[w].of[2]]) IN IF key \in Paid THEN key ELSE Keep

\* Fault: whatever is not active is downgraded at once.
PlanOrFree(w) ==
    LET key == LookupKey(price[event[w].of[2]])
    IN IF event[w].seen \notin Granting THEN "free" ELSE IF key \in Paid THEN key ELSE Keep

\* on_subscription_change: the plan of an active subscription, by its lookup key.  One in
\* arrears or paused, or a key no plan has, changes nothing.
PlanOfChange(w) ==
    LET s == event[w].of[2]
        key == LookupKey(price[s])
    IN IF event[w].seen \in Granting /\ key \in Paid THEN key ELSE Keep

\* on_subscription_deleted: back to free, unless the account is free already.
PlanOfDeletion(w) == IF plan = "free" THEN Keep ELSE "free"

Decide(w) ==
    /\ hook[w] = "decide"
    /\ hook' = [hook EXCEPT ![w] = "commit"]
    /\ event' = [event EXCEPT ![w].plan =
                   IF event[w].of[1] = "change" THEN PlanOfChange(w) ELSE PlanOfDeletion(w)]
    /\ UNCHANGED <<stripe, mirror, pending, account, saver, history>>

Finish(w, from) ==
    /\ hook[w] \in from
    /\ hook' = [hook EXCEPT ![w] = "idle"]
    /\ event' = [event EXCEPT ![w] = Nothing]

\* Its row commits with the plan.
Synchronise(w) ==
    LET s == event[w].of[2]
    IN mirror' = IF event[w].seen \in Live THEN mirror \cup {s} ELSE mirror \ {s}

\* Fault: the limits are left as they are.
ApplyPlanOnly(w) ==
    /\ Finish(w, {"commit"})
    /\ Synchronise(w)
    /\ plan' = IF event[w].plan = Keep THEN plan ELSE event[w].plan
    /\ UNCHANGED <<stripe, pending, quotas, saver, history>>

\* _apply_plan_to_user: plan and limits.
ApplyPlan(w) ==
    /\ Finish(w, {"commit"})
    /\ Synchronise(w)
    /\ IF event[w].plan = Keep THEN UNCHANGED <<account, downgraded>>
       ELSE /\ plan' = event[w].plan /\ quotas' = event[w].plan
            /\ downgraded' = (event[w].plan = "free" /\ \E s \in Subs : status[s] \in Granting)
    /\ UNCHANGED <<stripe, pending, saver, overlap, restored>>

\* The worker is killed or Stripe gives up waiting: rolled back, and delivered again.
LoseWebhook(w) ==
    /\ Finish(w, {"decide", "commit"})
    /\ pending' = pending \cup {event[w].of}
    /\ UNCHANGED <<stripe, mirror, account, saver, history>>

-----------------------------------------------------------------------------
(* PATCH /me, a change of password, PATCH of the user by an administrator: the row is    *)
(* read with the request and saved whole, the plan it carried included.                  *)

LoadUser(q) ==
    /\ saver[q] = NoSave
    /\ saver' = [saver EXCEPT ![q] = plan]
    /\ UNCHANGED <<stripe, mirror, pending, hook, event, account, history>>

SaveUser(q) ==
    /\ saver[q] # NoSave
    /\ saver' = [saver EXCEPT ![q] = NoSave]
    /\ plan' = saver[q]
    /\ restored' = (restored \/ saver[q] # plan)
    /\ UNCHANGED <<stripe, mirror, pending, hook, event, quotas, overlap, downgraded>>

-----------------------------------------------------------------------------
Subscriber(s) ==
    \/ \E p \in Paid : Checkout(s, p)
    \/ PayCheckout(s) \/ PaymentFails(s) \/ PaymentRecovers(s) \/ EndSubscription(s)
    \/ CancelAtPeriodEnd(s)

Process(w) == (\E e \in Events : Fetch(w, e)) \/ Decide(w) \/ ApplyPlan(w)

Next ==
    \/ \E s \in Subs : Subscriber(s)
    \/ \E p \in Paid : ArchivePrice(p) \/ CreatePrice(p)
    \/ \E w \in Webhooks : Process(w) \/ LoseWebhook(w)
    \/ \E q \in Requests : LoadUser(q) \/ SaveUser(q)

Spec == Init /\ [][Next]_vars

-----------------------------------------------------------------------------
(* Properties. *)

\* _apply_plan_to_user, "met a jour le plan + ajuste les quotas associes": however webhooks
\* interleave, repeat and fail, the limits are those of the plan, until a request that read
\* the account earlier saves the plan it had.
QuotasMatchPlan ==
    /\ TypeOK
    /\ ~restored => quotas = plan

Delivered == pending = {} /\ \A w \in Webhooks : hook[w] = "idle"

\* Nothing but webhooks processed one at a time touched the plan.
Undisturbed == ~overlap /\ ~restored

\* Once Stripe has delivered everything, in whatever order and however often: a paid plan is
\* that of a subscription that goes on, GET /me/subscription tells whether there is one, and
\* an account left free has no active one at a price still on sale, unless the end of
\* another took its plan away (on_subscription_deleted).
PlanFollowsStripe ==
    Delivered /\ Undisturbed =>
        /\ plan # "free" => \E s \in Subs : status[s] \in Ongoing /\ price[s][1] = plan
        /\ HasSubscription = (\E s \in Subs : status[s] \in Live)
        /\ plan = "free" /\ ~downgraded =>
              \A s \in Subs : status[s] \in Granting => LookupKey(price[s]) \notin Paid

\* on_subscription_change, "on garde le plan actuel jusqu'a expiration": a paid plan is
\* only taken away by the end of a subscription, or by a request that saves an old row.
PaidUntilCanceled ==
    [][plan # "free" /\ plan' = "free" =>
         \/ \E s \in Subs : status[s] = "canceled"
         \/ \E q \in Requests : saver[q] = "free" /\ saver'[q] = NoSave]_vars
=============================================================================
