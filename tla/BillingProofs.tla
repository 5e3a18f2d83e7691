---------------------------- MODULE BillingProofs ----------------------------
(***************************************************************************)
(* The properties of Billing, for any number of subscriptions, plans,      *)
(* prices, webhooks at once and requests that save the User row.  An event *)
(* tells what has happened to its subscription for good: a deletion is     *)
(* only announced of a canceled one, which stays so.                       *)
(***************************************************************************)
EXTENDS Billing, TLAPS

Begun == Statuses \ {"none", "checkout"}

Happened(e) == /\ status[e[2]] \in Begun
               /\ e[1] = "deleted" => status[e[2]] = "canceled"

\* A webhook under way is about something that happened, and takes the plan away only for the
\* end of a subscription.
Knows(w) ==
    hook[w] # "idle" =>
        /\ event[w] \in [of : Events, seen : Begun, plan : Plans \cup {Keep}]
        /\ Happened(event[w].of)
        /\ event[w].plan = "free" => event[w].of[1] = "deleted"

IInv ==
    /\ TypeOK
    /\ \A e \in pending : Happened(e)
    /\ \A w \in Webhooks : Knows(w)
    /\ ~restored => quotas = plan
    /\ \A p \in Paid \ keyed : prices[p] < MaxPrices

-----------------------------------------------------------------------------
\* The initial state: a free account and no subscription.
LEMMA InitHolds == Init => IInv
<1> SUFFICES ASSUME Init PROVE IInv
  OBVIOUS
<1>1. prices \in [Paid -> 1 .. MaxPrices]
  BY BillingAssumption DEF Init
<1>2. ending \in SUBSET {s \in Subs : status[s] \in Ongoing}
  BY DEF Init
<1>3. event \in [Webhooks -> [of : Events, seen : Statuses, plan : Plans \cup {Keep}] \cup {Nothing}]
  BY DEF Init
<1>4. TypeOK
  BY <1>1, <1>2, <1>3 DEF Init, TypeOK, Plans, Statuses
<1> QED
  BY <1>4 DEF Init, IInv, Knows

\* What Stripe tells of a subscription stays true as its status moves on.
LEMMA StatusMovesOn ==
    ASSUME IInv, NEW s \in Subs, NEW to \in Begun,
           status[s] # "canceled", status' = [status EXCEPT ![s] = to],
           UNCHANGED <<hook, event>>
    PROVE  /\ \A e \in Events : Happened(e) => Happened(e)'
           /\ \A w \in Webhooks : Knows(w)'
<1>1. status \in [Subs -> Statuses]
  BY DEF IInv, TypeOK
<1>2. \A e \in Events : Happened(e) => Happened(e)'
  BY <1>1 DEF Happened, Events, Begun
<1>3. ASSUME NEW w \in Webhooks PROVE Knows(w)'
  <2>1. Knows(w)
    BY DEF IInv
  <2>2. hook[w] # "idle" => event[w].of \in Events
    BY <2>1 DEF Knows
  <2> QED
    BY <1>2, <2>1, <2>2 DEF Knows
<1> QED
  BY <1>2, <1>3

\* CheckoutView: a subscription nobody has heard of yet.
LEMMA CheckoutKeeps ==
    ASSUME IInv, NEW s \in Subs, NEW p \in Paid, Checkout(s, p)
    PROVE  IInv'
<1> USE DEF Checkout, history
<1>1. TypeOK
  BY DEF IInv
<1>2. TypeOK'
  <2>1. status' \in [Subs -> Statuses]
    BY <1>1 DEF TypeOK, Statuses
  <2>2. price' \in [Subs -> Prices \cup {NoPrice}]
    BY <1>1 DEF TypeOK, Prices
  <2>3. ending' \in SUBSET {x \in Subs : status'[x] \in Ongoing}
    BY <1>1 DEF TypeOK, Ongoing, Live, Granting
  <2> QED
    BY <1>1, <2>1, <2>2, <2>3 DEF TypeOK, account
<1>3. \A e \in Events : Happened(e) => Happened(e)'
  BY <1>1 DEF TypeOK, Happened, Events, Begun
<1>4. ASSUME NEW w \in Webhooks PROVE Knows(w)'
  <2>1. Knows(w)
    BY DEF IInv
  <2>2. hook[w] # "idle" => event[w].of \in Events
    BY <2>1 DEF Knows
  <2> QED
    BY <1>3, <2>1, <2>2 DEF Knows
<1>5. \A e \in pending' : Happened(e)'
  BY <1>1, <1>3 DEF IInv, TypeOK
<1> QED
  BY <1>2, <1>4, <1>5 DEF IInv, account

\* A payment, and the end of a subscription.
LEMMA SubscriptionMoves ==
    ASSUME IInv, NEW s \in Subs,
           PayCheckout(s) \/ PaymentFails(s) \/ PaymentRecovers(s) \/ EndSubscription(s)
    PROVE  IInv'
<1>1. TypeOK
  BY DEF IInv
<1>2. ASSUME NEW from \in SUBSET ({"checkout"} \cup Ongoing), NEW to \in Ongoing,
             Becomes(s, from, to)
      PROVE  IInv'
  <2> USE <1>2 DEF Becomes, Notify, history
  <2>1. to \in Begun /\ status[s] # "canceled"
    BY DEF Ongoing, Live, Granting, Begun, Statuses
  <2>2. /\ \A e \in Events : Happened(e) => Happened(e)'
        /\ \A w \in Webhooks : Knows(w)'
    BY <2>1, StatusMovesOn
  <2>3. TypeOK'
    <3>1. status' \in [Subs -> Statuses]
      BY <1>1, <2>1 DEF TypeOK, Begun
    <3>2. ending' \in SUBSET {x \in Subs : status'[x] \in Ongoing}
      BY <1>1 DEF TypeOK
    <3>3. pending' \in SUBSET Events
      BY <1>1 DEF TypeOK, Events
    <3> QED
      BY <1>1, <3>1, <3>2, <3>3 DEF TypeOK, account
  <2>4. Happened(<<"change", s>>)'
    BY <1>1, <2>1 DEF TypeOK, Happened
  <2>5. \A e \in pending' : Happened(e)'
    BY <1>1, <2>2, <2>4 DEF IInv, TypeOK
  <2> QED
    BY <2>2, <2>3, <2>5 DEF IInv, account
<1>3. CASE EndSubscription(s)
  <2> USE <1>3 DEF EndSubscription, Notify, history
  <2>1. "canceled" \in Begun /\ status[s] # "canceled"
    BY DEF Begun, Statuses, Ongoing, Live, Granting
  <2>2. /\ \A e \in Events : Happened(e) => Happened(e)'
        /\ \A w \in Webhooks : Knows(w)'
    BY <2>1, StatusMovesOn
  <2>3. TypeOK'
    <3>1. status' \in [Subs -> Statuses]
      BY <1>1, <2>1 DEF TypeOK, Begun
    <3>2. ending' \in SUBSET {x \in Subs : status'[x] \in Ongoing}
      BY <1>1 DEF TypeOK
    <3>3. pending' \in SUBSET Events
      BY <1>1 DEF TypeOK, Events
    <3> QED
      BY <1>1, <3>1, <3>2, <3>3 DEF TypeOK, account
  <2>4. Happened(<<"deleted", s>>)'
    BY <1>1, <2>1 DEF TypeOK, Happened
  <2>5. \A e \in pending' : Happened(e)'
    BY <1>1, <2>2, <2>4 DEF IInv, TypeOK
  <2> QED
    BY <2>2, <2>3, <2>5 DEF IInv, account
<1> QED
  <2>1. CASE PayCheckout(s)
    BY <1>2, <2>1 DEF PayCheckout, Ongoing, Live, Granting
  <2>2. CASE PaymentFails(s)
    BY <1>2, <2>2 DEF PaymentFails, Ongoing, Live, Granting
  <2>3. CASE PaymentRecovers(s)
    BY <1>2, <2>3 DEF PaymentRecovers, Ongoing, Live, Granting
  <2> QED
    BY <1>3, <2>1, <2>2, <2>3

\* A cancellation at the end of the period, and the two steps of a repricing.
LEMMA StripeSettings ==
    ASSUME IInv,
           \/ \E s \in Subs : CancelAtPeriodEnd(s)
           \/ \E p \in Paid : ArchivePrice(p) \/ CreatePrice(p)
    PROVE  IInv'
<1>1. TypeOK
  BY DEF IInv
<1>2. ASSUME NEW s \in Subs, CancelAtPeriodEnd(s) PROVE IInv'
  <2> USE <1>2 DEF CancelAtPeriodEnd, Notify, history
  <2>1. TypeOK'
    <3>1. ending' \in SUBSET {x \in Subs : status'[x] \in Ongoing} /\ pending' \in SUBSET Events
      BY <1>1 DEF TypeOK, Events
    <3> QED
      BY <1>1, <3>1 DEF TypeOK, account
  <2>2. Happened(<<"change", s>>)
    BY DEF Happened, Ongoing, Live, Granting, Begun, Statuses
  <2>3. \A e \in pending' : Happened(e)'
    BY <2>2 DEF IInv, Happened
  <2>4. \A w \in Webhooks : Knows(w)'
    BY DEF IInv, Knows, Happened
  <2> QED
    BY <2>1, <2>3, <2>4 DEF IInv, account
<1>3. ASSUME NEW p \in Paid, ArchivePrice(p) \/ CreatePrice(p) PROVE IInv'
  <2>1. ASSUME ArchivePrice(p)
        PROVE  /\ prices' \in [Paid -> 1 .. MaxPrices] /\ keyed' \in SUBSET Paid
               /\ \A r \in Paid \ keyed' : prices'[r] < MaxPrices
    BY <1>1, <2>1 DEF IInv, TypeOK, ArchivePrice
  <2>2. ASSUME CreatePrice(p)
        PROVE  /\ prices' \in [Paid -> 1 .. MaxPrices] /\ keyed' \in SUBSET Paid
               /\ \A r \in Paid \ keyed' : prices'[r] < MaxPrices
    <3>1. prices[p] \in 1 .. MaxPrices /\ prices[p] < MaxPrices
      BY <1>1, <2>2 DEF IInv, TypeOK, CreatePrice
    <3>2. prices[p] + 1 \in 1 .. MaxPrices
      BY <3>1, BillingAssumption
    <3> QED
      BY <1>1, <2>2, <3>2 DEF IInv, TypeOK, CreatePrice
  <2>3. /\ prices' \in [Paid -> 1 .. MaxPrices] /\ keyed' \in SUBSET Paid
        /\ \A r \in Paid \ keyed' : prices'[r] < MaxPrices
    BY <1>3, <2>1, <2>2
  <2>4. UNCHANGED <<status, price, ending, mirror, pending, hook, event, plan, quotas, saver, history>>
    BY <1>3 DEF ArchivePrice, CreatePrice, account
  <2>5. TypeOK'
    BY <1>1, <2>3, <2>4 DEF TypeOK, history
  <2> QED
    BY <2>3, <2>4, <2>5 DEF IInv, Knows, Happened, history
<1> QED
  BY <1>2, <1>3

-----------------------------------------------------------------------------
\* A webhook is processed: fetched, decided, committed, or rolled back and kept for later.
LEMMA FetchKeeps ==
    ASSUME IInv, NEW w \in Webhooks, NEW e \in Events, Fetch(w, e)
    PROVE  IInv'
<1> USE DEF Fetch, stripe, account, history
<1>1. TypeOK
  BY DEF IInv
<1>2. Happened(e)
  BY DEF IInv
<1>3. status[e[2]] \in Begun /\ status[e[2]] \in Statuses
  BY <1>2 DEF Happened, Begun
<1>4. [of |-> e, seen |-> status[e[2]], plan |-> Keep]
        \in [of : Events, seen : Begun, plan : Plans \cup {Keep}]
  BY <1>3
<1>5. TypeOK'
  <2>1. hook' \in [Webhooks -> {"idle", "decide", "commit"}]
    BY <1>1 DEF TypeOK
  <2>2. event' \in [Webhooks -> [of : Events, seen : Statuses, plan : Plans \cup {Keep}] \cup {Nothing}]
    BY <1>1, <1>3 DEF TypeOK
  <2>3. pending' \in SUBSET Events /\ overlap' \in BOOLEAN
    BY <1>1 DEF TypeOK
  <2> QED
    BY <1>1, <2>1, <2>2, <2>3 DEF TypeOK
<1>6. ASSUME NEW v \in Webhooks PROVE Knows(v)'
  <2>1. CASE v = w
    <3>1. event'[v] = [of |-> e, seen |-> status[e[2]], plan |-> Keep]
      BY <1>1, <2>1 DEF TypeOK
    <3> QED
      BY <1>2, <1>4, <3>1 DEF Knows, Happened, Keep
  <2>2. CASE v # w
    <3>1. hook'[v] = hook[v] /\ event'[v] = event[v]
      BY <1>1, <2>2 DEF TypeOK
    <3> QED
      BY <3>1 DEF IInv, Knows, Happened
  <2> QED
    BY <2>1, <2>2
<1> QED
  BY <1>5, <1>6 DEF IInv, Happened

LEMMA DecideKeeps ==
    ASSUME IInv, NEW w \in Webhooks, Decide(w)
    PROVE  IInv'
<1> USE DEF Decide, stripe, account, history
<1>1. TypeOK
  BY DEF IInv
<1>2. /\ event[w] \in [of : Events, seen : Begun, plan : Plans \cup {Keep}]
      /\ Happened(event[w].of)
  BY DEF IInv, Knows
<1> DEFINE to == IF event[w].of[1] = "change" THEN PlanOfChange(w) ELSE PlanOfDeletion(w)
<1>3. PlanOfChange(w) \in Paid \cup {Keep} /\ PlanOfDeletion(w) \in {Keep, "free"}
  BY DEF PlanOfChange, PlanOfDeletion
<1>4. to \in Plans \cup {Keep}
  BY <1>3 DEF Plans
<1>5. to = "free" => event[w].of[1] = "deleted"
  <2>1. event[w].of[1] \in {"change", "deleted"}
    BY <1>2 DEF Events
  <2> QED
    BY <1>3, <2>1, BillingAssumption DEF Keep
<1> DEFINE now == [of |-> event[w].of, seen |-> event[w].seen, plan |-> to]
<1>6. event' = [event EXCEPT ![w] = now]
  <2>1. [event[w] EXCEPT !.plan = to] = now
    BY <1>2
  <2>2. event' = [event EXCEPT ![w] = [event[w] EXCEPT !.plan = to]]
    BY <1>1 DEF TypeOK
  <2> HIDE DEF to, now
  <2> QED
    BY <2>1, <2>2
<1>7. now \in [of : Events, seen : Begun, plan : Plans \cup {Keep}]
  <2> HIDE DEF to
  <2> QED
    BY <1>2, <1>4
<1>8. now.of = event[w].of /\ now.plan = to
  OBVIOUS
<1> HIDE DEF to, now
<1>9. TypeOK'
  <2>1. hook' \in [Webhooks -> {"idle", "decide", "commit"}]
    BY <1>1 DEF TypeOK
  <2>2. now \in [of : Events, seen : Statuses, plan : Plans \cup {Keep}]
    BY <1>7 DEF Begun
  <2>3. event' \in [Webhooks -> [of : Events, seen : Statuses, plan : Plans \cup {Keep}] \cup {Nothing}]
    BY <1>1, <1>6, <2>2 DEF TypeOK
  <2> QED
    BY <1>1, <2>1, <2>3 DEF TypeOK
<1>10. ASSUME NEW v \in Webhooks PROVE Knows(v)'
  <2>1. CASE v = w
    <3>1. event'[v] = now
      BY <1>1, <1>6, <2>1 DEF TypeOK
    <3> QED
      BY <1>2, <1>5, <1>7, <1>8, <3>1 DEF Knows, Happened
  <2>2. CASE v # w
    <3>1. hook'[v] = hook[v] /\ event'[v] = event[v]
      BY <1>1, <2>2 DEF TypeOK
    <3> QED
      BY <3>1 DEF IInv, Knows, Happened
  <2> QED
    BY <2>1, <2>2
<1> QED
  BY <1>9, <1>10 DEF IInv, Happened

LEMMA FinishKeeps ==
    ASSUME IInv, NEW w \in Webhooks, Finish(w, {"decide", "commit"}), UNCHANGED status
    PROVE  /\ hook' \in [Webhooks -> {"idle", "decide", "commit"}]
           /\ event' \in [Webhooks -> [of : Events, seen : Statuses, plan : Plans \cup {Keep}] \cup {Nothing}]
           /\ \A v \in Webhooks : Knows(v)'
<1> USE DEF Finish
<1>1. TypeOK
  BY DEF IInv
<1>2. hook' \in [Webhooks -> {"idle", "decide", "commit"}]
  BY <1>1 DEF TypeOK
<1>3. event' \in [Webhooks -> [of : Events, seen : Statuses, plan : Plans \cup {Keep}] \cup {Nothing}]
  BY <1>1 DEF TypeOK
<1>4. ASSUME NEW v \in Webhooks PROVE Knows(v)'
  <2>1. CASE v = w
    BY <1>1, <2>1 DEF TypeOK, Knows
  <2>2. CASE v # w
    <3>1. hook'[v] = hook[v] /\ event'[v] = event[v]
      BY <1>1, <2>2 DEF TypeOK
    <3> QED
      BY <3>1 DEF IInv, Knows, Happened
  <2> QED
    BY <2>1, <2>2
<1> QED
  BY <1>2, <1>3, <1>4

LEMMA ApplyPlanKeeps ==
    ASSUME IInv, NEW w \in Webhooks, ApplyPlan(w)
    PROVE  IInv'
<1> USE DEF ApplyPlan, stripe
<1>1. TypeOK
  BY DEF IInv
<1>2. Finish(w, {"decide", "commit"})
  BY DEF Finish
<1>3. event[w] \in [of : Events, seen : Begun, plan : Plans \cup {Keep}]
  BY DEF IInv, Knows, Finish
<1>4. /\ hook' \in [Webhooks -> {"idle", "decide", "commit"}]
      /\ event' \in [Webhooks -> [of : Events, seen : Statuses, plan : Plans \cup {Keep}] \cup {Nothing}]
      /\ \A v \in Webhooks : Knows(v)'
  BY <1>2, FinishKeeps
<1>5. mirror' \in SUBSET Subs
  <2>1. event[w].of[2] \in Subs
    BY <1>3 DEF Events
  <2> QED
    BY <1>1, <2>1 DEF TypeOK, Synchronise
<1>6. /\ plan' \in Plans /\ quotas' \in Plans /\ (~restored => quotas' = plan')
      /\ downgraded' \in BOOLEAN
  BY <1>1, <1>3 DEF IInv, TypeOK, account
<1>7. TypeOK'
  BY <1>1, <1>4, <1>5, <1>6 DEF TypeOK
<1> QED
  BY <1>4, <1>6, <1>7 DEF IInv, Happened

LEMMA LoseWebhookKeeps ==
    ASSUME IInv, NEW w \in Webhooks, LoseWebhook(w)
    PROVE  IInv'
<1> USE DEF LoseWebhook, stripe, account, history
<1>1. TypeOK
  BY DEF IInv
<1>2. event[w].of \in Events /\ Happened(event[w].of)
  BY DEF IInv, Knows, Finish
<1>3. /\ hook' \in [Webhooks -> {"idle", "decide", "commit"}]
      /\ event' \in [Webhooks -> [of : Events, seen : Statuses, plan : Plans \cup {Keep}] \cup {Nothing}]
      /\ \A v \in Webhooks : Knows(v)'
  BY FinishKeeps
<1>4. pending' \in SUBSET Events
  BY <1>1, <1>2 DEF TypeOK
<1>5. TypeOK'
  BY <1>1, <1>3, <1>4 DEF TypeOK
<1> QED
  BY <1>2, <1>3, <1>5 DEF IInv, Happened

\* A request that reads the User row, and saves it whole.
LEMMA SaverKeeps ==
    ASSUME IInv, NEW q \in Requests, LoadUser(q) \/ SaveUser(q)
    PROVE  IInv'
<1> USE DEF stripe, account, history
<1>1. TypeOK
  BY DEF IInv
<1>2. CASE LoadUser(q)
  <2>1. TypeOK'
    BY <1>1, <1>2 DEF TypeOK, LoadUser
  <2> QED
    BY <1>2, <2>1 DEF IInv, LoadUser, Knows, Happened
<1>3. CASE SaveUser(q)
  <2>1. saver' \in [Requests -> Plans \cup {NoSave}] /\ plan' \in Plans /\ restored' \in BOOLEAN
    BY <1>1, <1>3 DEF TypeOK, SaveUser
  <2>2. TypeOK'
    BY <1>1, <1>3, <2>1 DEF TypeOK, SaveUser
  <2>3. ~restored' => quotas' = plan'
    BY <1>3 DEF IInv, SaveUser
  <2> QED
    BY <1>3, <2>2, <2>3 DEF IInv, SaveUser, Knows, Happened
<1> QED
  BY <1>2, <1>3

-----------------------------------------------------------------------------
\* The invariant is inductive.
LEMMA NextKeeps == IInv /\ [Next]_vars => IInv'
<1> SUFFICES ASSUME IInv, [Next]_vars PROVE IInv'
  OBVIOUS
<1>1. ASSUME NEW s \in Subs, Subscriber(s) PROVE IInv'
  BY <1>1, CheckoutKeeps, SubscriptionMoves, StripeSettings DEF Subscriber
<1>2. ASSUME NEW p \in Paid, ArchivePrice(p) \/ CreatePrice(p) PROVE IInv'
  BY <1>2, StripeSettings
<1>3. ASSUME NEW w \in Webhooks, Process(w) \/ LoseWebhook(w) PROVE IInv'
  BY <1>3, FetchKeeps, DecideKeeps, ApplyPlanKeeps, LoseWebhookKeeps DEF Process
<1>4. ASSUME NEW q \in Requests, LoadUser(q) \/ SaveUser(q) PROVE IInv'
  BY <1>4, SaverKeeps
<1>5. CASE UNCHANGED vars
  BY <1>5 DEF vars, stripe, account, history, IInv, TypeOK, Knows, Happened
<1> QED
  BY <1>1, <1>2, <1>3, <1>4, <1>5 DEF Next

\* What Stripe announced has happened, and no webhook under way takes a plan away for
\* anything but the end of a subscription (apps/billing/handlers.py).
THEOREM InvariantHolds == Spec => []IInv
<1> QED
  BY InitHolds, NextKeeps, PTL DEF Spec

\* _apply_plan_to_user: the limits are those of the plan, however webhooks interleave and fail.
THEOREM QuotasTheorem == Spec => []QuotasMatchPlan
<1>1. IInv => QuotasMatchPlan
  BY DEF IInv, QuotasMatchPlan
<1> QED
  BY <1>1, InvariantHolds, PTL

\* A plan is only taken away by the end of a subscription or by a request that saves an old row.
LEMMA StepKeepsPaid ==
    ASSUME IInv, [Next]_vars, plan # "free", plan' = "free"
    PROVE  \/ \E s \in Subs : status[s] = "canceled"
           \/ \E q \in Requests : saver[q] = "free" /\ saver'[q] = NoSave
<1>1. TypeOK
  BY DEF IInv
<1>2. ASSUME plan' = plan PROVE FALSE
  BY <1>2
<1>3. ASSUME NEW s \in Subs, Subscriber(s) PROVE plan' = plan
  BY <1>3 DEF Subscriber, Checkout, PayCheckout, PaymentFails, PaymentRecovers, Becomes,
              EndSubscription, CancelAtPeriodEnd, account
<1>4. ASSUME NEW p \in Paid, ArchivePrice(p) \/ CreatePrice(p) PROVE plan' = plan
  BY <1>4 DEF ArchivePrice, CreatePrice, account
<1>5. ASSUME NEW w \in Webhooks, Process(w) \/ LoseWebhook(w)
      PROVE  plan' = plan \/ \E s \in Subs : status[s] = "canceled"
  <2>1. CASE ApplyPlan(w)
    <3>1. plan' = plan \/ (event[w].plan = "free" /\ hook[w] = "commit")
      BY <2>1 DEF ApplyPlan, Finish, account
    <3>2. ASSUME event[w].plan = "free", hook[w] = "commit"
          PROVE  \E s \in Subs : status[s] = "canceled"
      <4>1. event[w].of \in Events /\ Happened(event[w].of) /\ event[w].of[1] = "deleted"
        BY <3>2 DEF IInv, Knows
      <4>2. event[w].of[2] \in Subs
        BY <4>1 DEF Events
      <4> QED
        BY <4>1, <4>2 DEF Happened
    <3> QED
      BY <3>1, <3>2
  <2>2. CASE ~ApplyPlan(w)
    BY <1>5, <2>2 DEF Process, Fetch, Decide, LoseWebhook, account
  <2> QED
    BY <2>1, <2>2
<1>6. ASSUME NEW q \in Requests, LoadUser(q) \/ SaveUser(q)
      PROVE  plan' = plan \/ (saver[q] = "free" /\ saver'[q] = NoSave)
  <2>1. CASE LoadUser(q)
    BY <2>1 DEF LoadUser, account
  <2>2. CASE SaveUser(q)
    BY <1>1, <2>2 DEF SaveUser, TypeOK
  <2> QED
    BY <1>6, <2>1, <2>2
<1>7. CASE UNCHANGED vars
  BY <1>7 DEF vars, account
<1> QED
  BY <1>2, <1>3, <1>4, <1>5, <1>6, <1>7 DEF Next

\* on_subscription_change, "on garde le plan actuel jusqu'a expiration".
THEOREM PaidTheorem == Spec => PaidUntilCanceled
<1>1. IInv /\ [Next]_vars
        => [plan # "free" /\ plan' = "free" =>
              \/ \E s \in Subs : status[s] = "canceled"
              \/ \E q \in Requests : saver[q] = "free" /\ saver'[q] = NoSave]_vars
  BY StepKeepsPaid
<1> QED
  BY <1>1, InvariantHolds, PTL DEF Spec, PaidUntilCanceled

-----------------------------------------------------------------------------
(***************************************************************************)
(* PlanFollowsStripe.  It speaks of the states with nothing left to        *)
(* deliver; what makes it inductive is said of all the others: where the   *)
(* account still differs from Stripe, an event that will repair it is      *)
(* pending or being processed, and what a webhook fetched can only be out  *)
(* of date if another event about the subscription is pending.             *)
(***************************************************************************)

Busy(w) == hook[w] # "idle"

OnSale(x) == x[1] \in keyed /\ x[2] = prices[x[1]]

\* A subscription has a price that was made; repricing only makes newer ones.
PriceMade(s) ==
    status[s] # "none" => price[s] \in Prices /\ price[s][2] <= prices[price[s][1]]

\* A paid plan is only decided for an active subscription, at its own price.
Reasoned(w) ==
    hook[w] = "commit" /\ event[w].plan \in Paid =>
        /\ event[w].of[1] = "change" /\ event[w].seen \in Granting
        /\ event[w].plan = price[event[w].of[2]][1]

OneAtATime == \A v, w \in Webhooks : Busy(v) /\ Busy(w) => v = w

Announced(s) == \E e \in pending : e[2] = s

SeenFresh(w) ==
    Busy(w) =>
        /\ event[w].seen = status[event[w].of[2]] \/ Announced(event[w].of[2])
        /\ event[w].seen \in Granting => \/ status[event[w].of[2]] \in Ongoing
                                         \/ <<"deleted", event[w].of[2]>> \in pending

MirrorFollows(s) ==
    \/ s \in mirror <=> status[s] \in Live
    \/ Announced(s)
    \/ \E w \in Webhooks : Busy(w) /\ event[w].of[2] = s

\* The end of the subscription is being told.
Ends(s) ==
    \/ <<"deleted", s>> \in pending
    \/ \E w \in Webhooks : /\ Busy(w) /\ event[w].of = <<"deleted", s>>
                           /\ hook[w] = "decide" \/ event[w].plan = "free"

\* A paid plan is that of a subscription that goes on, or whose end is being told.
EndComes ==
    plan # "free" =>
        \E s \in Subs : price[s][1] = plan /\ (status[s] \in Ongoing \/ Ends(s))

\* Its plan is on the way to the account.
Given(s) ==
    \/ <<"change", s>> \in pending
    \/ \E w \in Webhooks : /\ Busy(w) /\ event[w].of = <<"change", s>>
                           /\ event[w].seen \in Granting
                           /\ hook[w] = "decide" \/ event[w].plan = price[s][1]

\* An account that is free for no other reason is about to be given the plan of an active
\* subscription.
PlanComes(s) ==
    status[s] \in Granting /\ OnSale(price[s]) /\ plan = "free" /\ ~downgraded => Given(s)

FInv ==
    /\ IInv
    /\ \A s \in Subs : PriceMade(s)
    /\ \A w \in Webhooks : Reasoned(w)
    /\ ~overlap => /\ OneAtATime
                   /\ \A w \in Webhooks : SeenFresh(w)
                   /\ \A s \in Subs : MirrorFollows(s)
    /\ Undisturbed => EndComes /\ \A s \in Subs : PlanComes(s)

\* The key of a price is its plan while it is the newest one, and no plan's after that.
LEMMA KeyOf ==
    ASSUME TypeOK, NEW x \in Prices
    PROVE  /\ LookupKey(x) \in Paid <=> OnSale(x)
           /\ OnSale(x) => LookupKey(x) = x[1]
<1>1. "archived" \notin Paid
  BY BillingAssumption
<1>2. x[1] \in Paid
  BY DEF Prices
<1> QED
  BY <1>1, <1>2 DEF LookupKey, OnSale

-----------------------------------------------------------------------------
(* The steps that are not of a webhook. *)

Told(t) ==
    \/ status'[t] = status[t]
    \/ status[t] = "none" /\ status'[t] = "checkout"
    \/ /\ status[t] \in {"checkout"} \cup Ongoing /\ status'[t] \in Ongoing
       /\ <<"change", t>> \in pending'
    \/ status[t] \in Ongoing /\ status'[t] = "canceled" /\ <<"deleted", t>> \in pending'

Quiet ==
    /\ UNCHANGED <<mirror, hook, event, overlap, downgraded>>
    /\ pending \subseteq pending'
    /\ ~restored' => ~restored /\ plan' = plan
    /\ \A t \in Subs : Told(t)
    /\ \A t \in Subs : status[t] # "none" => price'[t] = price[t]
    /\ \A t \in Subs : PriceMade(t)'
    /\ \A x \in Prices : x[2] <= prices[x[1]] /\ OnSale(x)' => OnSale(x)

\* What Stripe does is told by an event, and a price that lost the key does not get it back.
LEMMA SubscriberIsQuiet ==
    ASSUME FInv, NEW s \in Subs, Subscriber(s)
    PROVE  Quiet
<1>1. TypeOK
  BY DEF FInv, IInv
<1>2. CASE \E p \in Paid : Checkout(s, p)
  <2> PICK p \in Paid : Checkout(s, p)
    BY <1>2
  <2> USE DEF Checkout
  <2>1. \A t \in Subs : Told(t)
    BY <1>1 DEF TypeOK, Told
  <2>2. \A t \in Subs \ {s} : status'[t] = status[t] /\ price'[t] = price[t]
    BY <1>1 DEF TypeOK
  <2>3. price'[s] = <<p, prices[p]>> /\ prices[p] \in 1 .. MaxPrices
    BY <1>1 DEF TypeOK
  <2>4. ASSUME NEW t \in Subs PROVE PriceMade(t)'
    <3>1. CASE t = s
      BY <2>3, <3>1, BillingAssumption DEF PriceMade, Prices
    <3>2. CASE t # s
      BY <2>2, <3>2 DEF FInv, PriceMade
    <3> QED
      BY <3>1, <3>2
  <2>5. \A x \in Prices : OnSale(x)' => OnSale(x)
    BY DEF OnSale
  <2> QED
    BY <2>1, <2>2, <2>4, <2>5 DEF Quiet, account, history
<1>3. CASE PayCheckout(s) \/ PaymentFails(s) \/ PaymentRecovers(s)
  <2> USE DEF PayCheckout, PaymentFails, PaymentRecovers, Becomes, Notify
  <2>1. \A t \in Subs \ {s} : status'[t] = status[t]
    BY <1>1, <1>3 DEF TypeOK
  <2>2. /\ status[s] \in {"checkout"} \cup Ongoing /\ status'[s] \in Ongoing
        /\ <<"change", s>> \in pending'
    BY <1>1, <1>3 DEF TypeOK, Ongoing, Live, Granting
  <2>3. \A t \in Subs : Told(t)
    BY <2>1, <2>2 DEF Told
  <2>4. \A t \in Subs : PriceMade(t)'
    BY <1>3, <2>1, <2>2 DEF FInv, PriceMade, Ongoing, Live, Granting
  <2>5. \A x \in Prices : OnSale(x)' => OnSale(x)
    BY <1>3 DEF OnSale
  <2> QED
    BY <1>3, <2>3, <2>4, <2>5 DEF Quiet, account, history
<1>4. CASE EndSubscription(s)
  <2> USE <1>4 DEF EndSubscription, Notify
  <2>1. \A t \in Subs \ {s} : status'[t] = status[t]
    BY <1>1 DEF TypeOK
  <2>2. status[s] \in Ongoing /\ status'[s] = "canceled" /\ <<"deleted", s>> \in pending'
    BY <1>1 DEF TypeOK
  <2>3. \A t \in Subs : Told(t)
    BY <2>1, <2>2 DEF Told
  <2>4. \A t \in Subs : PriceMade(t)'
    BY <2>1, <2>2 DEF FInv, PriceMade, Ongoing, Live, Granting
  <2>5. \A x \in Prices : OnSale(x)' => OnSale(x)
    BY DEF OnSale
  <2> QED
    BY <2>3, <2>4, <2>5 DEF Quiet, account, history
<1>5. CASE CancelAtPeriodEnd(s)
  BY <1>5 DEF CancelAtPeriodEnd, Notify, Quiet, Told, FInv, PriceMade, OnSale, account, history
<1> QED
  BY <1>2, <1>3, <1>4, <1>5 DEF Subscriber

LEMMA RepricingIsQuiet ==
    ASSUME FInv, NEW p \in Paid, ArchivePrice(p) \/ CreatePrice(p)
    PROVE  Quiet
<1>1. TypeOK
  BY DEF FInv, IInv
<1>2. UNCHANGED <<status, price, mirror, pending, hook, event, plan, overlap, restored, downgraded>>
  BY DEF ArchivePrice, CreatePrice, account, history
<1>3. \A r \in Paid : prices[r] \in Nat /\ prices'[r] \in Nat /\ prices[r] <= prices'[r]
  BY <1>1, BillingAssumption DEF TypeOK, ArchivePrice, CreatePrice
<1>4. ASSUME NEW t \in Subs PROVE PriceMade(t)'
  <2>1. price[t] \in Prices => price[t][1] \in Paid /\ price[t][2] \in Nat
    BY BillingAssumption DEF Prices
  <2> QED
    BY <1>2, <1>3, <2>1 DEF FInv, PriceMade
<1>5. ASSUME NEW x \in Prices, x[2] <= prices[x[1]], OnSale(x)' PROVE OnSale(x)
  <2>1. x[1] \in Paid /\ x[2] \in Nat
    BY BillingAssumption DEF Prices
  <2>2. CASE ArchivePrice(p)
    BY <1>5, <2>2 DEF ArchivePrice, OnSale
  <2>3. CASE CreatePrice(p)
    <3>1. x[1] # p
      BY <1>1, <1>3, <1>5, <2>1, <2>3 DEF CreatePrice, OnSale, TypeOK
    <3> QED
      BY <1>1, <1>5, <2>1, <2>3, <3>1 DEF CreatePrice, OnSale, TypeOK
  <2> QED
    BY <2>2, <2>3
<1> QED
  BY <1>2, <1>4, <1>5 DEF Quiet, Told

\* Saving the row puts back the plan it has, or is told by restored.
LEMMA SaverIsQuiet ==
    ASSUME FInv, NEW q \in Requests, LoadUser(q) \/ SaveUser(q)
    PROVE  Quiet
<1>1. UNCHANGED <<stripe, mirror, pending, hook, event, overlap, downgraded>>
  BY DEF LoadUser, SaveUser, history
<1>2. ~restored' => ~restored /\ plan' = plan
  BY DEF LoadUser, SaveUser, account, history
<1>3. \A t \in Subs : Told(t) /\ PriceMade(t)'
  BY <1>1 DEF stripe, Told, FInv, PriceMade
<1>4. \A x \in Prices : OnSale(x)' => OnSale(x)
  BY <1>1 DEF stripe, OnSale
<1> QED
  BY <1>1, <1>2, <1>3, <1>4 DEF Quiet, stripe

\* Where the account differs from Stripe there is still an event to come.
LEMMA QuietKeeps ==
    ASSUME FInv, IInv', Quiet
    PROVE  FInv'
<1>1. TypeOK /\ TypeOK'
  BY DEF FInv, IInv
<1>2. \A w \in Webhooks : Busy(w)' = Busy(w) /\ hook'[w] = hook[w] /\ event'[w] = event[w]
  BY DEF Quiet, Busy
<1>3. \A w \in Webhooks : Busy(w) => /\ event[w].of \in Events /\ event[w].of[2] \in Subs
                                     /\ status[event[w].of[2]] \in Begun
  <2>1. \A w \in Webhooks : Busy(w) => event[w].of \in Events /\ Happened(event[w].of)
    BY DEF FInv, IInv, Knows, Busy
  <2>2. \A e \in Events : e[2] \in Subs
    BY DEF Events
  <2> QED
    BY <2>1, <2>2 DEF Happened
<1>4. \A s \in Subs : PriceMade(s)'
  BY DEF Quiet
<1>5. ASSUME NEW w \in Webhooks PROVE Reasoned(w)'
  <2>1. Busy(w) => price'[event[w].of[2]] = price[event[w].of[2]]
    BY <1>3 DEF Quiet, Begun
  <2> QED
    BY <1>2, <2>1 DEF FInv, Reasoned, Busy
<1>6. \A s \in Subs : Announced(s) => Announced(s)'
  BY DEF Quiet, Announced
<1>7. ASSUME NEW s \in Subs PROVE status'[s] = status[s] \/ Announced(s)' \/ status[s] = "none"
  <2>1. \A k \in {"change", "deleted"} : <<k, s>> \in pending' => Announced(s)'
    BY DEF Announced
  <2> QED
    BY <2>1 DEF Quiet, Told
<1>8. ASSUME ~overlap'
      PROVE  /\ OneAtATime'
             /\ \A w \in Webhooks : SeenFresh(w)'
             /\ \A s \in Subs : MirrorFollows(s)'
  <2>0. ~overlap
    BY <1>8 DEF Quiet
  <2>1. OneAtATime'
    BY <1>2, <2>0 DEF FInv, OneAtATime
  <2>2. ASSUME NEW w \in Webhooks PROVE SeenFresh(w)'
    <3> SUFFICES ASSUME Busy(w), NEW s \in Subs, s = event[w].of[2]
                 PROVE  /\ event[w].seen = status'[s] \/ Announced(s)'
                        /\ event[w].seen \in Granting => \/ status'[s] \in Ongoing
                                                         \/ <<"deleted", s>> \in pending'
      BY <1>2, <1>3 DEF SeenFresh
    <3>1. status[s] # "none" /\ status[s] # "checkout"
      BY <1>3 DEF Begun
    <3>2. /\ event[w].seen = status[s] \/ Announced(s)
          /\ event[w].seen \in Granting => status[s] \in Ongoing \/ <<"deleted", s>> \in pending
      BY <2>0 DEF FInv, SeenFresh
    <3>3. event[w].seen = status'[s] \/ Announced(s)'
      BY <1>6, <1>7, <3>1, <3>2
    <3>4. status[s] \in Ongoing => status'[s] \in Ongoing \/ <<"deleted", s>> \in pending'
      BY <3>1 DEF Quiet, Told
    <3> QED
      BY <3>2, <3>3, <3>4 DEF Quiet
  <2>3. ASSUME NEW s \in Subs PROVE MirrorFollows(s)'
    <3>1. MirrorFollows(s)
      BY <2>0 DEF FInv
    <3>2. CASE Announced(s) \/ \E w \in Webhooks : Busy(w) /\ event[w].of[2] = s
      BY <1>2, <1>6, <3>2 DEF MirrorFollows
    <3>3. CASE s \in mirror <=> status[s] \in Live
      <4>1. status[s] = "none" => status'[s] \in {"none", "checkout"}
        BY DEF Quiet, Told, Ongoing, Live, Granting
      <4>2. mirror' = mirror
        BY DEF Quiet
      <4> QED
        BY <1>7, <3>3, <4>1, <4>2 DEF MirrorFollows, Live, Granting
    <3> QED
      BY <3>1, <3>2, <3>3 DEF MirrorFollows
  <2> QED
    BY <2>1, <2>2, <2>3
<1>9. ASSUME Undisturbed' PROVE EndComes' /\ \A s \in Subs : PlanComes(s)'
  <2>0. Undisturbed /\ plan' = plan /\ (downgraded' <=> downgraded)
    BY <1>9 DEF Quiet, Undisturbed
  <2>1. \A s \in Subs : status[s] # "none" => price'[s] = price[s]
    BY DEF Quiet
  <2>2. \A e \in pending : status[e[2]] # "none" /\ e \in pending'
    <3>1. \A e \in pending : status[e[2]] \in Begun
      BY DEF FInv, IInv, Happened
    <3> QED
      BY <3>1 DEF Quiet, Begun
  <2>3. EndComes'
    <3> SUFFICES ASSUME plan # "free" PROVE EndComes'
      BY <2>0 DEF EndComes
    <3>1. PICK s \in Subs : price[s][1] = plan /\ (status[s] \in Ongoing \/ Ends(s))
      BY <2>0 DEF FInv, EndComes
    <3>2. status[s] # "none"
      <4>1. <<"deleted", s>>[2] = s
        OBVIOUS
      <4>2. ASSUME NEW w \in Webhooks, Busy(w), event[w].of = <<"deleted", s>>
            PROVE  status[s] # "none"
        BY <1>3, <4>1, <4>2 DEF Begun
      <4> QED
        BY <2>2, <3>1, <4>1, <4>2 DEF Ends, Ongoing, Live, Granting
    <3>3. status[s] \in Ongoing => status'[s] \in Ongoing \/ <<"deleted", s>> \in pending'
      BY DEF Quiet, Told, Ongoing, Live, Granting
    <3>4. Ends(s) => Ends(s)'
      BY <1>2, <2>2 DEF Ends
    <3>5. price'[s][1] = plan'
      BY <2>0, <2>1, <3>1, <3>2
    <3>6. status'[s] \in Ongoing \/ Ends(s)'
      BY <3>1, <3>3, <3>4 DEF Ends
    <3> QED
      BY <3>5, <3>6 DEF EndComes
  <2>4. ASSUME NEW s \in Subs PROVE PlanComes(s)'
    <3> SUFFICES ASSUME status'[s] \in Granting, OnSale(price[s])', plan = "free", ~downgraded,
                        <<"change", s>> \notin pending'
                 PROVE  Given(s)'
      BY <2>0 DEF PlanComes, Given
    <3>1. status[s] \in Granting
      BY DEF Quiet, Told, Ongoing, Live, Granting
    <3>2. status[s] # "none"
      BY <3>1 DEF Granting
    <3>3. price'[s] = price[s] /\ price[s] \in Prices /\ price[s][2] <= prices[price[s][1]]
      BY <3>2 DEF Quiet, FInv, PriceMade
    <3>4. OnSale(price[s])
      <4>1. OnSale(price[s])' => price'[s][1] \in keyed' /\ price'[s][2] = prices'[price'[s][1]]
        BY DEF OnSale
      <4> DEFINE x == price[s]
      <4>2. x[1] \in keyed' /\ x[2] = prices'[x[1]]
        BY <3>3, <4>1
      <4>3. x \in Prices /\ x[2] <= prices[x[1]]
        BY <3>3
      <4> HIDE DEF x
      <4>4. \A y \in Prices : y[2] <= prices[y[1]] /\ y[1] \in keyed' /\ y[2] = prices'[y[1]] => OnSale(y)
        BY DEF Quiet, OnSale
      <4>5. OnSale(x)
        BY <4>2, <4>3, <4>4
      <4> QED
        BY <4>5 DEF x
    <3>5. Given(s)
      BY <2>0, <3>1, <3>4 DEF FInv, PlanComes
    <3>6. <<"change", s>> \notin pending
      BY <2>2
    <3> QED
      BY <1>2, <3>3, <3>5, <3>6 DEF Given
  <2> QED
    BY <2>3, <2>4
<1> QED
  BY <1>4, <1>5, <1>8, <1>9 DEF FInv

-----------------------------------------------------------------------------
(* The steps of a webhook. *)

\* What is known of a webhook under way, and of an event.
LEMMA AboutEvent ==
    ASSUME FInv
    PROVE  /\ \A e \in pending : e \in Events /\ e[2] \in Subs /\ Happened(e)
           /\ \A w \in Webhooks : Busy(w) =>
                /\ event[w].of \in Events /\ event[w].of[2] \in Subs /\ Happened(event[w].of)
                /\ event[w].of[1] \in {"change", "deleted"}
                /\ event[w].of = <<event[w].of[1], event[w].of[2]>>
                /\ event[w].plan \in Plans \cup {Keep}
                /\ event[w].plan = "free" => event[w].of[1] = "deleted"
           /\ \A w \in Webhooks : ~Busy(w) <=> hook[w] = "idle"
<1>1. \A e \in Events : /\ e[2] \in Subs /\ e[1] \in {"change", "deleted"}
                        /\ e = <<e[1], e[2]>>
  BY DEF Events
<1>2. \A w \in Webhooks : Busy(w) => /\ event[w].of \in Events /\ Happened(event[w].of)
                                     /\ event[w].plan \in Plans \cup {Keep}
                                     /\ event[w].plan = "free" => event[w].of[1] = "deleted"
  BY DEF FInv, IInv, Knows, Busy
<1>3. \A e \in pending : e \in Events /\ Happened(e)
  BY DEF FInv, IInv, TypeOK
<1> QED
  BY <1>1, <1>2, <1>3 DEF Busy

\* A webhook fetches the subscription as it is now.
LEMMA FetchFollows ==
    ASSUME FInv, IInv', NEW w \in Webhooks, NEW e \in Events, Fetch(w, e)
    PROVE  FInv'
<1> USE DEF Fetch, stripe, account, history
<1>1. TypeOK
  BY DEF FInv, IInv
<1>2. /\ hook'[w] = "decide" /\ event'[w] = [of |-> e, seen |-> status[e[2]], plan |-> Keep]
      /\ \A v \in Webhooks \ {w} : hook'[v] = hook[v] /\ event'[v] = event[v]
  BY <1>1 DEF TypeOK
<1>3. /\ e \in pending /\ e[2] \in Subs /\ Happened(e)
      /\ \A f \in pending : f = e \/ f \in pending'
  BY AboutEvent
<1>4. \A s \in Subs : PriceMade(s)'
  BY DEF FInv, PriceMade
<1>5. \A v \in Webhooks : Reasoned(v)'
  BY <1>2 DEF FInv, Reasoned
<1>6. Busy(w)' /\ \A v \in Webhooks \ {w} : Busy(v)' = Busy(v)
  BY <1>2 DEF Busy
<1>7. ASSUME ~overlap' PROVE ~overlap /\ \A v \in Webhooks \ {w} : ~Busy(v)'
  BY <1>6, <1>7 DEF Busy
<1>8. ASSUME ~overlap'
      PROVE  /\ OneAtATime'
             /\ \A v \in Webhooks : SeenFresh(v)'
             /\ \A s \in Subs : MirrorFollows(s)'
  <2>1. OneAtATime'
    BY <1>7, <1>8 DEF OneAtATime
  <2>2. ASSUME NEW v \in Webhooks PROVE SeenFresh(v)'
    <3>1. CASE v = w
      <4>1. event'[v].of[2] = e[2] /\ event'[v].seen = status[e[2]]
        BY <1>2, <3>1
      <4>2. status'[e[2]] = status[e[2]]
        OBVIOUS
      <4> QED
        BY <4>1, <4>2 DEF SeenFresh, Ongoing, Live
    <3>2. CASE v # w
      BY <1>7, <1>8, <3>2 DEF SeenFresh
    <3> QED
      BY <3>1, <3>2
  <2>3. ASSUME NEW s \in Subs PROVE MirrorFollows(s)'
    <3>1. MirrorFollows(s) /\ \A v \in Webhooks : v # w => ~Busy(v)
      BY <1>6, <1>7, <1>8 DEF FInv
    <3>2. CASE Announced(s)
      <4>1. Announced(s)' \/ e[2] = s
        BY <1>3, <3>2 DEF Announced
      <4>2. event'[w].of = e
        BY <1>2
      <4> QED
        BY <1>6, <4>1, <4>2 DEF MirrorFollows
    <3>3. CASE ~Announced(s)
      <4>1. ~Busy(w)
        BY DEF Busy
      <4> QED
        BY <3>1, <3>3, <4>1 DEF MirrorFollows
    <3> QED
      BY <3>2, <3>3
  <2> QED
    BY <2>1, <2>2, <2>3
<1>9. ASSUME Undisturbed' PROVE EndComes' /\ \A s \in Subs : PlanComes(s)'
  <2>1. Undisturbed /\ \A v \in Webhooks : ~Busy(v)
    <3>1. ~Busy(w)
      BY DEF Busy
    <3> QED
      BY <1>6, <1>7, <1>9, <3>1 DEF Undisturbed
  <2>2. EndComes'
    <3> SUFFICES ASSUME plan # "free" PROVE EndComes'
      BY DEF EndComes
    <3>1. PICK s \in Subs : price[s][1] = plan /\ (status[s] \in Ongoing \/ Ends(s))
      BY <2>1 DEF FInv, EndComes
    <3>2. CASE status[s] \in Ongoing
      BY <3>1, <3>2 DEF EndComes
    <3>3. CASE <<"deleted", s>> \in pending
      <4>1. <<"deleted", s>> \in pending' \/ e = <<"deleted", s>>
        BY <1>3, <3>3
      <4>2. event'[w].of = e
        BY <1>2
      <4>3. Ends(s)'
        BY <1>2, <1>6, <4>1, <4>2 DEF Ends
      <4> QED
        BY <3>1, <4>3 DEF EndComes
    <3> QED
      BY <2>1, <3>1, <3>2, <3>3 DEF Ends
  <2>3. ASSUME NEW s \in Subs PROVE PlanComes(s)'
    <3> SUFFICES ASSUME status[s] \in Granting, OnSale(price[s]), plan = "free", ~downgraded
                 PROVE  Given(s)'
      BY DEF PlanComes, OnSale
    <3>1. <<"change", s>> \in pending
      BY <2>1 DEF FInv, PlanComes, Given
    <3>2. <<"change", s>> \in pending' \/ e = <<"change", s>>
      BY <1>3, <3>1
    <3>3. CASE e = <<"change", s>>
      <4>1. event'[w].of = <<"change", s>> /\ event'[w].seen = status[s]
        BY <1>2, <3>3
      <4> QED
        BY <1>2, <1>6, <4>1 DEF Given
    <3> QED
      BY <3>2, <3>3 DEF Given
  <2> QED
    BY <2>2, <2>3
<1> QED
  BY <1>4, <1>5, <1>8, <1>9 DEF FInv

\* on_subscription_change and on_subscription_deleted decide.
LEMMA DecideFollows ==
    ASSUME FInv, IInv', NEW w \in Webhooks, Decide(w)
    PROVE  FInv'
<1> USE DEF Decide, stripe, account, history
<1>1. TypeOK
  BY DEF FInv, IInv
<1>2. Busy(w) /\ event[w].of \in Events /\ event[w].of[2] \in Subs
  BY AboutEvent DEF Busy
<1> DEFINE to == IF event[w].of[1] = "change" THEN PlanOfChange(w) ELSE PlanOfDeletion(w)
<1>3. /\ hook'[w] = "commit"
      /\ event'[w].of = event[w].of /\ event'[w].seen = event[w].seen /\ event'[w].plan = to
      /\ \A v \in Webhooks \ {w} : hook'[v] = hook[v] /\ event'[v] = event[v]
  <2>1. event[w] \in [of : Events, seen : Begun, plan : Plans \cup {Keep}]
    BY DEF FInv, IInv, Knows
  <2>2. event'[w] = [event[w] EXCEPT !.plan = to]
    BY <1>1 DEF TypeOK
  <2> HIDE DEF to
  <2> QED
    BY <1>1, <2>1, <2>2 DEF TypeOK
<1>4. event[w].of[1] = "deleted" /\ plan # "free" => to = "free"
  BY DEF PlanOfDeletion
<1>5. to \in Paid => /\ event[w].of[1] = "change" /\ event[w].seen \in Granting
                     /\ to = price[event[w].of[2]][1]
  <2>1. PlanOfDeletion(w) \notin Paid
    BY BillingAssumption DEF PlanOfDeletion, Keep
  <2>2. ASSUME PlanOfChange(w) \in Paid
        PROVE  event[w].seen \in Granting /\ PlanOfChange(w) = price[event[w].of[2]][1]
    <3>1. "keep" \notin Paid /\ "archived" \notin Paid
      BY BillingAssumption
    <3> QED
      BY <2>2, <3>1 DEF PlanOfChange, LookupKey, Keep
  <2> QED
    BY <2>1, <2>2
<1>6. ASSUME NEW s \in Subs, OnSale(price[s]), status[s] # "none",
             event[w].of = <<"change", s>>, event[w].seen \in Granting
      PROVE  to = price[s][1]
  <2>1. price[s] \in Prices
    BY <1>6 DEF FInv, PriceMade
  <2>2. LookupKey(price[s]) \in Paid /\ LookupKey(price[s]) = price[s][1]
    BY <1>1, <1>6, <2>1, KeyOf
  <2>3. PlanOfChange(w) = price[s][1]
    BY <1>6, <2>2 DEF PlanOfChange
  <2> QED
    BY <1>6, <2>3
<1> HIDE DEF to
<1>7. \A s \in Subs : PriceMade(s)'
  BY DEF FInv, PriceMade
<1>8. ASSUME NEW v \in Webhooks PROVE Reasoned(v)'
  <2>1. CASE v = w
    BY <1>3, <1>5, <2>1 DEF Reasoned
  <2>2. CASE v # w
    BY <1>3, <2>2 DEF FInv, Reasoned
  <2> QED
    BY <2>1, <2>2
<1>9. \A v \in Webhooks : /\ Busy(v)' = Busy(v)
                          /\ event'[v].of = event[v].of /\ event'[v].seen = event[v].seen
  BY <1>2, <1>3 DEF Busy
<1>10. \A s \in Subs : Announced(s)' = Announced(s)
  BY DEF Announced
<1>11. ASSUME ~overlap'
       PROVE  /\ OneAtATime'
              /\ \A v \in Webhooks : SeenFresh(v)'
              /\ \A s \in Subs : MirrorFollows(s)'
  <2>1. OneAtATime'
    BY <1>9, <1>11 DEF FInv, OneAtATime
  <2>2. \A v \in Webhooks : SeenFresh(v)'
    BY <1>9, <1>11 DEF FInv, SeenFresh, Announced
  <2>3. \A s \in Subs : MirrorFollows(s)'
    BY <1>9, <1>10, <1>11 DEF FInv, MirrorFollows
  <2> QED
    BY <2>1, <2>2, <2>3
<1>12. ASSUME Undisturbed' PROVE EndComes' /\ \A s \in Subs : PlanComes(s)'
  <2>1. Undisturbed /\ \A v \in Webhooks : Busy(v) => v = w
    BY <1>2, <1>12 DEF Undisturbed, FInv, OneAtATime
  <2>2. EndComes'
    <3> SUFFICES ASSUME plan # "free" PROVE EndComes'
      BY DEF EndComes
    <3>1. PICK s \in Subs : price[s][1] = plan /\ (status[s] \in Ongoing \/ Ends(s))
      BY <2>1 DEF FInv, EndComes
    <3>2. CASE status[s] \in Ongoing \/ <<"deleted", s>> \in pending
      BY <3>1, <3>2 DEF EndComes, Ends
    <3>3. CASE event[w].of = <<"deleted", s>>
      <4>1. event'[w].of = <<"deleted", s>> /\ event'[w].plan = "free" /\ Busy(w)'
        BY <1>2, <1>3, <1>4, <1>9, <3>3
      <4>2. Ends(s)'
        BY <4>1 DEF Ends
      <4> QED
        BY <3>1, <4>2 DEF EndComes
    <3> QED
      BY <2>1, <3>1, <3>2, <3>3 DEF Ends
  <2>3. ASSUME NEW s \in Subs PROVE PlanComes(s)'
    <3> SUFFICES ASSUME status[s] \in Granting, OnSale(price[s]), plan = "free", ~downgraded
                 PROVE  Given(s)'
      BY DEF PlanComes, OnSale
    <3>1. Given(s)
      BY <2>1 DEF FInv, PlanComes
    <3>2. CASE <<"change", s>> \in pending
      BY <3>2 DEF Given
    <3>3. CASE event[w].of = <<"change", s>> /\ event[w].seen \in Granting
      <4>1. status[s] # "none"
        BY DEF Granting
      <4>2. event'[w].plan = price[s][1]
        BY <1>3, <1>6, <3>3, <4>1
      <4> QED
        BY <1>2, <1>3, <1>9, <3>3, <4>2 DEF Given
    <3> QED
      BY <2>1, <3>1, <3>2, <3>3 DEF Given
  <2> QED
    BY <2>2, <2>3
<1> QED
  BY <1>7, <1>8, <1>11, <1>12 DEF FInv

\* The webhook is over: its event is gone, the others are as they were.
LEMMA FinishFrame ==
    ASSUME FInv, NEW w \in Webhooks, Finish(w, {"decide", "commit"})
    PROVE  /\ Busy(w) /\ ~Busy(w)'
           /\ \A v \in Webhooks \ {w} :
                hook'[v] = hook[v] /\ event'[v] = event[v] /\ Busy(v)' = Busy(v)
           /\ ~overlap => \A v \in Webhooks : ~Busy(v)'
<1>1. TypeOK
  BY DEF FInv, IInv
<1>2. Busy(w) /\ ~Busy(w)'
  BY <1>1 DEF Finish, TypeOK, Busy
<1>3. \A v \in Webhooks \ {w} : hook'[v] = hook[v] /\ event'[v] = event[v] /\ Busy(v)' = Busy(v)
  BY <1>1 DEF Finish, TypeOK, Busy
<1>4. ~overlap => \A v \in Webhooks \ {w} : ~Busy(v)
  BY <1>2 DEF FInv, OneAtATime
<1> QED
  BY <1>2, <1>3, <1>4

\* The account gets what the webhook decided, or a later event will put it right.
LEMMA ApplyPlanFollows ==
    ASSUME FInv, IInv', NEW w \in Webhooks, ApplyPlan(w)
    PROVE  FInv'
<1> USE DEF ApplyPlan, stripe
<1>1. TypeOK
  BY DEF FInv, IInv
<1>2. Finish(w, {"decide", "commit"}) /\ hook[w] = "commit"
  BY DEF Finish
<1>3. /\ Busy(w) /\ ~Busy(w)'
      /\ \A v \in Webhooks \ {w} :
           hook'[v] = hook[v] /\ event'[v] = event[v] /\ Busy(v)' = Busy(v)
      /\ ~overlap => \A v \in Webhooks : ~Busy(v)'
  BY <1>2, FinishFrame
<1>4. /\ event[w].of[2] \in Subs /\ event[w].plan \in Plans \cup {Keep}
      /\ event[w].plan = "free" => event[w].of[1] = "deleted"
      /\ event[w].of[1] = "deleted" => status[event[w].of[2]] = "canceled"
      /\ status[event[w].of[2]] \in Begun
  BY <1>3, AboutEvent DEF Happened
<1>5. \A s \in Subs : PriceMade(s)'
  BY DEF FInv, PriceMade
<1>6. ASSUME NEW v \in Webhooks PROVE Reasoned(v)'
  <2>1. CASE v = w
    BY <1>3, <2>1 DEF Reasoned, Busy
  <2>2. CASE v # w
    BY <1>3, <2>2 DEF FInv, Reasoned
  <2> QED
    BY <2>1, <2>2
<1>7. \A s \in Subs : Announced(s)' = Announced(s)
  BY DEF Announced
<1>8. ASSUME ~overlap'
      PROVE  /\ OneAtATime'
             /\ \A v \in Webhooks : SeenFresh(v)'
             /\ \A s \in Subs : MirrorFollows(s)'
  <2>1. ~overlap /\ \A v \in Webhooks : ~Busy(v)' /\ (Busy(v) => v = w)
    BY <1>3, <1>8 DEF FInv, OneAtATime
  <2>2. ASSUME NEW s \in Subs PROVE MirrorFollows(s)'
    <3>1. CASE s = event[w].of[2]
      <4>1. s \in mirror' <=> event[w].seen \in Live
        BY <3>1 DEF Synchronise
      <4>2. event[w].seen = status[s] \/ Announced(s)
        BY <1>3, <2>1, <3>1 DEF FInv, SeenFresh
      <4> QED
        BY <1>7, <4>1, <4>2 DEF MirrorFollows
    <3>2. CASE s # event[w].of[2]
      <4>1. s \in mirror' <=> s \in mirror
        BY <3>2 DEF Synchronise
      <4>2. (s \in mirror <=> status[s] \in Live) \/ Announced(s)
        BY <2>1, <3>2 DEF FInv, MirrorFollows
      <4> QED
        BY <1>7, <4>1, <4>2 DEF MirrorFollows
    <3> QED
      BY <3>1, <3>2
  <2> QED
    BY <2>1, <2>2 DEF OneAtATime, SeenFresh
<1>9. ASSUME Undisturbed' PROVE EndComes' /\ \A s \in Subs : PlanComes(s)'
  <2>1. /\ Undisturbed /\ ~overlap
        /\ \A v \in Webhooks : Busy(v) => v = w
    BY <1>3, <1>9 DEF Undisturbed, FInv, OneAtATime
  <2>2. event[w].plan = Keep => plan' = plan /\ (downgraded' <=> downgraded)
    BY DEF account
  <2>3. event[w].plan # Keep =>
          /\ plan' = event[w].plan
          /\ downgraded' <=> (event[w].plan = "free" /\ \E s \in Subs : status[s] \in Granting)
    OBVIOUS
  <2>4. ASSUME event[w].plan \in Paid
        PROVE  /\ event[w].plan = price[event[w].of[2]][1] /\ event[w].seen \in Granting
               /\ event[w].plan # Keep /\ event[w].plan # "free"
    BY <1>2, <2>4, BillingAssumption DEF FInv, Reasoned, Keep
  <2>5. event[w].plan \in Paid \/ event[w].plan = "free" \/ event[w].plan = Keep
    BY <1>4 DEF Plans
  <2>6. EndComes'
    <3> SUFFICES ASSUME plan' # "free" PROVE EndComes'
      BY DEF EndComes
    <3>1. CASE event[w].plan = Keep
      <4>1. plan # "free" /\ event[w].plan # "free"
        BY <2>2, <3>1 DEF Keep
      <4>2. PICK s \in Subs : price[s][1] = plan /\ (status[s] \in Ongoing \/ Ends(s))
        BY <2>1, <4>1 DEF FInv, EndComes
      <4>3. status[s] \in Ongoing \/ <<"deleted", s>> \in pending
        BY <1>2, <2>1, <4>1, <4>2 DEF Ends
      <4> QED
        BY <2>2, <3>1, <4>2, <4>3 DEF EndComes, Ends
    <3>2. CASE event[w].plan \in Paid
      <4> DEFINE s == event[w].of[2]
      <4>1. s \in Subs /\ price[s][1] = plan'
        BY <1>4, <2>3, <2>4, <3>2
      <4>2. status[s] \in Ongoing \/ <<"deleted", s>> \in pending
        BY <1>3, <2>1, <2>4, <3>2 DEF FInv, SeenFresh
      <4> HIDE DEF s
      <4> QED
        BY <4>1, <4>2 DEF EndComes, Ends
    <3>3. CASE event[w].plan = "free"
      BY <2>3, <3>3 DEF Keep
    <3> QED
      BY <2>5, <3>1, <3>2, <3>3
  <2>7. ASSUME NEW s \in Subs PROVE PlanComes(s)'
    <3> SUFFICES ASSUME status[s] \in Granting, OnSale(price[s]), plan' = "free", ~downgraded'
                 PROVE  Given(s)'
      BY DEF PlanComes, OnSale
    <3>1. event[w].plan = Keep
      <4>1. event[w].plan = "free" => event[w].plan # Keep
        BY DEF Keep
      <4> QED
        BY <2>3, <2>4, <2>5, <4>1
    <3>2. Given(s)
      BY <2>1, <2>2, <3>1 DEF FInv, PlanComes
    <3>3. CASE <<"change", s>> \in pending
      BY <3>3 DEF Given
    <3>4. CASE event[w].plan = price[s][1]
      <4>1. price[s] \in Prices
        BY DEF FInv, PriceMade, Granting
      <4>2. price[s][1] # Keep
        BY <4>1, BillingAssumption DEF Prices, Keep
      <4> QED
        BY <3>1, <3>4, <4>2
    <3> QED
      BY <1>2, <2>1, <3>2, <3>3, <3>4 DEF Given
  <2> QED
    BY <2>6, <2>7
<1> QED
  BY <1>5, <1>6, <1>8, <1>9 DEF FInv

\* A lost webhook leaves nothing but its event, to be delivered again.
LEMMA LoseWebhookFollows ==
    ASSUME FInv, IInv', NEW w \in Webhooks, LoseWebhook(w)
    PROVE  FInv'
<1> USE DEF LoseWebhook, stripe, account, history
<1>1. TypeOK
  BY DEF FInv, IInv
<1>2. /\ Busy(w) /\ ~Busy(w)'
      /\ \A v \in Webhooks \ {w} :
           hook'[v] = hook[v] /\ event'[v] = event[v] /\ Busy(v)' = Busy(v)
      /\ ~overlap => \A v \in Webhooks : ~Busy(v)'
  BY FinishFrame
<1>3. /\ event[w].of[2] \in Subs /\ event[w].of[1] \in {"change", "deleted"}
      /\ event[w].of = <<event[w].of[1], event[w].of[2]>>
  BY <1>2, AboutEvent
<1>4. event[w].of \in pending' /\ pending \subseteq pending'
  OBVIOUS
<1>5. \A s \in Subs : PriceMade(s)'
  BY DEF FInv, PriceMade
<1>6. ASSUME NEW v \in Webhooks PROVE Reasoned(v)'
  <2>1. CASE v = w
    BY <1>2, <2>1 DEF Reasoned, Busy
  <2>2. CASE v # w
    BY <1>2, <2>2 DEF FInv, Reasoned
  <2> QED
    BY <2>1, <2>2
<1>7. \A s \in Subs : Announced(s) \/ s = event[w].of[2] => Announced(s)'
  BY <1>4 DEF Announced
<1>8. ASSUME ~overlap'
      PROVE  /\ OneAtATime'
             /\ \A v \in Webhooks : SeenFresh(v)'
             /\ \A s \in Subs : MirrorFollows(s)'
  <2>1. ~overlap /\ \A v \in Webhooks : ~Busy(v)' /\ (Busy(v) => v = w)
    BY <1>2, <1>8 DEF FInv, OneAtATime
  <2>2. ASSUME NEW s \in Subs PROVE MirrorFollows(s)'
    <3>1. MirrorFollows(s)
      BY <2>1 DEF FInv
    <3> QED
      BY <1>7, <2>1, <3>1 DEF MirrorFollows
  <2> QED
    BY <2>1, <2>2 DEF OneAtATime, SeenFresh
<1>9. ASSUME Undisturbed' PROVE EndComes' /\ \A s \in Subs : PlanComes(s)'
  <2>1. /\ Undisturbed
        /\ \A v \in Webhooks : Busy(v) => v = w
    BY <1>2, <1>9 DEF Undisturbed, FInv, OneAtATime
  <2>2. EndComes'
    <3> SUFFICES ASSUME plan # "free" PROVE EndComes'
      BY DEF EndComes
    <3>1. PICK s \in Subs : price[s][1] = plan /\ (status[s] \in Ongoing \/ Ends(s))
      BY <2>1 DEF FInv, EndComes
    <3>2. status[s] \in Ongoing \/ <<"deleted", s>> \in pending'
      BY <1>4, <2>1, <3>1 DEF Ends
    <3> QED
      BY <3>1, <3>2 DEF EndComes, Ends
  <2>3. ASSUME NEW s \in Subs PROVE PlanComes(s)'
    <3> SUFFICES ASSUME status[s] \in Granting, OnSale(price[s]), plan = "free", ~downgraded
                 PROVE  Given(s)'
      BY DEF PlanComes, OnSale
    <3>1. Given(s)
      BY <2>1 DEF FInv, PlanComes
    <3>2. <<"change", s>> \in pending'
      BY <1>4, <2>1, <3>1 DEF Given
    <3> QED
      BY <3>2 DEF Given
  <2> QED
    BY <2>2, <2>3
<1> QED
  BY <1>5, <1>6, <1>8, <1>9 DEF FInv

-----------------------------------------------------------------------------
LEMMA InitFollows == Init => FInv
<1> SUFFICES ASSUME Init PROVE FInv
  OBVIOUS
<1>1. IInv
  BY InitHolds
<1>2. \A w \in Webhooks : ~Busy(w) /\ hook[w] # "commit"
  BY DEF Init, Busy
<1>3. \A s \in Subs : status[s] = "none" /\ s \notin mirror
  BY DEF Init
<1>4. EndComes
  BY DEF Init, EndComes
<1> QED
  BY <1>1, <1>2, <1>3, <1>4 DEF FInv, PriceMade, Reasoned, OneAtATime, SeenFresh,
                                 MirrorFollows, PlanComes, Granting, Live

LEMMA NextFollows == FInv /\ [Next]_vars => FInv'
<1> SUFFICES ASSUME FInv, [Next]_vars PROVE FInv'
  OBVIOUS
<1>1. IInv'
  BY NextKeeps DEF FInv
<1>2. ASSUME NEW s \in Subs, Subscriber(s) PROVE FInv'
  BY <1>1, <1>2, SubscriberIsQuiet, QuietKeeps
<1>3. ASSUME NEW p \in Paid, ArchivePrice(p) \/ CreatePrice(p) PROVE FInv'
  BY <1>1, <1>3, RepricingIsQuiet, QuietKeeps
<1>4. ASSUME NEW w \in Webhooks, Process(w) \/ LoseWebhook(w) PROVE FInv'
  BY <1>1, <1>4, FetchFollows, DecideFollows, ApplyPlanFollows, LoseWebhookFollows DEF Process
<1>5. ASSUME NEW q \in Requests, LoadUser(q) \/ SaveUser(q) PROVE FInv'
  BY <1>1, <1>5, SaverIsQuiet, QuietKeeps
<1>6. CASE UNCHANGED vars
  <2>1. Quiet
    BY <1>6 DEF vars, stripe, account, history, Quiet, Told, FInv, PriceMade, OnSale
  <2> QED
    BY <1>1, <2>1, QuietKeeps
<1> QED
  BY <1>2, <1>3, <1>4, <1>5, <1>6 DEF Next

\* With nothing left to deliver, what the invariant says is to come has come.
LEMMA NothingToCome == FInv => PlanFollowsStripe
<1> SUFFICES ASSUME FInv, Delivered, Undisturbed
             PROVE  PlanFollowsStripe
  BY DEF PlanFollowsStripe
<1>1. /\ \A w \in Webhooks : ~Busy(w)
      /\ \A s \in Subs : ~Announced(s)
      /\ pending = {} /\ ~overlap /\ TypeOK
  BY DEF Delivered, Busy, Announced, Undisturbed, FInv, IInv
<1>2. plan # "free" => \E s \in Subs : status[s] \in Ongoing /\ price[s][1] = plan
  BY <1>1 DEF FInv, EndComes, Ends
<1>3. HasSubscription <=> (\E s \in Subs : status[s] \in Live)
  <2>1. \A s \in Subs : s \in mirror <=> status[s] \in Live
    BY <1>1 DEF FInv, MirrorFollows
  <2> QED
    BY <1>1, <2>1 DEF HasSubscription, ActiveSubs, TypeOK
<1>4. ASSUME NEW s \in Subs, plan = "free", ~downgraded, status[s] \in Granting
      PROVE  LookupKey(price[s]) \notin Paid
  <2>1. price[s] \in Prices
    BY <1>4 DEF FInv, PriceMade, Granting
  <2>2. ~Given(s)
    BY <1>1 DEF Given
  <2>3. ~OnSale(price[s])
    BY <1>4, <2>2 DEF FInv, PlanComes
  <2> QED
    BY <1>1, <2>1, <2>3, KeyOf
<1> QED
  BY <1>2, <1>3, <1>4 DEF PlanFollowsStripe, HasSubscription

\* Once Stripe has delivered everything, in whatever order and however often: a paid plan is
\* that of a subscription that goes on (apps/billing/handlers.py), SubscriptionView tells
\* whether there is one, and a free account has no active one at a price on sale unless
\* on_subscription_deleted has taken its plan away for another.
THEOREM PlanFollowsTheorem == Spec => []PlanFollowsStripe
<1>1. Init => FInv
  BY InitFollows
<1>2. FInv /\ [Next]_vars => FInv'
  BY NextFollows
<1>3. FInv => PlanFollowsStripe
  BY NothingToCome
<1> QED
  BY <1>1, <1>2, <1>3, PTL DEF Spec
==============================================================================
