\* Two subscriptions, one billable plan that is repriced once, two webhooks at once and one
\* request that saves the User row.
SPECIFICATION Spec
SYMMETRY Interchangeable
CONSTANTS
    Subs = {s1, s2}
    Paid = {"pro"}
    Webhooks = {w1, w2}
    Requests = {q1}
    MaxPrices = 2
CONSTRAINT Unrestored
INVARIANTS
    QuotasMatchPlan
    PlanFollowsStripe
PROPERTIES
    PaidUntilCanceled
\* Every subscription may be over.
CHECK_DEADLOCK FALSE
