----------------------------- MODULE MCBilling -----------------------------
\* Billing, checked up to the names of subscriptions and webhooks, until a request first
\* saves an old row: what follows is left to the theorems.
EXTENDS Billing, TLC

Interchangeable == Permutations(Subs) \cup Permutations(Webhooks)

Unrestored == ~restored
=============================================================================
