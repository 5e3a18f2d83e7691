---------------------------- MODULE MCBackOffice ----------------------------
\* BackOffice, checked up to the names of administrators and requests, until something
\* first goes wrong: what follows is left to the theorems.
EXTENDS BackOffice, TLC

Interchangeable == Permutations(Admins) \cup Permutations(Requests)

Smooth == ~overlap /\ ~crossed
=============================================================================
