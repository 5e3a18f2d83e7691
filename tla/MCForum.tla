------------------------------ MODULE MCForum ------------------------------
\* Forum, checked up to the names of replies and requests.
EXTENDS Forum, TLC

Interchangeable == Permutations(Replies) \cup Permutations(Requests)
=============================================================================
