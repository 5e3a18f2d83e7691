----------------------------- MODULE MCProjects -----------------------------
\* Projects, checked up to the names of requests and of thumbnails.
EXTENDS Projects, TLC

Interchangeable == Permutations(Requests) \cup Permutations(Names)
=============================================================================
