--------------------------- MODULE MCModelStorage ---------------------------
\* ModelStorage, checked up to the names of requests, until the counter first goes wrong:
\* what follows is exempt from every property but RowHasObject, which does not read it.
EXTENDS ModelStorage, TLC

Interchangeable == Permutations(Requests)

Counting == mishaps = 0
=============================================================================
