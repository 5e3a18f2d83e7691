\* Two requests, three rows and two keys against a quota of two objects: parallel uploads,
\* confirmations and copies, each against a delete of the model or the project, with a key
\* that two models or requests come to share and one that is freed and named again.
SPECIFICATION Spec
SYMMETRY Interchangeable
CONSTANTS
    Requests = {q1, q2}
    Placed = 1
    Limit = 2
    MaxRows = 3
    MaxKeys = 2
    MaxMishaps = 1
CONSTRAINT Counting
INVARIANTS
    StorageCounted
    QuotaKept
    RowHasObject
\* Rows and keys are bounded.
CHECK_DEADLOCK FALSE
