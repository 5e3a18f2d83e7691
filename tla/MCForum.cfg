\* One topic, two replies, one image and two requests at a time.
SPECIFICATION Spec
SYMMETRY Interchangeable
CONSTANTS
    Replies = {r1, r2}
    Requests = {q1, q2}
    Flags = {"locked"}
    MaxCount = 2
INVARIANTS
    CountersMatch
    OneSolution
    ShownImageKept
\* The topic may be deleted for good.
CHECK_DEADLOCK FALSE
