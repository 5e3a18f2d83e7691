\* Two owners and four requests between them: sign in, ask, cancel and ask again, or two
\* of them at once, against a sweep that may fail on either account.
SPECIFICATION FairSpec
CONSTANTS
    Users = {u1, u2}
    Calls = {c1, c2, c3, c4}
INVARIANTS
    Settled
PROPERTIES
    ErasureFollowsLifecycle
    DueIsPurged
\* All requests may have been made and nothing be left to sweep.
CHECK_DEADLOCK FALSE
