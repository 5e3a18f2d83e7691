\* Two sign-ins, three tokens each, two requests in flight: a rotation against a logout,
\* a revocation or another rotation of the same session, while a sign-in is under way.
SPECIFICATION FairSpec
CONSTANTS
    Accesses = {s1, s2}
    Requests = {q1, q2}
    MaxTokens = 3
INVARIANTS
    OneLiveToken
    RevokedTokenIsDead
PROPERTIES
    EndedIsFinal
    PlaceholderReplaced
\* Every session may be over.
CHECK_DEADLOCK FALSE
