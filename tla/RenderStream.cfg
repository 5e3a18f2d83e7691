\* One render, two retries and one redelivery: every interleaving of two copies of a
\* message, the POST that published it, one PATCH, DELETE, the monthly reset and one
\* stream that watches the render.
SPECIFICATION FairStreamSpec
CONSTANTS
    Renders = {r1}
    RendersLimit = 1
    MaxRetries = 2
    MaxRedeliveries = 1
    MaxEdits = 1
    Streams = {s1}
INVARIANTS
    DoneHasImage
    PaidResultKept
    AbandonedOnlyIfLost
    StreamTells
PROPERTIES
    VerdictStable
    MeteredOncePerDelivery
    JobSettles
    
\* Every request and job of the account may be over.
CHECK_DEADLOCK FALSE
