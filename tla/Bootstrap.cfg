\* Three containers and one step that raises.
SPECIFICATION FairBootSpec
CONSTANTS
    Replicas = {r1, r2, r3}
    MaxFailures = 1
INVARIANTS
    OneAtATime
PROPERTIES
    Deployed
\* Every container may be serving.
CHECK_DEADLOCK FALSE
