\* A cancellation that commits after the sweep has read its list.
SPECIFICATION Spec
CONSTANTS
    Users = {u1}
    Calls = {c1, c2, c3}
PROPERTY CancelledIsKept
CHECK_DEADLOCK FALSE
