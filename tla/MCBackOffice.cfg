\* Two administrators, one ticket and two requests at a time.
SPECIFICATION Spec
SYMMETRY Interchangeable
CONSTANTS
    Admins = {a1, a2}
    Flags = {"is_staff", "is_active"}
    Requests = {q1, q2}
CONSTRAINT Smooth
INVARIANTS
    StaffRemains
    AuditTells
    TicketFollows
\* No administrator may be left, and a closed ticket takes no message.
CHECK_DEADLOCK FALSE
