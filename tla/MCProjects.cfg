\* One project and a second one to create or duplicate, one annotation or link, two
\* requests in flight, two names for thumbnails.
SPECIFICATION Spec
SYMMETRY Interchangeable
CONSTANTS
    Ids = {p1, p2}
    First = p1
    Children = {c1}
    Requests = {q1, q2}
    Names = {n1, n2}
    MaxVersion = 2
    MaxMishaps = 1
INVARIANTS
    TotalCounted
    ProjectHasScene
    ThumbnailShown
PROPERTIES
    VersionNeverBack
\* Every project may be gone.
CHECK_DEADLOCK FALSE
