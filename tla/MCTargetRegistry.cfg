CONSTANTS
    Admins = {a1, a2}
    Starters = {p1, p2}
    Ids = {1, 2}
    Urls = {"env", "other"}
    EnvUrl = "env"
    Overlap = FALSE
SPECIFICATION Spec
INVARIANT TypeOK
INVARIANT AtMostOneActive
PROPERTY OnlyDeletionDeactivates
PROPERTY FallbackIsDeliberate
