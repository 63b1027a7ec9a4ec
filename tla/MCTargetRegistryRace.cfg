CONSTANTS
    Admins = {a1}
    Starters = {p1}
    Ids = {1, 2}
    Urls = {"env", "other"}
    EnvUrl = "env"
    Overlap = TRUE
SPECIFICATION Spec
INVARIANT AtMostOneActive
