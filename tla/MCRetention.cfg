\* Days 0..4 with rows kept for none, one or two days; two requests and two starts.
CONSTANTS
    Workers = {w1, w2}
    IPs = {a, b}
    NoIP = NoIP
    Engines = {"postgresql", "sqlite"}
    Policies <- MCPolicies
    Cooldown = 2
    Window = 1
    MaxTime = 4
    MaxRequests = 2
    MaxStarts = 2
SYMMETRY Symmetry
SPECIFICATION Spec
INVARIANT RetentionTypeOK
INVARIANT IncidentsAttributed
INVARIANT NoIncidentRefused
PROPERTY StartsClean
PROPERTY LiveRowsKept
