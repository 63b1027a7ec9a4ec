\* Two requests of one client, mails on, so that every component takes part.
\* One handler may be killed.  No symmetry: a liveness property is checked.
CONSTANTS
    a = a
    w1 = w1
    w2 = w2
    Workers = {w1, w2}
    IPs = {a}
    NoIP = NoIP
    LoginPaths = {"/login"}
    Traffic <- MCSmallTraffic
    SuppressedIPs = {}
    SuppressedPaths = {}
    SuppressedTypes = {}
    Threshold = 2
    Window = 1
    AutoThreshold = 1
    AutoWindow = 1
    AutoDuration = 2
    AutoBlockEnabled = TRUE
    AlertCooldown = 2
    AlertsOn = TRUE
    MaxTime = 1
    MaxRequests = 2
    MaxBatch = 9
    MaxIncidents = 27
    MaxCrashes = 1
SPECIFICATION FairSpec
INVARIANT ForwardedAreLogged
PROPERTY ImplementsLoginAttempts
PROPERTY ImplementsBlocklist
PROPERTY ImplementsAlerting
PROPERTY HandlersFinish
