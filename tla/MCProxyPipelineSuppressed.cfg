\* The client is on the suppression list; two of its incidents reach the
\* threshold.
CONSTANTS
    a = a
    w1 = w1
    w2 = w2
    Workers = {w1, w2}
    IPs = {a}
    NoIP = NoIP
    LoginPaths = {"/login"}
    Traffic <- MCTraffic
    SuppressedIPs = {a}
    SuppressedPaths = {}
    SuppressedTypes = {}
    Threshold = 2
    Window = 1
    AutoThreshold = 2
    AutoWindow = 1
    AutoDuration = 1
    AutoBlockEnabled = TRUE
    AlertCooldown = 2
    AlertsOn = FALSE
    MaxTime = 2
    MaxRequests = 2
    MaxBatch = 9
    MaxIncidents = 27
    MaxCrashes = 0
SPECIFICATION Spec
INVARIANT SuppressedNeverBlocked
