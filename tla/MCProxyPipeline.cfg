\* Three requests or forms of two workers; blocks of one tick expire and are
\* renewed.  Mails and killed workers are left to MCProxyPipelineRefines.
CONSTANTS
    a = a
    w1 = w1
    w2 = w2
    Workers = {w1, w2}
    IPs = {a}
    NoIP = NoIP
    LoginPaths = {"/login"}
    Traffic <- MCTraffic
    SuppressedIPs = {}
    SuppressedPaths = {}
    SuppressedTypes = {}
    Threshold = 2
    Window = 1
    AutoThreshold = 2
    AutoWindow = 1
    AutoDuration = 1
    AutoBlockEnabled = TRUE
    AlertCooldown = 2
    AlertsOn = FALSE
    MaxTime = 2
    MaxRequests = 3
    MaxBatch = 9
    MaxIncidents = 27
    MaxCrashes = 0
SYMMETRY Symmetry
SPECIFICATION Spec
INVARIANT PipelineTypeOK
INVARIANT IncidentsTruthful
INVARIANT DueBlocksHappen
INVARIANT LeakBounded
INVARIANT LoneManualBlockSticks
