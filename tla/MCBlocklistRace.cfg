CONSTANTS
    Workers = {w1, w2}
    IPs = {a}
    NoIP = NoIP
    AutoThreshold = 2
    AutoWindow = 1
    AutoDuration = 1
    AutoBlockEnabled = TRUE
    MaxTime = 2
    MaxBatch = 2
    MaxIncidents = 2
SYMMETRY Symmetry
SPECIFICATION Spec
INVARIANT ManualBlockSticks
