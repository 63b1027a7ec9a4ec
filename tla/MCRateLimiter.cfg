CONSTANTS
    Threads = {t1, t2}
    IPs = {a, b}
    NoIP = NoIP
    Limit = 2
    WindowSeconds = 1
    TicksPerSecond = 2
    MaxTracked = 1
    MaxTime = 4
    MaxHits = 5
SYMMETRY Symmetry
SPECIFICATION Spec
INVARIANT TypeOK
INVARIANT AdmissionBounded
INVARIANT RejectionsJustified
INVARIANT RetryAfterSane
