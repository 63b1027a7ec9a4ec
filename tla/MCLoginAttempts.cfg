\* Two workers, two clients; threshold 2 and window 1 so that three attempts
\* can overflow the threshold and a clock of 3 lets whole windows pass.
CONSTANTS
    Workers = {w1, w2}
    IPs = {a, b}
    NoIP = NoIP
    Threshold = 2
    Window = 1
    MaxTime = 3
    MaxAttempts = 3
SYMMETRY Symmetry
SPECIFICATION Spec
INVARIANT TypeOK
INVARIANT UpstreamFailuresBounded
INVARIANT DashboardGuessesBounded
INVARIANT BurstFlagged
