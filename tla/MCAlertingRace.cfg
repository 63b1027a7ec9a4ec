CONSTANTS
    Workers = {w1, w2}
    Admins = {}
    IPs = {a}
    NoIP = NoIP
    Env <- MCEnv
    Forms = {}
    CanSignIn = FALSE
    MaxTime = 2
    MaxMails = 2
SYMMETRY Symmetry
SPECIFICATION Spec
INVARIANT OneAlertPerCooldown
