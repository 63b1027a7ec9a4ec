\* Cooldowns of one and two ticks, the first of which passes.
CONSTANTS
    Workers = {w1, w2}
    Admins = {x1, x2}
    IPs = {a}
    NoIP = NoIP
    Env <- MCEnv
    Forms <- MCForms
    CanSignIn = TRUE
    MaxTime = 1
    MaxMails = 2
SYMMETRY Symmetry
SPECIFICATION Spec
INVARIANT AlertingTypeOK
INVARIANT SilencedOnlyAfterMail
INVARIANT CooldownStarts
INVARIANT DisabledMeansQuiet
INVARIANT LoneSaveTakesEffect
INVARIANT NoIssueMeansToken
