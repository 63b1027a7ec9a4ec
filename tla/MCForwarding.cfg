\* Texts of up to six characters, encoded up to four times.
CONSTANTS
    Upper <- MCUpper
    MaxRounds = 3
    Requests <- MCRequests
    Origins <- MCOrigins
    Targets <- MCTargets
    Fronts = {TRUE, FALSE}
SPECIFICATION Spec
INVARIANT DetectorsSeeTheText
INVARIANT NormalFormStable
INVARIANT RequestSurvives
INVARIANT OneIdentity
INVARIANT RedirectsStayBehindProxy
