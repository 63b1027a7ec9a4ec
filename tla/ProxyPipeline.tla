---------------------------- MODULE ProxyPipeline ----------------------------
(***************************************************************************)
(* The request handler proxy() (proxy_app.py) with everything it calls:    *)
(* blocklist check, rate limit, inspection, brute-force check, forwarding, *)
(* brute-force detection on the answer, persistence, and for every stored  *)
(* Critical/High incident an alert and an auto-block.  The same workers    *)
(* serve the dashboard, so an idle worker may also run the admin's block   *)
(* and unblock forms and the login form.                                   *)
(*                                                                         *)
(* The module composes three components over one clock: LoginAttempts,     *)
(* Blocklist and Alerting.  A call is a phase of the worker during which   *)
(* the component's own steps are taken; the phase ends when the component  *)
(* is idle again.  The rate limiter (module RateLimiter) only decides      *)
(* whether a request continues, and is a free choice here.                 *)
(***************************************************************************)
EXTENDS Findings, BlockPolicy

CONSTANTS
    LoginPaths,         \* paths that _is_login_endpoint() matches
    Traffic,            \* what clients send: [ip, path, findings, long]; what of
                        \* the request is too long for its column in PostgreSQL:
                        \* its path, its user agent or nothing
    Threshold, Window,                                      \* brute force
    AlertCooldown, AlertsOn,                                \* alerts
    MaxRequests,        \* bound on the requests and forms received
    MaxCrashes          \* no worker is killed once this many handlers have died

ASSUME WorkersFinite == IsFiniteSet(Workers)
ASSUME ThresholdPositive == Threshold \in Nat \ {0}
ASSUME WindowPositive == Window \in Nat \ {0}
ASSUME AlertSettings == AlertCooldown \in Nat /\ AlertsOn \in BOOLEAN
ASSUME RequestsNat == MaxRequests \in Nat
\* The bounds of the block list are no narrower than those of the handlers:
\* one finding of each detector and one of the brute-force check, for every
\* request.
ASSUME BatchFits == MaxBatch > Len(PreForwardDetectors)
ASSUME IncidentsFit == MaxIncidents >= MaxBatch * MaxRequests
ASSUME TrafficType ==
    \A r \in Traffic : /\ DOMAIN r = {"ip", "path", "findings", "long"}
                       /\ r.ip \in IPs /\ IsInspection(r.findings)
                       /\ r.long \in {"nothing", "agent", "path"}

VARIABLES
    now,
    attempts, lastId, bf, history, judged, flaggedAt,   \* LoginAttempts
    blocked, blk, pin,                                  \* Blocklist
    alerted, mails, alr, batch, unrecorded,             \* Alerting
    job,            \* per worker: the handler it runs
    received,       \* number of requests received
    requests,       \* rows of requests
    incidents,      \* rows of incidents
    forwarded,      \* numbers of the requests sent upstream (for properties)
    aborted,        \* numbers of the requests whose handler was killed
                    \* (likewise)
    unstorable,     \* numbers of the requests with a row refused (likewise)
    followed,       \* numbers of the requests with a finished auto-block call
                    \* (likewise)
    blockSeen,      \* per ip: when it last was blocked or found blocked (likewise)
    leaked          \* per ip: requests forwarded since its last block (likewise)

laVars == <<attempts, lastId, bf, history, judged, flaggedAt>>
blVars == <<blocked, blk, pin>>
alVars == <<alerted, mails, alr, batch, unrecorded>>
rows == <<requests, incidents>>
ghosts == <<forwarded, aborted, unstorable, followed, blockSeen, leaked>>
vars == <<now, laVars, blVars, alVars, job, received, rows, ghosts>>

\* Per ip: created_at of its Critical and High incidents, by id (Incident
\* joined with Request).
IsSevereOf(a, i) == i.ip = a /\ IsSevere(i.finding)
Severe ==
    [a \in IPs |->
        [k \in {j \in DOMAIN incidents : IsSevereOf(a, incidents[j])} |-> incidents[k].at]]

LA == INSTANCE LoginAttempts WITH MaxAttempts <- MaxRequests
BL == INSTANCE Blocklist WITH severe <- Severe, lastIncident <- Len(incidents)

\* Nobody changes the settings, and a valid token is stored (~TRUE: TLC takes
\* no FALSE in an UNCHANGED).
AL == INSTANCE Alerting WITH
          MaxMails <- MaxIncidents,
          Env <- [enabled |-> IF AlertsOn THEN "true" ELSE "false",
                  cooldown |-> AlertCooldown, email |-> "soc"],
          Admins <- {}, Forms <- {}, CanSignIn <- FALSE,
          settings <- [key \in {} |-> ""], form <- [admin \in {} |-> ""],
          saved <- [key \in {} |-> ""],
          token <- "valid", console <- "idle", torn <- ~TRUE, late <- 0

Phases == {"idle", "preblock", "precount", "forward", "upstream",
           "detect", "persist", "incidents", "followup", "alert", "autoblock",
           "blocking", "admin", "login"}
NoRequest == [ip |-> NoIP, path |-> "", findings |-> <<>>, long |-> "nothing"]

\* A handler: its phase, the request and its number, the findings so far, the
\* arguments of persist, and how many severe incidents are still to follow up.
Job(phase, n, r) ==
    [phase |-> phase, n |-> n, req |-> r, found |-> r.findings,
     status |-> "none", blocked |-> FALSE, todo |-> 0]
Idle == Job("idle", 0, NoRequest)

In(w, phase) == job[w].phase = phase
Set(w, j) == job' = [job EXCEPT ![w] = j]
To(w, phase) == Set(w, [job[w] EXCEPT !.phase = phase])
ip(w) == job[w].req.ip
IsLogin(w) == job[w].req.path \in LoginPaths
Fits(w) == job[w].req.long = "nothing"
FitsAttempt(w) == job[w].req.long # "path"      \* login_attempts keeps no agent

-----------------------------------------------------------------------------
Init ==
    /\ requests = {} /\ incidents = <<>>
    /\ LA!Init /\ BL!Init /\ AL!Init
    /\ job = [w \in Workers |-> Idle]
    /\ received = 0
    /\ forwarded = {} /\ aborted = {} /\ unstorable = {} /\ followed = {}
    /\ blockSeen = [a \in IPs |-> -1]
    /\ leaked = [a \in IPs |-> {}]

\* Mutant: is_blocked() is not consulted.
ReceiveUnchecked(w, r) ==
    /\ In(w, "idle") /\ received < MaxRequests
    /\ received' = received + 1
    /\ Set(w, Job("preblock", received + 1, r))
    /\ UNCHANGED <<now, laVars, blVars, alVars, rows, ghosts>>

\* Mutant: the number of the request is not taken.
ReceiveUncounted(w, r) ==
    /\ In(w, "idle") /\ received < MaxRequests
    /\ IF BL!IsBlocked(r.ip) THEN UNCHANGED job
       ELSE Set(w, Job("preblock", received + 1, r))
    /\ UNCHANGED <<now, laVars, blVars, alVars, received, rows, ghosts>>

(* A request arrives: is_blocked() first; a blocked ip gets 403, and       *)
(* nothing is stored.                                                      *)
Receive(w, r) ==
    /\ In(w, "idle") /\ received < MaxRequests
    /\ received' = received + 1
    /\ IF BL!IsBlocked(r.ip) THEN UNCHANGED job
       ELSE Set(w, Job("preblock", received + 1, r))
    /\ UNCHANGED <<now, laVars, blVars, alVars, rows, ghosts>>

(* is_rate_limited(): 429, and nothing is stored. *)
RateLimited(w) ==
    /\ In(w, "preblock")
    /\ Set(w, Idle)
    /\ UNCHANGED <<now, laVars, blVars, alVars, received, rows, ghosts>>

\* Mutant: the refused request is persisted as if it had been forwarded.
RefuseUnmarked(w, offender) ==
    LET old == job[w].found
        blocking == ShouldBlock(ip(w), job[w].req.path, old)
    IN  IF blocking \/ offender
        THEN Set(w, [job[w] EXCEPT
                       !.phase = "persist", !.status = "403",
                       !.found = IF blocking THEN old ELSE Append(old, RepeatOffender)])
        ELSE To(w, "forward")

\* The request is refused for its findings, or as a repeat offender's.
Refuse(w, offender) ==
    LET old == job[w].found
        blocking == ShouldBlock(ip(w), job[w].req.path, old)
    IN  IF blocking \/ offender
        THEN Set(w, [job[w] EXCEPT
                       !.phase = "persist", !.status = "403", !.blocked = TRUE,
                       !.found = IF blocking THEN old ELSE Append(old, RepeatOffender)])
        ELSE To(w, "forward")

\* Mutant: the attempts are not counted before the request is forwarded.
PreblockSkipped(w) ==
    /\ In(w, "preblock")
    /\ Refuse(w, FALSE)
    /\ bf' = IF IsLogin(w) THEN [bf EXCEPT ![w] = LA!Call("cleared", ip(w), 0)] ELSE bf
    /\ UNCHANGED <<now, attempts, lastId, history, judged, flaggedAt,
                   blVars, alVars, received, rows, ghosts>>

(* Inspection, then should_preblock(), which is False at once when the     *)
(* path is no login endpoint and otherwise cleans up before it counts.     *)
Preblock(w) ==
    /\ In(w, "preblock")
    /\ IF IsLogin(w)
       THEN To(w, "precount") /\ LA!PreblockCleanup(w, ip(w))
       ELSE Refuse(w, FALSE) /\ UNCHANGED laVars
    /\ UNCHANGED <<now, blVars, alVars, received, rows, ghosts>>

PreblockCount(w) ==
    /\ In(w, "precount")
    /\ LA!PreblockCount(w)
    /\ Refuse(w, bf'[w].step = "idle")
    /\ UNCHANGED <<now, blVars, alVars, received, rows, ghosts>>

Forward(w) ==
    /\ In(w, "forward")
    /\ To(w, "upstream")
    /\ forwarded' = forwarded \union {job[w].n}
    /\ leaked' = [leaked EXCEPT ![ip(w)] = @ \union {job[w].n}]
    /\ UNCHANGED <<now, laVars, blVars, alVars, received, rows,
                   aborted, unstorable, followed, blockSeen>>

\* detect() has nothing to record for a request that was cleared.
SettleLogin(w) == IF bf[w].step = "cleared" THEN LA!Settle(w) ELSE UNCHANGED laVars

\* Mutant: the error page is returned before anything is persisted.
UpstreamUnavailableUnlogged(w) ==
    /\ In(w, "upstream")
    /\ Set(w, Idle)
    /\ SettleLogin(w)
    /\ UNCHANGED <<now, blVars, alVars, received, rows, ghosts>>

(* RequestException: 502, no post-response detection. *)
UpstreamUnavailable(w) ==
    /\ In(w, "upstream")
    /\ Set(w, [job[w] EXCEPT !.phase = "persist", !.status = "502"])
    /\ SettleLogin(w)
    /\ UNCHANGED <<now, blVars, alVars, received, rows, ghosts>>

(* The site may answer 403 itself; on a login path that is a failed login. *)
UpstreamAnswers(w) ==
    /\ In(w, "upstream")
    /\ \E status \in IF IsLogin(w) THEN {"200"} ELSE {"200", "403"} :
          Set(w, [job[w] EXCEPT !.phase = "persist", !.status = status])
    /\ SettleLogin(w)
    /\ UNCHANGED <<now, blVars, alVars, received, rows, ghosts>>

(* Upstream answers a login request with 401/403: detect() records it ...  *)
LoginRejected(w) ==
    /\ In(w, "upstream") /\ IsLogin(w) /\ FitsAttempt(w)
    /\ Set(w, [job[w] EXCEPT !.phase = "detect", !.status = "403"])
    /\ LA!DetectInsert(w)
    /\ UNCHANGED <<now, blVars, alVars, received, rows, ghosts>>

(* ... or the database refuses the row, and the request ends with a 500,   *)
(* neither counted nor logged ...                                          *)
LoginRefused(w) ==
    /\ In(w, "upstream") /\ IsLogin(w) /\ ~FitsAttempt(w)
    /\ Set(w, Idle)
    /\ LA!DetectRefused(w)
    /\ unstorable' = unstorable \union {job[w].n}
    /\ UNCHANGED <<now, blVars, alVars, received, rows,
                   forwarded, aborted, followed, blockSeen, leaked>>

(* ... cleans up ...                                                       *)
DetectCleanup(w) ==
    /\ In(w, "detect") /\ LA!DetectCleanup(w)
    /\ UNCHANGED <<now, blVars, alVars, job, received, rows, ghosts>>

(* ... and counts; a finding joins those of the request.                   *)
DetectCount(w) ==
    /\ In(w, "detect") /\ LA!DetectCount(w)
    /\ Set(w, [job[w] EXCEPT
                 !.phase = "persist",
                 !.found = IF LA!CountRecent(ip(w)) >= Threshold
                           THEN Append(@, BruteForceDetected) ELSE @])
    /\ UNCHANGED <<now, blVars, alVars, received, rows, ghosts>>

\* Mutant: the incidents are followed up before they are stored.
PersistRequestOnly(w) ==
    /\ In(w, "persist") /\ Fits(w)
    /\ requests' = requests \union
          {[id |-> job[w].n, ip |-> ip(w), status |-> job[w].status]}
    /\ Set(w, IF job[w].found = <<>> THEN Idle
              ELSE [job[w] EXCEPT !.phase = "followup", !.todo = Len(job[w].found)])
    /\ IF job[w].blocked THEN SettleLogin(w) ELSE UNCHANGED laVars
    /\ UNCHANGED <<now, blVars, alVars, received, incidents, ghosts>>

(* persist_request_and_incidents(): the request row is committed first.    *)
PersistRequest(w) ==
    /\ In(w, "persist") /\ Fits(w)
    /\ requests' = requests \union
          {[id |-> job[w].n, ip |-> ip(w), status |-> job[w].status]}
    /\ IF job[w].found = <<>> THEN Set(w, Idle) ELSE To(w, "incidents")
    /\ IF job[w].blocked THEN SettleLogin(w) ELSE UNCHANGED laVars
    /\ UNCHANGED <<now, blVars, alVars, received, incidents, ghosts>>

\* One row per finding, in the order of the findings.
NewRows(w) ==
    [k \in DOMAIN job[w].found |->
        [n |-> job[w].n, ip |-> ip(w), at |-> now, finding |-> job[w].found[k],
         status |-> IF job[w].blocked THEN "Blocked" ELSE "Open"]]

(* All its incidents are committed together; the severe ones are followed  *)
(* up one by one.                                                          *)
PersistIncidents(w) ==
    /\ In(w, "incidents")
    /\ incidents' = incidents \o NewRows(w)
    /\ LET severe == Cardinality({k \in DOMAIN job[w].found : IsSevere(job[w].found[k])})
       IN  Set(w, IF severe = 0 THEN Idle
                  ELSE [job[w] EXCEPT !.phase = "followup", !.todo = severe])
    /\ UNCHANGED <<now, laVars, blVars, alVars, received, requests, ghosts>>

\* Mutant: the call skips the look-up of the ip.
StartAlertAlways(w) ==
    /\ In(w, "followup")
    /\ alr' = [alr EXCEPT ![w] = AL!Call("send", ip(w), FALSE, 0)]
    /\ To(w, "alert")
    /\ UNCHANGED <<now, alerted, mails, batch, unrecorded, laVars, blVars, received, rows, ghosts>>

(* maybe_alert(incident) *)
StartAlert(w) ==
    /\ In(w, "followup")
    /\ AL!AlertCheck(w, ip(w))
    /\ To(w, IF alr'[w].step = "idle" THEN "autoblock" ELSE "alert")
    /\ UNCHANGED <<now, laVars, blVars, received, rows, ghosts>>

ContinueAlert(w) ==
    /\ In(w, "alert")
    /\ \/ AL!ReadRow(w) \/ AL!ReadCooldown(w) \/ AL!ReadAddress(w)
       \/ AL!SendMail(w) \/ AL!SendFails(w)
       \/ AL!RecordSelect(w) \/ AL!RecordCommit(w) \/ AL!RecordFails(w)
    /\ To(w, IF alr'[w].step = "idle" THEN "autoblock" ELSE "alert")
    /\ UNCHANGED <<now, laVars, blVars, received, rows, ghosts>>

\* Mutant: the incidents left to follow up are not counted down.
AfterBlockStepAgain(w) ==
    IF blk'[w].step # "idle" THEN To(w, "blocking") /\ UNCHANGED followed
    ELSE followed' = followed \union {job[w].n} /\ To(w, "followup")

\* The call for one incident is over when the component is idle again.
AfterBlockStep(w) ==
    IF blk'[w].step # "idle" THEN To(w, "blocking") /\ UNCHANGED followed
    ELSE /\ followed' = followed \union {job[w].n}
         /\ Set(w, IF job[w].todo = 1 THEN Idle
                   ELSE [job[w] EXCEPT !.phase = "followup", !.todo = @ - 1])

\* A committed block starts a new count of leaked requests.
NoteBlock(a) ==
    IF blocked' = blocked THEN UNCHANGED <<blockSeen, leaked>>
    ELSE /\ blockSeen' = [blockSeen EXCEPT ![a] = now]
         /\ leaked' = [leaked EXCEPT ![a] = {}]

(* maybe_auto_block(ip, force=blocked) *)
StartAutoBlock(w) ==
    /\ In(w, "autoblock")
    /\ UNCHANGED <<now, laVars, alVars, received, rows, forwarded, aborted, unstorable, leaked>>
    /\ BL!AutoBlockCheck(w, ip(w), job[w].blocked)
    /\ AfterBlockStep(w)
    /\ blockSeen' = IF BL!IsBlocked(ip(w)) THEN [blockSeen EXCEPT ![ip(w)] = now]
                    ELSE blockSeen

ContinueAutoBlock(w) ==
    /\ In(w, "blocking")
    /\ UNCHANGED <<now, laVars, alVars, received, rows, forwarded, aborted, unstorable>>
    /\ BL!AutoBlockCount(w) \/ BL!BlockSelect(w) \/ BL!BlockCommit(w) \/ BL!BlockFails(w)
    /\ AfterBlockStep(w)
    /\ NoteBlock(ip(w))

-----------------------------------------------------------------------------
(* The dashboard, served by the same workers *)

ManualBlock(w, a) ==
    /\ In(w, "idle") /\ received < MaxRequests
    /\ received' = received + 1
    /\ UNCHANGED <<now, laVars, alVars, rows, ghosts>>
    /\ BL!ManualBlock(w, a)
    /\ Set(w, Job("admin", 0, NoRequest))

ContinueManualBlock(w) ==
    /\ In(w, "admin")
    /\ UNCHANGED <<now, laVars, alVars, received, rows, forwarded, aborted, unstorable, followed>>
    /\ BL!BlockSelect(w) \/ BL!BlockCommit(w) \/ BL!BlockFails(w)
    /\ IF blk'[w].step = "idle" THEN Set(w, Idle) ELSE UNCHANGED job
    /\ NoteBlock(blk[w].ip)

Unblock(w, a) ==
    /\ In(w, "idle") /\ received < MaxRequests
    /\ received' = received + 1
    /\ UNCHANGED <<now, laVars, alVars, job, rows, ghosts>>
    /\ BL!Unblock(w, a)

LoginForm(w, a) ==
    /\ In(w, "idle") /\ received < MaxRequests
    /\ received' = received + 1
    /\ LA!LoginCount(w, a)
    /\ Set(w, Job("login", received + 1, NoRequest))
    /\ UNCHANGED <<now, blVars, alVars, rows, ghosts>>

Password(w) ==
    /\ In(w, "login")
    /\ LA!LoginSucceeds(w) \/ LA!LoginFails(w)
    /\ Set(w, Idle)
    /\ UNCHANGED <<now, blVars, alVars, received, rows, ghosts>>

(* A page that only reads (dashboard_home(), api_stats(), ...). *)
ReadOnlyPage(w) == In(w, "idle") /\ UNCHANGED vars

-----------------------------------------------------------------------------
(* A handler ends early.  Its session is discarded; what was committed     *)
(* stays.                                                                  *)
EndEarly(w) ==
    /\ UNCHANGED <<now, received, rows, forwarded, followed, blockSeen, leaked>>
    /\ Set(w, Idle)
    /\ IF bf[w].step = "idle" THEN UNCHANGED laVars ELSE LA!Crash(w)
    /\ IF blk[w].step = "idle" THEN UNCHANGED blVars ELSE BL!Abandon(w)
    /\ IF alr[w].step = "idle" THEN UNCHANGED alVars ELSE AL!Abandon(w)

(* A failed commit inside a call becomes a 500. *)
InternalError(w) ==
    /\ blk[w].step = "error" \/ alr[w].step = "error"
    /\ EndEarly(w)
    /\ UNCHANGED <<aborted, unstorable>>

(* So does a request row that the database refuses, whatever was decided   *)
(* (on PostgreSQL, which alone minds the length).                          *)
PersistFails(w) ==
    /\ In(w, "persist") /\ ~Fits(w)
    /\ EndEarly(w)
    /\ unstorable' = unstorable \union {job[w].n}
    /\ UNCHANGED aborted

(* The process is killed (Gunicorn's worker timeout, a deployment). *)
Crash(w) ==
    /\ ~In(w, "idle") /\ Cardinality(aborted) < MaxCrashes
    /\ EndEarly(w)
    /\ aborted' = aborted \union {job[w].n}
    /\ UNCHANGED unstorable

Tick ==
    /\ now < MaxTime
    /\ now' = now + 1
    /\ UNCHANGED <<laVars, blVars, alVars, job, received, rows, ghosts>>

Progress(w) ==
    \/ RateLimited(w)
    \/ Preblock(w) \/ PreblockCount(w)
    \/ Forward(w)
    \/ UpstreamUnavailable(w) \/ UpstreamAnswers(w)
    \/ LoginRejected(w) \/ LoginRefused(w) \/ DetectCleanup(w) \/ DetectCount(w)
    \/ PersistRequest(w) \/ PersistFails(w) \/ PersistIncidents(w)
    \/ StartAlert(w) \/ ContinueAlert(w)
    \/ StartAutoBlock(w) \/ ContinueAutoBlock(w)
    \/ ContinueManualBlock(w) \/ Password(w)
    \/ InternalError(w)

Arrive(w) ==
    \/ \E r \in Traffic : Receive(w, r)
    \/ \E a \in IPs : ManualBlock(w, a) \/ Unblock(w, a) \/ LoginForm(w, a)
    \/ ReadOnlyPage(w)

Next == Tick \/ \E w \in Workers : Arrive(w) \/ Progress(w) \/ Crash(w)

Spec == Init /\ [][Next]_vars

(* A handler that can go on does: the operating system schedules every     *)
(* worker, the upstream request has a timeout (10 s), the database answers *)
(* and the Gmail client holds a valid token.                               *)
FairSpec == Spec /\ \A w \in Workers : WF_vars(Progress(w))

-----------------------------------------------------------------------------
(* Properties *)

PipelineTypeOK ==
    /\ \A w \in Workers :
          /\ DOMAIN job[w] = {"phase", "n", "req", "found", "status", "blocked", "todo"}
          /\ job[w].phase \in Phases
          /\ job[w].found \in Seq(AllFindings)
          /\ job[w].n \in 0..received
    /\ received \in 0..MaxRequests
    /\ LA!TypeOK /\ BL!BlocklistTypeOK /\ AL!AlertingTypeOK

(* What the log says of an attack is what happened to it: an incident is   *)
(* "Blocked" exactly when its request never went upstream, and then the    *)
(* request is logged with 403; it is "Open" when it was sent on, whatever  *)
(* mix of detectors, brute force check, upstream failure and crash led     *)
(* there.                                                                  *)
IncidentsTruthful ==
    \A k \in DOMAIN incidents : LET i == incidents[k] IN
        /\ i.status = "Blocked" <=> i.n \notin forwarded
        /\ \E r \in requests : r.id = i.n /\ r.ip = i.ip
                                /\ (i.status = "Blocked" => r.status = "403")

(* Nothing reaches the protected site unrecorded: a forwarded request has  *)
(* its row once its handler is over, unless the handler was killed first   *)
(* or the database refuses the row, or that of the failed login before it; *)
(* no failure of a call it makes on the way, or of another worker, can     *)
(* lose it.                                                                *)
ForwardedAreLogged ==
    \A n \in forwarded :
        \/ \E r \in requests : r.id = n
        \/ \E w \in Workers : job[w].n = n
        \/ n \in aborted \union unstorable

(* No block that is due is lost between concurrent handlers: when the      *)
(* auto-block call for a request is over, and the request was refused or   *)
(* the incidents up to it that are still in the window reach the           *)
(* threshold, the ip has been blocked since those incidents were stored.   *)
DueBlocksHappen ==
    \A k \in DOMAIN incidents : LET i == incidents[k] IN
        /\ AutoBlockEnabled /\ i.n \in followed /\ IsSevere(i.finding)
        /\ \/ i.status = "Blocked"
           \/ Cardinality({j \in 1..k : IsSevereOf(i.ip, incidents[j])
                                         /\ incidents[j].at >= now - AutoWindow})
                  >= AutoThreshold
        => blockSeen[i.ip] >= i.at

(* Blocking takes effect at the next check: while an ip is blocked, the    *)
(* requests that still reach upstream are those that had passed            *)
(* is_blocked() before the block was committed, at most one for each of    *)
(* the other workers.                                                      *)
PastCheck(a) ==
    {w \in Workers : ip(w) = a /\ job[w].phase \in {"preblock", "precount", "forward"}}
LeakBounded ==
    \A a \in IPs :
        BL!IsBlocked(a) =>
            Cardinality(leaked[a]) + Cardinality(PastCheck(a)) < Cardinality(Workers)

(* In the composed system too an admin's block lasts until it is lifted,   *)
(* unless an auto-block of that ip was under way when it was committed.    *)
LoneManualBlockSticks == BL!LoneManualBlockSticks

(* "ips: list of IP addresses/prefixes to never block" (suppression config *)
(* loader in proxy_app.py).  Only _should_block() looks at it: the severe  *)
(* incidents of a suppressed ip are forwarded and stored, count toward the *)
(* threshold of maybe_auto_block(), and the ip is blocked like any other.  *)
SuppressedNeverBlocked ==
    \A a \in SuppressedIPs : pin[a] = "none" => ~BL!IsBlocked(a)

(* The handler uses each component the way the component's own module      *)
(* assumes: the composed system implements the three of them.              *)
ImplementsLoginAttempts == LA!Spec
ImplementsBlocklist == BL!Spec
ImplementsAlerting == AL!Spec

(* Every request is answered: whatever the other workers commit meanwhile, *)
(* a handler reaches its end, if only as a 500.                            *)
HandlersFinish ==
    \A w \in Workers : job[w].phase # "idle" ~> job[w].phase = "idle"
=============================================================================
