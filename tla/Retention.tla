------------------------------ MODULE Retention ------------------------------
(***************************************************************************)
(* What every starting process does to the database before it serves its   *)
(* first request (create_app()): cleanup_old_data() deletes old rows in    *)
(* one transaction, then bootstrap_target_from_env() seeds the targets,    *)
(* while the workers that already run store requests, incidents, alerts    *)
(* and failed logins.                                                      *)
(*                                                                         *)
(* Incidents reference requests, alerted_ips references incidents.  The    *)
(* supported databases differ in what that means: PostgreSQL enforces      *)
(* foreign keys and never reuses an id; SQLite, as the program opens it,   *)
(* does not enforce them and gives a new row the largest id plus one.      *)
(* The clock counts days; a handler takes less than one.  The retention    *)
(* periods are whatever integers the environment gives: one of zero days   *)
(* or less deletes every row there is, also under a running handler.       *)
(***************************************************************************)
EXTENDS Integers, FiniteSets, FiniteSetsExt

CONSTANTS
    Workers,        \* processes and threads that serve requests
    IPs, NoIP,      \* client addresses, and no address
    Engines,        \* databases a deployment may use
    Policies,       \* [req, inc]: WEBSENTINEL_RETENTION_REQUESTS_DAYS and
                    \* WEBSENTINEL_RETENTION_INCIDENTS_DAYS
    Cooldown,       \* of alerts, in days
    Window,         \* in which failed logins are counted, in days
    MaxTime, MaxRequests, MaxStarts     \* bounds of the exploration

ASSUME NoIPAssumption == NoIP \notin IPs
ASSUME EnginesKnown == Engines \subseteq {"postgresql", "sqlite"}
ASSUME PoliciesType == Policies \subseteq [req : Int, inc : Int]
ASSUME PeriodsNat == Cooldown \in Nat /\ Window \in Nat \ {0}
ASSUME BoundsNat == MaxTime \in Nat /\ MaxRequests \in Nat /\ MaxStarts \in Nat

VARIABLES
    now,
    engine, policy, \* the deployment; neither ever changes
    requests,       \* table: id -> [ip, at]
    incidents,      \* table: [request, ip, at]; ip is not a column, it is
                    \* the client the incident was found for
    alerted,        \* table alerted_ips: ip -> [incident, at]; NoIP: "unknown"
    attempts,       \* table login_attempts: the timestamps
    targets,        \* has the targets table a row
    job,            \* per worker: the handler in persist_request_and_incidents()
    served,         \* number of requests stored; PostgreSQL's sequence of ids
    starts,         \* number of processes started
    lost            \* clients whose incident was refused by the database
                    \* (for the properties only)

deployment == <<engine, policy>>
tables == <<requests, incidents, alerted, attempts, targets>>
vars == <<now, deployment, tables, job, served, starts, lost>>

NoIncident == [request |-> 0, ip |-> NoIP, at |-> 0]
Idle == [step |-> "idle", incident |-> NoIncident]

At(w, step) == job[w].step = step
Go(w, step, incident) == job' = [job EXCEPT ![w] = [step |-> step, incident |-> incident]]

\* Mutant: the largest id is given out again.
NewIdFromZero == IF engine = "sqlite" THEN Max(DOMAIN requests \union {0}) ELSE served + 1

\* The id of the next row.
NewId == IF engine = "sqlite" THEN Max(DOMAIN requests \union {0}) + 1 ELSE served + 1

-----------------------------------------------------------------------------
Init ==
    /\ now = 0
    /\ engine \in Engines /\ policy \in Policies
    /\ requests = [id \in {} |-> [ip |-> NoIP, at |-> 0]]
    /\ incidents = {}
    /\ alerted = [ip \in {} |-> [incident |-> NoIncident, at |-> 0]]
    /\ attempts = {}
    /\ targets = FALSE
    /\ job = [w \in Workers |-> Idle]
    /\ served = 0 /\ starts = 0 /\ lost = {}

(* persist_request_and_incidents(): the request row is committed; when     *)
(* there is a finding its incident follows.                                *)
StoreRequest(w, ip, flagged) ==
    /\ At(w, "idle") /\ served < MaxRequests
    /\ served' = served + 1
    /\ requests' = [id \in DOMAIN requests \union {NewId} |->
                       IF id = NewId THEN [ip |-> ip, at |-> now] ELSE requests[id]]
    /\ IF flagged THEN Go(w, "incident", [request |-> NewId, ip |-> ip, at |-> now])
       ELSE UNCHANGED job
    /\ UNCHANGED <<now, deployment, incidents, alerted, attempts, targets, starts, lost>>

CodeTaken(incident) == \E i \in incidents : i.request = incident.request
RequestGone(incident) == incident.request \notin DOMAIN requests

(* The incident's code is made of the request's id and must be unique; the *)
(* request is read once more before, and PostgreSQL insists on it.         *)
StoreIncident(w) ==
    /\ At(w, "incident") /\ ~CodeTaken(job[w].incident)
    /\ engine = "sqlite" \/ ~RequestGone(job[w].incident)
    /\ LET incident == [job[w].incident EXCEPT !.at = now]
       IN  incidents' = incidents \union {incident} /\ Go(w, "alert", incident)
    /\ UNCHANGED <<now, deployment, requests, alerted, attempts, targets, served, starts, lost>>

(* The code is taken (IntegrityError), or the request was deleted since    *)
(* (ObjectDeletedError, IntegrityError): the client gets a 500.            *)
IncidentRefused(w) ==
    /\ At(w, "incident")
    /\ CodeTaken(job[w].incident) \/ RequestGone(job[w].incident)
    /\ Go(w, "idle", NoIncident)
    /\ lost' = lost \union {job[w].incident.ip}
    /\ UNCHANGED <<now, deployment, tables, served, starts>>

\* incident.request.ip if incident.request else "unknown"
Owner(incident) == IF RequestGone(incident) THEN NoIP ELSE requests[incident.request].ip

(* maybe_alert(): the mail was sent and the ip recorded (for the steps of  *)
(* the call see module Alerting), or it was not, for instance because the  *)
(* incident was deleted meanwhile, or the worker was killed.               *)
Alert(w) ==
    /\ At(w, "alert")
    /\ engine = "sqlite" \/ job[w].incident \in incidents
    /\ LET owner == Owner(job[w].incident)
       IN  /\ owner \in DOMAIN alerted => now - alerted[owner].at >= Cooldown
           /\ alerted' = [ip \in DOMAIN alerted \union {owner} |->
                  IF ip = owner THEN [incident |-> job[w].incident, at |-> now]
                  ELSE alerted[ip]]
    /\ Go(w, "idle", NoIncident)
    /\ UNCHANGED <<now, deployment, requests, incidents, attempts, targets, served, starts, lost>>

EndWithoutAlert(w) ==
    /\ ~At(w, "idle")
    /\ Go(w, "idle", NoIncident)
    /\ UNCHANGED <<now, deployment, tables, served, starts, lost>>

(* detect() or login() records a failed login.                             *)
FailedLogin ==
    /\ attempts' = attempts \union {now}
    /\ UNCHANGED <<now, deployment, requests, incidents, alerted, targets,
                   job, served, starts, lost>>

(* An admin deletes the last target.                                       *)
DeleteTargets ==
    /\ targets
    /\ targets' = FALSE
    /\ UNCHANGED <<now, deployment, requests, incidents, alerted, attempts,
                   job, served, starts, lost>>

-----------------------------------------------------------------------------
\* Is a row of that day no older than the period?
Fresh(day, period) == period > 0 /\ day >= now - period

\* Mutant: the requests are kept as long as the incidents, not as configured.
KeptRequestsAsIncidents == {id \in DOMAIN requests : Fresh(requests[id].at, policy.inc)}

KeptRequests == {id \in DOMAIN requests : Fresh(requests[id].at, policy.req)}
KeptIncidents == {i \in incidents : Fresh(i.at, policy.inc)}

\* Mutant: the shorter of the two retention periods.
ShorterPeriod == Min({policy.req, policy.inc})

\* login_attempts and alerted_ips are kept for the longer period.
LongerPeriod == Max({policy.req, policy.inc})
KeptAlerts == {ip \in DOMAIN alerted : Fresh(alerted[ip].at, LongerPeriod)}
KeptAttempts == {t \in attempts : Fresh(t, LongerPeriod)}

\* The DELETE of the incidents comes first and meets alerted_ips, also rows
\* that a later DELETE would remove; that of the requests meets the incidents.
ViolatesForeignKey ==
    \/ \E ip \in DOMAIN alerted : alerted[ip].incident \in incidents \ KeptIncidents
    \/ \E i \in KeptIncidents : i.request \in DOMAIN requests \ KeptRequests

\* Mutant: the transaction is given up on either database.
CleanupFailsAnyway == ViolatesForeignKey

CleanupFails == engine = "postgresql" /\ ViolatesForeignKey

(* create_app(): clean up, then seed the targets.  When a DELETE violates  *)
(* a foreign key the exception is swallowed without a rollback, so the     *)
(* bootstrap's query on the same session raises as well.  (Started as      *)
(* `python proxy_app.py`, the program tries the bootstrap once more; under *)
(* Gunicorn it does not.)                                                  *)
Start ==
    /\ starts < MaxStarts
    /\ starts' = starts + 1
    /\ IF CleanupFails THEN UNCHANGED tables
       ELSE /\ requests' = [id \in KeptRequests |-> requests[id]]
            /\ incidents' = KeptIncidents
            /\ alerted' = [ip \in KeptAlerts |-> alerted[ip]]
            /\ attempts' = KeptAttempts
            /\ targets' = TRUE
    /\ UNCHANGED <<now, deployment, job, served, lost>>

(* No handler that began yesterday is still running when today ends.       *)
Tick ==
    /\ now < MaxTime
    /\ \A w \in Workers : At(w, "idle") \/ job[w].incident.at = now
    /\ now' = now + 1
    /\ UNCHANGED <<deployment, tables, job, served, starts, lost>>

Next ==
    \/ Tick \/ Start \/ FailedLogin \/ DeleteTargets
    \/ \E w \in Workers :
          \/ \E ip \in IPs, flagged \in BOOLEAN : StoreRequest(w, ip, flagged)
          \/ StoreIncident(w) \/ IncidentRefused(w) \/ Alert(w) \/ EndWithoutAlert(w)

Spec == Init /\ [][Next]_vars

-----------------------------------------------------------------------------
(* Properties *)

RetentionTypeOK ==
    /\ now \in Nat /\ served \in Nat /\ starts \in Nat
    /\ engine \in Engines /\ policy \in Policies
    /\ DOMAIN requests \subseteq 1..served
    /\ \A id \in DOMAIN requests : requests[id].ip \in IPs /\ requests[id].at \in 0..now
    /\ incidents \subseteq [request : 1..served, ip : IPs, at : 0..now]
    /\ DOMAIN alerted \subseteq IPs \union {NoIP}
    /\ \A ip \in DOMAIN alerted : alerted[ip].at \in 0..now
    /\ attempts \subseteq 0..now
    /\ targets \in BOOLEAN /\ lost \subseteq IPs

(* "Delete requests older than req_days (incidents referencing them are    *)
(* already gone)" (comment in cleanup_old_data()): they are if requests    *)
(* are kept longer than incidents, and PostgreSQL refuses the clean-up     *)
(* where they are not.  By default incidents are kept three times as long, *)
(* and SQLite leaves them without the request that tells whose they are.   *)
(* A period of no days takes the request from under its handler.           *)
KeepsReferences ==
    policy.req > 0 /\ (engine = "postgresql" \/ policy.req > policy.inc)

(* There, an incident has its request, and it is a request of the client   *)
(* it was found for, whatever number of restarts and clean-ups came        *)
(* between: no id that is still referenced is given to another client.     *)
IncidentsAttributed ==
    KeepsReferences =>
        \A i \in incidents : /\ i.request \in DOMAIN requests
                             /\ requests[i.request].ip = i.ip

(* And no incident is refused because an earlier one, left behind by a     *)
(* clean-up, has its code: every attack that was found is on record.       *)
NoIncidentRefused == KeepsReferences => lost = {}

\* Deployments whose clean-up has nothing to stumble over.
CleansFreely ==
    \/ engine = "sqlite"
    \/ policy.req > policy.inc /\ DOMAIN alerted = {}

(* A start leaves no row past its retention and an empty targets table     *)
(* seeded, on SQLite always, and on PostgreSQL when requests are kept      *)
(* longer and no alert was ever recorded.                                  *)
CleanStart ==
    CleansFreely /\ starts' # starts =>
        /\ targets'
        /\ \A id \in DOMAIN requests' : Fresh(requests'[id].at, policy.req)
        /\ \A i \in incidents' : Fresh(i.at, policy.inc)
StartsClean == [][CleanStart]_vars

(* A restart resets nothing that is still in use, wherever either of the   *)
(* two periods covers that use: no ip leaves its alert cooldown early, and *)
(* no failed login that counts is forgotten.  Nothing in the code relates  *)
(* the periods; where both are shorter, such rows are deleted.             *)
Covers(use) == policy.req >= use \/ policy.inc >= use
LiveRowsStay ==
    /\ Covers(Cooldown) =>
          \A ip \in DOMAIN alerted \ DOMAIN alerted' : now - alerted[ip].at >= Cooldown
    /\ Covers(Window) =>
          \A t \in attempts \ attempts' : t < now - Window
LiveRowsKept == [][LiveRowsStay]_vars
=============================================================================
