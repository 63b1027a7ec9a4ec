--------------------------- MODULE RetentionProofs ---------------------------
(***************************************************************************)
(* Theorems about Retention, for either database, any number of workers,   *)
(* clients and restarts and every retention policy.                        *)
(***************************************************************************)
EXTENDS Retention, WellFoundedInduction, TLAPS

(* A handler that is under way stored its request today or yesterday.      *)
Record == [request : 1..served, ip : IPs, at : 0..now]
JobsOK ==
    /\ job \in [Workers -> [step : {"idle", "incident", "alert"},
                            incident : Record \union {NoIncident}]]
    /\ \A w \in Workers :
          ~At(w, "idle") => job[w].incident \in Record /\ job[w].incident.at >= now - 1

(* An incident's request is a request of its client, stored the same day   *)
(* or the day before, so that it outlives the incident ...                 *)
StoredFor(i, day) ==
    /\ i.request \in DOMAIN requests
    /\ requests[i.request].ip = i.ip /\ requests[i.request].at >= day
Attributed == \A i \in incidents : StoredFor(i, i.at - 1)

(* ... and the incident a handler is about to store is the only one of its *)
(* request.                                                                *)
OneIncident ==
    \A w \in Workers :
        At(w, "incident") =>
            /\ StoredFor(job[w].incident, job[w].incident.at)
            /\ ~CodeTaken(job[w].incident)
            /\ \A v \in Workers \ {w} :
                  At(v, "incident") => job[v].incident.request # job[w].incident.request

RetentionInv ==
    /\ RetentionTypeOK /\ JobsOK
    /\ KeepsReferences => Attributed /\ OneIncident /\ lost = {}

-----------------------------------------------------------------------------
(* A set of naturals that is not empty has a least element ...             *)
LEMMA LeastNumber ==
    ASSUME NEW T \in SUBSET Nat, T # {}
    PROVE  \E x \in T : \A y \in T : x <= y
<1>1. PICK x \in T : \A y \in T : ~(<<y, x>> \in OpToRel(<, Nat))
  BY WFMin, NatLessThanWellFounded
<1>2. \A y \in T : ~(y < x)
  BY <1>1 DEF OpToRel
<1> QED BY <1>2

(* ... and a greatest one when it is bounded.                              *)
LEMMA GreatestNumber ==
    ASSUME NEW n \in Nat, NEW T \in SUBSET (0..n), T # {}
    PROVE  Max(T) \in T /\ \A y \in T : y <= Max(T)
<1> DEFINE D == {d \in Nat : n - d \in T}
<1>1. D \in SUBSET Nat /\ D # {}
  <2>1. PICK y \in T : TRUE
    OBVIOUS
  <2>2. n - y \in Nat /\ n - (n - y) = y
    BY <2>1
  <2> QED BY <2>1, <2>2
<1>2. PICK d \in D : \A e \in D : d <= e
  BY <1>1, LeastNumber
<1>3. n - d \in T /\ \A y \in T : n - d >= y
  <2>1. ASSUME NEW y \in T PROVE n - d >= y
    <3>1. y \in 0..n /\ n - y \in Nat /\ n - (n - y) = y
      OBVIOUS
    <3>2. d <= n - y
      BY <1>2, <3>1
    <3> QED BY <1>2, <3>1, <3>2
  <2> QED BY <1>2, <2>1
<1>4. Max(T) \in T /\ \A y \in T : Max(T) >= y
  BY <1>3 DEF Max
<1>5. \A y \in T : y \in Nat
  OBVIOUS
<1> QED BY <1>4, <1>5

(* The longer of two periods.                                              *)
LEMMA MaxOfTwo ==
    ASSUME NEW a \in Int, NEW b \in Int
    PROVE  Max({a, b}) \in Int /\ a <= Max({a, b}) /\ b <= Max({a, b})
<1>1. PICK m \in {a, b} : m >= a /\ m >= b
  OBVIOUS
<1>2. Max({a, b}) \in {a, b} /\ \A y \in {a, b} : Max({a, b}) >= y
  BY <1>1 DEF Max
<1> QED BY <1>2

(* No request has the id that is given out next, on either database.       *)
LEMMA NewIdFresh ==
    ASSUME RetentionTypeOK
    PROVE  NewId \in 1..(served + 1) /\ NewId \notin DOMAIN requests
<1> DEFINE T == DOMAIN requests \union {0}
<1>1. served \in Nat /\ DOMAIN requests \subseteq 1..served
  BY DEF RetentionTypeOK
<1>2. T \in SUBSET (0..served) /\ T # {}
  BY <1>1
<1> HIDE DEF T
<1>3. Max(T) \in T /\ Max(T) \in 0..served /\ \A y \in T : y <= Max(T)
  BY <1>1, <1>2, GreatestNumber
<1>4. NewId = Max(T) + 1 \/ NewId = served + 1
  BY DEF NewId, T
<1>5. Max(T) + 1 \notin T /\ served + 1 \notin T
  <2>1. \A y \in T : y \in Nat /\ y <= served
    BY <1>1, <1>2
  <2> QED BY <1>1, <1>3, <2>1
<1>6. NewId \notin T /\ NewId \in 1..(served + 1)
  BY <1>1, <1>3, <1>4, <1>5
<1> QED BY <1>6 DEF T

(* What a policy is, and what its longer period covers.                    *)
LEMMA PolicyFacts ==
    ASSUME RetentionTypeOK
    PROVE  /\ policy.req \in Int /\ policy.inc \in Int /\ LongerPeriod \in Int
           /\ policy.req <= LongerPeriod /\ policy.inc <= LongerPeriod
           /\ Cooldown \in Nat /\ Window \in Nat /\ Window > 0
<1>1. policy \in Policies /\ policy.req \in Int /\ policy.inc \in Int
  BY PoliciesType DEF RetentionTypeOK
<1>2. PICK a \in Int, b \in Int : a = policy.req /\ b = policy.inc
  BY <1>1
<1>3. Max({a, b}) \in Int /\ a <= Max({a, b}) /\ b <= Max({a, b})
  BY MaxOfTwo
<1>4. LongerPeriod = Max({a, b})
  BY <1>2 DEF LongerPeriod
<1> QED BY <1>1, <1>2, <1>3, <1>4, PeriodsNat

-----------------------------------------------------------------------------
(* A handler's own step: what it does to its job.                          *)
LEMMA JobStep ==
    ASSUME JobsOK, NEW w \in Workers, NEW step \in {"idle", "incident", "alert"}, NEW i,
           Go(w, step, i), now' = now, served \in Nat, served' \in Nat, served <= served',
           step = "idle" => i = NoIncident,
           step # "idle" => i \in Record' /\ i.at >= now - 1
    PROVE  /\ JobsOK'
           /\ job'[w].step = step /\ job'[w].incident = i
           /\ \A v \in Workers : v # w => job'[v] = job[v]
<1>1. /\ job'[w] = [step |-> step, incident |-> i] /\ DOMAIN job' = Workers
      /\ \A v \in Workers : v # w => job'[v] = job[v]
      /\ job' = [v \in Workers |-> job'[v]]
  BY DEF JobsOK, Go
<1>2. Record \subseteq Record'
  BY DEF Record
<1>3. job'[w].step = step /\ job'[w].incident = i
  BY <1>1
<1>4. job'[w] \in [step : {"idle", "incident", "alert"}, incident : Record' \union {NoIncident}]
  BY <1>1
<1>5. ASSUME NEW v \in Workers, v # w
      PROVE  job'[v] \in [step : {"idle", "incident", "alert"},
                          incident : Record' \union {NoIncident}]
  BY <1>1, <1>2, <1>5 DEF JobsOK
<1>6. job' \in [Workers -> [step : {"idle", "incident", "alert"},
                            incident : Record' \union {NoIncident}]]
  BY <1>1, <1>4, <1>5
<1>7. ASSUME NEW v \in Workers, job'[v].step # "idle"
      PROVE  job'[v].incident \in Record' /\ job'[v].incident.at >= now' - 1
  <2>1. CASE v = w
    BY <1>3, <1>7, <2>1
  <2>2. CASE v # w
    BY <1>1, <1>2, <1>7, <2>2 DEF JobsOK, At
  <2> QED BY <2>1, <2>2
<1> QED BY <1>1, <1>3, <1>6, <1>7 DEF JobsOK, At

(* Storing a request keeps the invariant, ...                              *)
LEMMA StoreRequestInv ==
    ASSUME RetentionInv, NEW w \in Workers, NEW ip \in IPs, NEW flagged \in BOOLEAN,
           StoreRequest(w, ip, flagged)
    PROVE  RetentionInv'
<1>1. PICK id \in 1..(served + 1) : id = NewId /\ id \notin DOMAIN requests
  BY NewIdFresh DEF RetentionInv
<1>2. /\ job[w].step = "idle" /\ served \in Nat /\ served' = served + 1 /\ now \in Nat
      /\ requests' = [x \in DOMAIN requests \union {id} |->
                         IF x = id THEN [ip |-> ip, at |-> now] ELSE requests[x]]
      /\ UNCHANGED <<now, engine, policy, incidents, alerted, attempts, targets, starts, lost>>
  BY <1>1 DEF StoreRequest, At, deployment, RetentionInv, RetentionTypeOK
<1>3. /\ DOMAIN requests' = DOMAIN requests \union {id}
      /\ requests'[id].ip = ip /\ requests'[id].at = now
      /\ \A x \in DOMAIN requests : requests'[x] = requests[x]
  BY <1>1, <1>2
<1>4. RetentionTypeOK'
  <2>1. DOMAIN requests' \subseteq 1..served'
    BY <1>1, <1>2, <1>3 DEF RetentionInv, RetentionTypeOK
  <2>2. \A x \in DOMAIN requests' : requests'[x].ip \in IPs /\ requests'[x].at \in 0..now'
    BY <1>2, <1>3 DEF RetentionInv, RetentionTypeOK
  <2>3. incidents' \subseteq [request : 1..served', ip : IPs, at : 0..now']
    BY <1>2 DEF RetentionInv, RetentionTypeOK
  <2> QED BY <1>2, <2>1, <2>2, <2>3 DEF RetentionInv, RetentionTypeOK
<1>5. \A i, day : StoredFor(i, day) => StoredFor(i, day)' /\ i.request # id
  BY <1>1, <1>3 DEF StoredFor
<1>6. KeepsReferences' = KeepsReferences /\ lost' = lost
  BY <1>2 DEF KeepsReferences
<1>7. KeepsReferences => Attributed'
  BY <1>2, <1>5 DEF Attributed, RetentionInv
<1> DEFINE rec == [request |-> id, ip |-> ip, at |-> now]
<1>8. /\ rec.request = id /\ rec.ip = ip /\ rec.at = now /\ now >= now - 1
      /\ rec \in Record'
  BY <1>1, <1>2 DEF Record
<1> HIDE DEF rec
<1>9. CASE flagged
  <2>1. Go(w, "incident", rec)
    BY <1>1, <1>9 DEF StoreRequest, rec
  <2>2. /\ JobsOK' /\ job'[w].step = "incident" /\ job'[w].incident = rec
        /\ \A v \in Workers : v # w => job'[v] = job[v]
    BY <1>2, <1>8, <2>1, JobStep DEF RetentionInv
  <2>3. ASSUME KeepsReferences, NEW v \in Workers, job'[v].step = "incident"
        PROVE  /\ StoredFor(job[v].incident, job[v].incident.at)'
               /\ ~CodeTaken(job[v].incident)'
               /\ \A u \in Workers \ {v} : job'[u].step = "incident" =>
                      job'[u].incident.request # job'[v].incident.request
    <3>1. ASSUME NEW u \in Workers, u # w, job'[u].step = "incident"
          PROVE  /\ job'[u] = job[u] /\ job[u].step = "incident"
                 /\ StoredFor(job[u].incident, job[u].incident.at)
                 /\ ~CodeTaken(job[u].incident) /\ job[u].incident.request # id
      BY <2>2, <2>3, <3>1, <1>5 DEF RetentionInv, OneIncident, At
    <3>2. CASE v = w
      <4>1. StoredFor(job[v].incident, job[v].incident.at)'
        BY <1>2, <1>3, <1>8, <2>2, <3>2 DEF StoredFor
      <4>2. ~CodeTaken(job[v].incident)'
        <5>1. \A i \in incidents : i.request # id
          BY <1>5, <2>3 DEF RetentionInv, Attributed
        <5> QED BY <1>2, <1>8, <2>2, <3>2, <5>1 DEF CodeTaken
      <4>3. \A u \in Workers \ {v} : job'[u].step = "incident" =>
                job'[u].incident.request # job'[v].incident.request
        BY <1>8, <2>2, <3>1, <3>2
      <4> QED BY <4>1, <4>2, <4>3
    <3>3. CASE v # w
      <4>1. StoredFor(job[v].incident, job[v].incident.at)'
        BY <2>3, <3>1, <3>3, <1>3 DEF StoredFor
      <4>2. ~CodeTaken(job[v].incident)'
        BY <1>2, <2>3, <3>1, <3>3 DEF CodeTaken
      <4>3. ASSUME NEW u \in Workers \ {v}, job'[u].step = "incident"
            PROVE  job'[u].incident.request # job'[v].incident.request
        <5>1. CASE u = w
          BY <1>8, <2>2, <2>3, <3>1, <3>3, <5>1
        <5>2. CASE u # w
          BY <2>3, <3>1, <3>3, <4>3, <5>2 DEF RetentionInv, OneIncident, At
        <5> QED BY <5>1, <5>2
      <4> QED BY <4>1, <4>2, <4>3
    <3> QED BY <3>2, <3>3
  <2>4. KeepsReferences => OneIncident'
    BY <2>3 DEF OneIncident, At
  <2> QED BY <1>4, <1>6, <1>7, <2>2, <2>4 DEF RetentionInv
<1>10. CASE ~flagged
  <2>1. job' = job
    BY <1>10 DEF StoreRequest
  <2>2. JobsOK'
    <3>1. Record \subseteq Record'
      BY <1>2 DEF Record
    <3>2. job' \in [Workers -> [step : {"idle", "incident", "alert"},
                                incident : Record' \union {NoIncident}]]
      BY <2>1, <3>1 DEF RetentionInv, JobsOK
    <3> QED BY <1>2, <2>1, <3>1, <3>2 DEF RetentionInv, JobsOK, At
  <2>3. KeepsReferences => OneIncident'
    BY <1>2, <1>3, <2>1 DEF RetentionInv, OneIncident, At, CodeTaken, StoredFor
  <2> QED BY <1>4, <1>6, <1>7, <2>2, <2>3 DEF RetentionInv
<1> QED BY <1>9, <1>10

(* ... so does storing its incident, ...                                   *)
LEMMA StoreIncidentInv ==
    ASSUME RetentionInv, NEW w \in Workers, StoreIncident(w)
    PROVE  RetentionInv'
<1>1. /\ job[w].step = "incident" /\ job[w].incident \in Record
      /\ job[w].incident.at >= now - 1 /\ now \in Nat /\ served \in Nat
      /\ UNCHANGED <<now, engine, policy, requests, alerted, attempts, targets, served,
                     starts, lost>>
  BY DEF StoreIncident, At, deployment, RetentionInv, JobsOK, RetentionTypeOK
<1>2. PICK rec : rec = [job[w].incident EXCEPT !.at = now]
  OBVIOUS
<1>3. /\ rec \in Record /\ rec.request = job[w].incident.request
      /\ rec.ip = job[w].incident.ip /\ rec.at = now
  BY <1>1, <1>2 DEF Record
<1>4. incidents' = incidents \union {rec} /\ Go(w, "alert", rec)
  BY <1>2 DEF StoreIncident
<1>5. Record' = Record
  BY <1>1 DEF Record
<1>6. /\ JobsOK' /\ job'[w].step = "alert"
      /\ \A v \in Workers : v # w => job'[v] = job[v]
  BY <1>1, <1>3, <1>4, <1>5, JobStep DEF RetentionInv
<1>7. RetentionTypeOK'
  <2>1. incidents' \subseteq [request : 1..served', ip : IPs, at : 0..now']
    BY <1>1, <1>3, <1>4 DEF RetentionInv, RetentionTypeOK, Record
  <2> QED BY <1>1, <2>1 DEF RetentionInv, RetentionTypeOK
<1>8. KeepsReferences' = KeepsReferences /\ lost' = lost
  BY <1>1 DEF KeepsReferences
<1>9. \A i, day : StoredFor(i, day)' <=> StoredFor(i, day)
  BY <1>1 DEF StoredFor
<1>10. ASSUME KeepsReferences PROVE Attributed'
  <2>1. StoredFor(rec, rec.at - 1)
    <3>1. StoredFor(job[w].incident, job[w].incident.at)
      BY <1>1, <1>10 DEF RetentionInv, OneIncident, At
    <3>2. /\ requests[rec.request].at \in Nat /\ job[w].incident.at \in Nat
      BY <1>1, <1>3, <3>1 DEF StoredFor, RetentionInv, RetentionTypeOK, Record
    <3> QED BY <1>1, <1>3, <3>1, <3>2 DEF StoredFor
  <2> QED BY <1>4, <1>9, <1>10, <2>1 DEF RetentionInv, Attributed
<1>11. ASSUME KeepsReferences PROVE OneIncident'
  <2> SUFFICES ASSUME NEW v \in Workers, job'[v].step = "incident"
               PROVE  /\ StoredFor(job[v].incident, job[v].incident.at)'
                      /\ ~CodeTaken(job[v].incident)'
                      /\ \A u \in Workers \ {v} : job'[u].step = "incident" =>
                             job'[u].incident.request # job'[v].incident.request
    BY DEF OneIncident, At
  <2>1. v # w /\ job'[v] = job[v]
    BY <1>6
  <2>2. /\ StoredFor(job[v].incident, job[v].incident.at) /\ ~CodeTaken(job[v].incident)
        /\ job[w].incident.request # job[v].incident.request
        /\ \A u \in Workers \ {v} : job[u].step = "incident" =>
               job[u].incident.request # job[v].incident.request
    BY <1>1, <1>11, <2>1 DEF RetentionInv, OneIncident, At
  <2>3. ~CodeTaken(job[v].incident)'
    BY <1>3, <1>4, <2>1, <2>2 DEF CodeTaken
  <2>4. StoredFor(job[v].incident, job[v].incident.at)'
    BY <1>1, <2>1, <2>2 DEF StoredFor
  <2>5. \A u \in Workers \ {v} : job'[u].step = "incident" =>
               job'[u].incident.request # job'[v].incident.request
    BY <1>6, <2>1, <2>2
  <2> QED BY <2>3, <2>4, <2>5
<1> QED BY <1>6, <1>7, <1>8, <1>10, <1>11 DEF RetentionInv

(* A handler ends: whatever it leaves in the other tables.                 *)
LEMMA EndInv ==
    ASSUME RetentionInv, NEW w \in Workers, Go(w, "idle", NoIncident),
           RetentionTypeOK', KeepsReferences => lost' = {},
           UNCHANGED <<now, deployment, requests, incidents, served>>
    PROVE  RetentionInv'
<1>1. /\ UNCHANGED <<now, engine, policy, requests, incidents, served>> /\ served \in Nat
  BY DEF deployment, RetentionInv, RetentionTypeOK
<1>2. /\ JobsOK' /\ job'[w].step = "idle" /\ \A v \in Workers : v # w => job'[v] = job[v]
  BY <1>1, JobStep DEF RetentionInv
<1>3. KeepsReferences' = KeepsReferences
  BY <1>1 DEF KeepsReferences
<1>4. KeepsReferences => Attributed'
  BY <1>1 DEF RetentionInv, Attributed, StoredFor
<1>5. KeepsReferences => OneIncident'
  BY <1>1, <1>2 DEF RetentionInv, OneIncident, At, StoredFor, CodeTaken
<1> QED BY <1>2, <1>3, <1>4, <1>5 DEF RetentionInv

(* ... the refusal of its incident, ...                                    *)
LEMMA RefusedInv ==
    ASSUME RetentionInv, NEW w \in Workers, IncidentRefused(w)
    PROVE  RetentionInv'
<1>1. /\ UNCHANGED <<now, engine, policy, requests, incidents, alerted, attempts, targets,
                     served, starts>>
      /\ Go(w, "idle", NoIncident) /\ lost' = lost \union {job[w].incident.ip}
      /\ CodeTaken(job[w].incident) \/ RequestGone(job[w].incident)
  BY DEF IncidentRefused, deployment, tables
<1>2. job[w].incident.ip \in IPs
  BY DEF IncidentRefused, At, RetentionInv, JobsOK, Record
<1>3. RetentionTypeOK'
  BY <1>1, <1>2 DEF RetentionInv, RetentionTypeOK
<1>4. ~KeepsReferences
  BY <1>1 DEF IncidentRefused, RetentionInv, OneIncident, StoredFor, RequestGone, At
<1> QED BY <1>1, <1>3, <1>4, EndInv DEF deployment

(* ... a mail that is recorded, ...                                        *)
LEMMA AlertInv ==
    ASSUME RetentionInv, NEW w \in Workers, Alert(w)
    PROVE  RetentionInv'
<1>1. PICK owner : owner = Owner(job[w].incident)
  OBVIOUS
<1>2. /\ UNCHANGED <<now, engine, policy, requests, incidents, attempts, targets, served,
                     starts, lost>>
      /\ Go(w, "idle", NoIncident)
      /\ alerted' = [ip \in DOMAIN alerted \union {owner} |->
             IF ip = owner THEN [incident |-> job[w].incident, at |-> now] ELSE alerted[ip]]
  BY <1>1 DEF Alert, deployment
<1>3. owner \in IPs \union {NoIP} /\ now \in Nat
  BY <1>1 DEF Owner, RequestGone, RetentionInv, RetentionTypeOK
<1>4. ASSUME NEW ip \in DOMAIN alerted'
      PROVE  ip \in IPs \union {NoIP} /\ alerted'[ip].at \in 0..now
  <2>1. CASE ip = owner
    BY <1>2, <1>3, <2>1
  <2>2. CASE ip # owner
    BY <1>2, <2>2 DEF RetentionInv, RetentionTypeOK
  <2> QED BY <2>1, <2>2
<1>5. RetentionTypeOK'
  BY <1>2, <1>4 DEF RetentionInv, RetentionTypeOK
<1> QED BY <1>2, <1>5, EndInv DEF deployment, RetentionInv

(* ... an end without one, ...                                             *)
LEMMA NoAlertInv ==
    ASSUME RetentionInv, NEW w \in Workers, EndWithoutAlert(w)
    PROVE  RetentionInv'
<1>1. /\ UNCHANGED <<now, engine, policy, requests, incidents, alerted, attempts, targets,
                     served, starts, lost>>
      /\ Go(w, "idle", NoIncident)
  BY DEF EndWithoutAlert, deployment, tables
<1>2. RetentionTypeOK'
  BY <1>1 DEF RetentionInv, RetentionTypeOK
<1> QED BY <1>1, <1>2, EndInv DEF deployment, RetentionInv

(* What leaves the jobs, the requests and the incidents alone.             *)
LEMMA AsideInv ==
    ASSUME RetentionInv, RetentionTypeOK',
           UNCHANGED <<now, deployment, requests, incidents, served, job, lost>>
    PROVE  RetentionInv'
<1>1. UNCHANGED <<now, engine, policy, requests, incidents, served, job, lost>>
  BY DEF deployment
<1>2. JobsOK'
  BY <1>1 DEF RetentionInv, JobsOK, Record, At
<1>3. KeepsReferences' = KeepsReferences
  BY <1>1 DEF KeepsReferences
<1>4. KeepsReferences => Attributed' /\ OneIncident' /\ lost' = {}
  BY <1>1 DEF RetentionInv, Attributed, OneIncident, StoredFor, CodeTaken, At
<1> QED BY <1>2, <1>3, <1>4 DEF RetentionInv

(* ... what happens to the other tables, ...                               *)
LEMMA SideInv ==
    ASSUME RetentionInv, FailedLogin \/ DeleteTargets \/ UNCHANGED vars
    PROVE  RetentionInv'
<1>1. /\ UNCHANGED <<now, engine, policy, requests, incidents, alerted, served, starts, job, lost>>
      /\ attempts' \subseteq attempts \union {now} /\ targets' \in BOOLEAN
  BY DEF FailedLogin, DeleteTargets, vars, tables, deployment, RetentionInv, RetentionTypeOK
<1>2. RetentionTypeOK'
  BY <1>1 DEF RetentionInv, RetentionTypeOK
<1> QED BY <1>1, <1>2, AsideInv DEF deployment

(* ... a new day, ...                                                      *)
LEMMA TickInv ==
    ASSUME RetentionInv, Tick
    PROVE  RetentionInv'
<1>1. /\ UNCHANGED <<engine, policy, requests, incidents, alerted, attempts, targets, job,
                     served, starts, lost>>
      /\ now' = now + 1 /\ now \in Nat
      /\ \A w \in Workers : job[w].step = "idle" \/ job[w].incident.at = now
  BY DEF Tick, deployment, tables, At, RetentionInv, RetentionTypeOK
<1>2. RetentionTypeOK'
  <2>1. 0..now \subseteq 0..now'
    BY <1>1
  <2>2. [request : 1..served, ip : IPs, at : 0..now] \subseteq
            [request : 1..served, ip : IPs, at : 0..now']
    BY <2>1
  <2>3. incidents \subseteq [request : 1..served, ip : IPs, at : 0..now']
    BY <2>2 DEF RetentionInv, RetentionTypeOK
  <2> QED BY <1>1, <2>1, <2>3 DEF RetentionInv, RetentionTypeOK
<1>3. JobsOK'
  <2>1. Record \subseteq Record'
    BY <1>1 DEF Record
  <2>2. job' \in [Workers -> [step : {"idle", "incident", "alert"},
                              incident : Record' \union {NoIncident}]]
    BY <1>1, <2>1 DEF RetentionInv, JobsOK
  <2>3. \A w \in Workers : job'[w].step # "idle" =>
            job'[w].incident \in Record' /\ job'[w].incident.at >= now' - 1
    BY <1>1, <2>1 DEF RetentionInv, JobsOK, At
  <2> QED BY <2>2, <2>3 DEF JobsOK, At
<1>4. KeepsReferences' = KeepsReferences
  BY <1>1 DEF KeepsReferences
<1>5. KeepsReferences => Attributed' /\ OneIncident' /\ lost' = {}
  BY <1>1 DEF RetentionInv, Attributed, OneIncident, StoredFor, CodeTaken, At
<1> QED BY <1>2, <1>3, <1>4, <1>5 DEF RetentionInv

-----------------------------------------------------------------------------
(* The clean-up: an incident that is kept keeps its request, and a handler *)
(* under way keeps the one it has stored.                                  *)
LEMMA KeptTogether ==
    ASSUME RetentionInv, KeepsReferences, ~CleanupFails
    PROVE  /\ \A i \in KeptIncidents : i.request \in KeptRequests
           /\ \A w \in Workers : At(w, "incident") => job[w].incident.request \in KeptRequests
<1>1. /\ policy.req \in Int /\ policy.inc \in Int /\ policy.req > 0 /\ now \in Nat
  BY PolicyFacts DEF KeepsReferences, RetentionInv, RetentionTypeOK
<1>2. \A i \in incidents : i.at \in Nat
  BY DEF RetentionInv, RetentionTypeOK
<1>3. \A id \in DOMAIN requests : requests[id].at \in Nat
  BY DEF RetentionInv, RetentionTypeOK
<1>4. ASSUME NEW i \in KeptIncidents PROVE i.request \in KeptRequests
  <2>1. StoredFor(i, i.at - 1) /\ i.at >= now - policy.inc /\ i \in incidents
    BY DEF KeptIncidents, Fresh, RetentionInv, Attributed
  <2>2. CASE policy.req > policy.inc
    <3>1. requests[i.request].at >= now - policy.req
      BY <1>1, <1>2, <1>3, <2>1, <2>2 DEF StoredFor
    <3> QED BY <1>1, <2>1, <3>1 DEF StoredFor, KeptRequests, Fresh
  <2>3. CASE engine = "postgresql"
    BY <2>1, <2>3 DEF CleanupFails, ViolatesForeignKey, StoredFor
  <2> QED BY <2>2, <2>3 DEF KeepsReferences
<1>5. ASSUME NEW w \in Workers, At(w, "incident")
      PROVE  job[w].incident.request \in KeptRequests
  <2>1. StoredFor(job[w].incident, job[w].incident.at)
    BY <1>5 DEF RetentionInv, OneIncident
  <2>2. job[w].incident.at \in Nat /\ job[w].incident.at >= now - 1
    BY <1>5 DEF RetentionInv, JobsOK, Record, At
  <2>3. requests[job[w].incident.request].at >= now - policy.req
    BY <1>1, <1>3, <2>1, <2>2 DEF StoredFor
  <2> QED BY <1>1, <2>1, <2>3 DEF StoredFor, KeptRequests, Fresh
<1> QED BY <1>4, <1>5

(* ... and a start, which cleans up.                                       *)
LEMMA StartInv ==
    ASSUME RetentionInv, Start
    PROVE  RetentionInv'
<1>1. /\ UNCHANGED <<now, engine, policy, job, served, lost>> /\ starts' = starts + 1
      /\ now \in Nat /\ served \in Nat /\ starts \in Nat
  BY DEF Start, deployment, RetentionInv, RetentionTypeOK
<1>2. CASE CleanupFails
  <2>1. UNCHANGED <<requests, incidents, alerted, attempts, targets>>
    BY <1>2 DEF Start, tables
  <2>2. RetentionTypeOK'
    BY <1>1, <2>1 DEF RetentionInv, RetentionTypeOK
  <2> QED BY <1>1, <2>1, <2>2, AsideInv DEF deployment
<1>3. CASE ~CleanupFails
  <2>1. /\ requests' = [id \in KeptRequests |-> requests[id]] /\ incidents' = KeptIncidents
        /\ alerted' = [ip \in KeptAlerts |-> alerted[ip]] /\ attempts' = KeptAttempts
        /\ targets' = TRUE
    BY <1>3 DEF Start
  <2>2. /\ KeptRequests \subseteq DOMAIN requests /\ KeptIncidents \subseteq incidents
        /\ KeptAlerts \subseteq DOMAIN alerted /\ KeptAttempts \subseteq attempts
    BY DEF KeptRequests, KeptIncidents, KeptAlerts, KeptAttempts
  <2>3. /\ DOMAIN requests' = KeptRequests /\ DOMAIN alerted' = KeptAlerts
        /\ \A id \in KeptRequests : requests'[id] = requests[id]
        /\ \A ip \in KeptAlerts : alerted'[ip] = alerted[ip]
    BY <2>1
  <2>4. RetentionTypeOK'
    <3>1. \A id \in DOMAIN requests' : requests'[id].ip \in IPs /\ requests'[id].at \in 0..now
      BY <2>2, <2>3 DEF RetentionInv, RetentionTypeOK
    <3>2. DOMAIN requests' \subseteq 1..served
      BY <2>2, <2>3 DEF RetentionInv, RetentionTypeOK
    <3>3. \A ip \in DOMAIN alerted' :
              ip \in IPs \union {NoIP} /\ alerted'[ip].at \in 0..now
      BY <2>2, <2>3 DEF RetentionInv, RetentionTypeOK
    <3>4. /\ incidents' \subseteq [request : 1..served, ip : IPs, at : 0..now]
          /\ attempts' \subseteq 0..now /\ targets' \in BOOLEAN /\ starts' \in Nat
      BY <1>1, <2>1, <2>2 DEF RetentionInv, RetentionTypeOK
    <3> QED BY <1>1, <3>1, <3>2, <3>3, <3>4 DEF RetentionInv, RetentionTypeOK
  <2>5. JobsOK'
    BY <1>1 DEF RetentionInv, JobsOK, Record, At
  <2>6. ASSUME KeepsReferences PROVE Attributed' /\ OneIncident' /\ lost' = {}
    <3>1. /\ \A i \in KeptIncidents : i.request \in KeptRequests
          /\ \A w \in Workers : At(w, "incident") => job[w].incident.request \in KeptRequests
      BY <1>3, <2>6, KeptTogether
    <3>2. Attributed'
      BY <2>1, <2>2, <2>3, <2>6, <3>1 DEF RetentionInv, Attributed, StoredFor
    <3>3. OneIncident'
      BY <1>1, <2>1, <2>2, <2>3, <2>6, <3>1
         DEF RetentionInv, OneIncident, StoredFor, CodeTaken, At
    <3> QED BY <1>1, <2>6, <3>2, <3>3 DEF RetentionInv
  <2>7. KeepsReferences' = KeepsReferences
    BY <1>1 DEF KeepsReferences
  <2> QED BY <2>4, <2>5, <2>6, <2>7 DEF RetentionInv
<1> QED BY <1>2, <1>3

-----------------------------------------------------------------------------
(* The invariant holds initially ...                                       *)
LEMMA InitInv == Init => RetentionInv
<1> SUFFICES ASSUME Init PROVE RetentionInv
  OBVIOUS
<1>1. /\ now = 0 /\ served = 0 /\ starts = 0 /\ engine \in Engines /\ policy \in Policies
      /\ DOMAIN requests = {} /\ incidents = {} /\ DOMAIN alerted = {} /\ attempts = {}
      /\ targets = FALSE /\ lost = {} /\ job = [w \in Workers |-> Idle]
  BY DEF Init
<1>2. RetentionTypeOK
  BY <1>1 DEF RetentionTypeOK
<1>3. JobsOK
  <2>1. Idle \in [step : {"idle", "incident", "alert"}, incident : Record \union {NoIncident}]
        /\ Idle.step = "idle"
    BY DEF Idle
  <2> QED BY <1>1, <2>1 DEF JobsOK, At
<1>4. Attributed /\ OneIncident
  BY <1>1 DEF Attributed, OneIncident, At, Idle
<1> QED BY <1>1, <1>2, <1>3, <1>4 DEF RetentionInv

(* ... and every step keeps it.                                            *)
LEMMA StepInv == RetentionInv /\ [Next]_vars => RetentionInv'
<1> SUFFICES ASSUME RetentionInv, [Next]_vars PROVE RetentionInv'
  OBVIOUS
<1>1. CASE Tick
  BY <1>1, TickInv
<1>2. CASE Start
  BY <1>2, StartInv
<1>3. CASE FailedLogin \/ DeleteTargets \/ UNCHANGED vars
  BY <1>3, SideInv
<1>4. ASSUME NEW w \in Workers, NEW ip \in IPs, NEW flagged \in BOOLEAN,
             StoreRequest(w, ip, flagged)
      PROVE  RetentionInv'
  BY <1>4, StoreRequestInv
<1>5. ASSUME NEW w \in Workers,
             StoreIncident(w) \/ IncidentRefused(w) \/ Alert(w) \/ EndWithoutAlert(w)
      PROVE  RetentionInv'
  BY <1>5, StoreIncidentInv, RefusedInv, AlertInv, NoAlertInv
<1> QED BY <1>1, <1>2, <1>3, <1>4, <1>5 DEF Next

(* The inductive invariant.                                                *)
THEOREM RetentionInvariant == Spec => []RetentionInv
<1>1. Init => RetentionInv
  BY InitInv
<1>2. RetentionInv /\ [Next]_vars => RetentionInv'
  BY StepInv
<1> QED BY <1>1, <1>2, PTL DEF Spec

(* No row refers to a request that was never stored.                       *)
THEOREM RetentionTypeCorrect == Spec => []RetentionTypeOK
<1>1. RetentionInv => RetentionTypeOK
  BY DEF RetentionInv
<1> QED BY <1>1, RetentionInvariant, PTL

(* Where references are kept, an incident's request is its client's.       *)
THEOREM IncidentsAreAttributed == Spec => []IncidentsAttributed
<1>1. RetentionInv => IncidentsAttributed
  BY DEF RetentionInv, IncidentsAttributed, Attributed, StoredFor
<1> QED BY <1>1, RetentionInvariant, PTL

(* Where references are kept, no incident meets its code already taken.    *)
THEOREM NoIncidentIsRefused == Spec => []NoIncidentRefused
<1>1. RetentionInv => NoIncidentRefused
  BY DEF RetentionInv, NoIncidentRefused
<1> QED BY <1>1, RetentionInvariant, PTL

(* Where nothing stands in its way, a start leaves no row past its time.   *)
THEOREM StartsAreClean == Spec => StartsClean
<1>1. RetentionInv /\ [Next]_vars => [CleanStart]_vars
  <2> SUFFICES ASSUME RetentionInv, [Next]_vars, CleansFreely, starts' # starts
               PROVE  /\ targets'
                      /\ \A id \in DOMAIN requests' : Fresh(requests'[id].at, policy.req)
                      /\ \A i \in incidents' : Fresh(i.at, policy.inc)
    BY DEF CleanStart
  <2>1. Start
    BY DEF Next, Tick, FailedLogin, DeleteTargets, StoreRequest, StoreIncident,
           IncidentRefused, Alert, EndWithoutAlert, vars
  <2>2. ~CleanupFails
    <3>1. CASE engine = "sqlite"
      BY <3>1 DEF CleanupFails
    <3>2. CASE policy.req > policy.inc /\ DOMAIN alerted = {}
      <4>1. \A i \in KeptIncidents : i.request \in KeptRequests
        <5> SUFFICES ASSUME NEW i \in KeptIncidents PROVE i.request \in KeptRequests
          OBVIOUS
        <5>1. /\ policy.req \in Int /\ policy.inc \in Int
              /\ policy.inc > 0 /\ i.at >= now - policy.inc /\ i \in incidents
          BY PolicyFacts DEF RetentionInv, KeptIncidents, Fresh
        <5>2. policy.req > 0 /\ StoredFor(i, i.at - 1)
          BY <3>2, <5>1 DEF KeepsReferences, RetentionInv, Attributed
        <5>3. i.at \in Nat /\ requests[i.request].at \in Nat /\ now \in Nat
          BY <5>1, <5>2 DEF StoredFor, RetentionInv, RetentionTypeOK
        <5>4. requests[i.request].at >= now - policy.req
          BY <3>2, <5>1, <5>2, <5>3 DEF StoredFor
        <5> QED BY <5>2, <5>4 DEF StoredFor, KeptRequests, Fresh
      <4> QED BY <3>2, <4>1 DEF CleanupFails, ViolatesForeignKey
    <3> QED BY <3>1, <3>2 DEF CleansFreely
  <2>3. /\ requests' = [id \in KeptRequests |-> requests[id]] /\ incidents' = KeptIncidents
        /\ targets' = TRUE
    BY <2>1, <2>2 DEF Start
  <2> QED BY <2>3 DEF KeptRequests, KeptIncidents
<1> QED BY <1>1, RetentionInvariant, PTL DEF Spec, StartsClean

(* No start forgets an alert in its cooldown or a failed login that counts *)
(* where either retention period covers them.                              *)
THEOREM LiveRowsAreKept == Spec => LiveRowsKept
<1>1. RetentionInv /\ [Next]_vars => [LiveRowsStay]_vars
  <2> SUFFICES ASSUME RetentionInv, [Next]_vars PROVE LiveRowsStay
    OBVIOUS
  <2>1. CASE Start
    <3>1. /\ DOMAIN alerted' = DOMAIN alerted \/ DOMAIN alerted' = KeptAlerts
          /\ attempts' = attempts \/ attempts' = KeptAttempts
      BY <2>1 DEF Start, tables
    <3>2. /\ LongerPeriod \in Int /\ policy.req \in Int /\ policy.inc \in Int
          /\ policy.req <= LongerPeriod /\ policy.inc <= LongerPeriod
          /\ Cooldown \in Nat /\ Window \in Nat /\ Window > 0 /\ now \in Nat
      BY PolicyFacts DEF RetentionInv, RetentionTypeOK
    <3>3. ASSUME Covers(Cooldown), NEW ip \in DOMAIN alerted \ DOMAIN alerted'
          PROVE  now - alerted[ip].at >= Cooldown
      <4>1. ~Fresh(alerted[ip].at, LongerPeriod) /\ alerted[ip].at \in 0..now
        BY <3>1, <3>3 DEF KeptAlerts, RetentionInv, RetentionTypeOK
      <4> QED BY <3>2, <3>3, <4>1 DEF Fresh, Covers
    <3>4. ASSUME Covers(Window), NEW t \in attempts \ attempts'
          PROVE  t < now - Window
      <4>1. ~Fresh(t, LongerPeriod) /\ t \in 0..now
        BY <3>1, <3>4 DEF KeptAttempts, RetentionInv, RetentionTypeOK
      <4> QED BY <3>2, <3>4, <4>1 DEF Fresh, Covers
    <3> QED BY <3>3, <3>4 DEF LiveRowsStay
  <2>2. CASE ~Start
    <3>1. DOMAIN alerted \subseteq DOMAIN alerted' /\ attempts \subseteq attempts'
      <4>1. CASE Tick \/ FailedLogin \/ DeleteTargets \/ UNCHANGED vars
        BY <4>1 DEF Tick, FailedLogin, DeleteTargets, vars, tables
      <4>2. ASSUME NEW w \in Workers, NEW ip \in IPs, NEW flagged \in BOOLEAN,
                   StoreRequest(w, ip, flagged)
            PROVE  UNCHANGED <<alerted, attempts>>
        BY <4>2 DEF StoreRequest
      <4>3. ASSUME NEW w \in Workers, StoreIncident(w) \/ IncidentRefused(w) \/ EndWithoutAlert(w)
            PROVE  UNCHANGED <<alerted, attempts>>
        BY <4>3 DEF StoreIncident, IncidentRefused, EndWithoutAlert, tables
      <4>4. ASSUME NEW w \in Workers, Alert(w)
            PROVE  DOMAIN alerted \subseteq DOMAIN alerted' /\ attempts' = attempts
        BY <4>4 DEF Alert
      <4> QED BY <2>2, <4>1, <4>2, <4>3, <4>4 DEF Next
    <3> QED BY <3>1 DEF LiveRowsStay
  <2> QED BY <2>1, <2>2
<1> QED BY <1>1, RetentionInvariant, PTL DEF Spec, LiveRowsKept
=============================================================================
