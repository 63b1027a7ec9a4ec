--------------------------- MODULE PipelineProofs ---------------------------
(***************************************************************************)
(* Theorems about ProxyPipeline, for any set of workers, clients and       *)
(* traffic: what is forwarded is logged and the log tells the truth; how   *)
(* many requests leak past a block; no block that is due is lost; an       *)
(* admin's block stays.  The handlers use the login attempts, the alerts   *)
(* and the block list as the modules of these assume, so that what is      *)
(* proved there holds here as well.                                        *)
(***************************************************************************)
EXTENDS ProxyPipeline, FiniteSetTheorems, TLAPS

-----------------------------------------------------------------------------
(* Handlers.  A request is numbered when it arrives; until it is forwarded *)
(* its number is not among the forwarded ones, and from the commit of its  *)
(* row on there is a row with its number.                                  *)
Before == {"preblock", "precount", "forward", "login"}
Upstream == {"upstream", "detect"}
Stored == {"followup", "alert", "autoblock", "blocking"}
Numbered(w) == job[w].phase \notin {"idle", "admin"}
HasRow(w) == \E r \in requests : /\ r.id = job[w].n /\ r.ip = job[w].req.ip
                                 /\ r.status = job[w].status

JobType == [phase : Phases, n : Nat, req : Traffic \union {NoRequest},
            found : Seq(AllFindings), status : {"none", "200", "403", "502"},
            blocked : BOOLEAN, todo : Int]
IncidentType == [n : Nat, ip : IPs, at : Nat, finding : AllFindings,
                 status : {"Blocked", "Open"}]

JobsOK == job \in [Workers -> JobType]

NumbersOK ==
    /\ received \in Nat
    /\ forwarded \subseteq 1..received
    /\ \A w \in Workers : IF Numbered(w) THEN job[w].n \in 1..received ELSE job[w].n = 0
    /\ \A v, w \in Workers : Numbered(v) /\ job[v].n = job[w].n => v = w

PhaseOK(w) ==
    /\ job[w].phase \notin {"idle", "admin", "login"} => job[w].req.ip \in IPs
    /\ job[w].phase \in Before => job[w].n \notin forwarded /\ ~job[w].blocked
    /\ job[w].phase \in Upstream => job[w].n \in forwarded /\ ~job[w].blocked
    /\ job[w].phase \in {"persist", "incidents"} =>
          /\ job[w].blocked <=> job[w].n \notin forwarded
          /\ job[w].blocked => job[w].status = "403"
    /\ job[w].phase \in Stored \union {"incidents"} => HasRow(w)
PhasesOK == \A w \in Workers : PhaseOK(w)

RowsOK ==
    /\ incidents \in Seq(IncidentType)
    /\ \A k \in DOMAIN incidents :
          /\ incidents[k].n \in 1..received
          /\ \A w \in Workers : job[w].phase \in Before => incidents[k].n # job[w].n

HandlerInv ==
    JobsOK /\ NumbersOK /\ PhasesOK /\ RowsOK /\ IncidentsTruthful /\ ForwardedAreLogged

-----------------------------------------------------------------------------
(* The kinds of steps a handler takes.                                     *)
Kept ==
    /\ UNCHANGED <<requests, incidents, forwarded>>
    /\ aborted \subseteq aborted' /\ unstorable \subseteq unstorable'

Stays == Kept /\ UNCHANGED job /\ received' \in {received, received + 1}

Enters(w, j) ==
    /\ Kept
    /\ job[w].phase = "idle" /\ received' = received + 1
    /\ j \in JobType /\ job' = [job EXCEPT ![w] = j]
    /\ \/ j.phase = "admin" /\ j.n = 0
       \/ /\ j.phase \in {"preblock", "login"} /\ j.n = received + 1 /\ ~j.blocked
          /\ j.phase = "preblock" => j.req.ip \in IPs

Moves(w, j) ==
    /\ Kept /\ UNCHANGED received
    /\ j \in JobType /\ job' = [job EXCEPT ![w] = j]
    /\ j.n = job[w].n /\ j.req = job[w].req
    /\ \/ job[w].phase \in Before \ {"login"} /\ j.phase \in Before \ {"login"} /\ ~j.blocked
       \/ /\ job[w].phase \in Before \ {"login"} /\ j.phase = "persist"
          /\ j.blocked /\ j.status = "403"
       \/ job[w].phase \in Upstream /\ j.phase \in {"detect", "persist"} /\ ~j.blocked
       \/ /\ job[w].phase \in Stored /\ j.phase \in Stored
          /\ j.status = job[w].status /\ j.blocked = job[w].blocked

Leaves(w) ==
    /\ Kept /\ UNCHANGED received
    /\ job' = [job EXCEPT ![w] = Idle]
    /\ \/ job[w].phase \in Before \union Stored \union {"admin"}
       \/ job[w].n \in aborted' \union unstorable'

-----------------------------------------------------------------------------
(* A handler without a request is well-formed.                             *)
LEMMA IdleType == Idle \in JobType /\ Idle.phase = "idle" /\ Idle.n = 0
BY DEF Idle, Job, NoRequest, JobType, Phases

(* A step of none of the handlers keeps what is said of them.              *)
LEMMA StaysInv == HandlerInv /\ Stays => HandlerInv'
BY DEF HandlerInv, Stays, Kept, JobsOK, NumbersOK, PhasesOK, PhaseOK, RowsOK, Numbered, HasRow,
       IncidentsTruthful, ForwardedAreLogged

(* So does an idle worker that takes up a request, ...                     *)
LEMMA EntersInv ==
    ASSUME NEW w \in Workers, NEW j, HandlerInv, Enters(w, j)
    PROVE  HandlerInv'
<1>1. /\ job'[w] = j
      /\ \A v \in Workers : v # w => job'[v] = job[v]
      /\ JobsOK'
  BY DEF HandlerInv, JobsOK, Enters
<1>2. NumbersOK'
  BY <1>1 DEF HandlerInv, NumbersOK, Enters, Kept, Numbered
<1>3. PhasesOK'
  BY <1>1
  DEF HandlerInv, NumbersOK, PhasesOK, PhaseOK, HasRow, Enters, Kept, Before, Upstream, Stored
<1>4. RowsOK'
  BY <1>1 DEF HandlerInv, NumbersOK, RowsOK, Enters, Kept, Before
<1>5. IncidentsTruthful'
  BY <1>1 DEF HandlerInv, IncidentsTruthful, Enters, Kept
<1>6. ForwardedAreLogged'
  BY <1>1 DEF HandlerInv, NumbersOK, Numbered, ForwardedAreLogged, Enters, Kept
<1> QED BY <1>1, <1>2, <1>3, <1>4, <1>5, <1>6 DEF HandlerInv

(* ... a handler that goes on to its next phase, ...                       *)
LEMMA MovesInv ==
    ASSUME NEW w \in Workers, NEW j, HandlerInv, Moves(w, j)
    PROVE  HandlerInv'
<1>1. /\ job'[w] = j
      /\ \A v \in Workers : v # w => job'[v] = job[v]
      /\ JobsOK'
  BY DEF HandlerInv, JobsOK, Moves
<1>2. NumbersOK'
  BY <1>1 DEF HandlerInv, NumbersOK, Moves, Kept, Numbered, Before, Upstream, Stored
<1>3. PhasesOK'
  BY <1>1 DEF HandlerInv, PhasesOK, PhaseOK, HasRow, Moves, Kept, Before, Upstream, Stored
<1>4. RowsOK'
  BY <1>1 DEF HandlerInv, RowsOK, Moves, Kept, Before, Upstream, Stored
<1>5. IncidentsTruthful'
  BY <1>1 DEF HandlerInv, IncidentsTruthful, Moves, Kept
<1>6. ForwardedAreLogged'
  BY <1>1 DEF HandlerInv, ForwardedAreLogged, Moves, Kept
<1> QED BY <1>1, <1>2, <1>3, <1>4, <1>5, <1>6 DEF HandlerInv

(* ... and one that ends.                                                  *)
LEMMA LeavesInv ==
    ASSUME NEW w \in Workers, HandlerInv, Leaves(w)
    PROVE  HandlerInv'
<1>1. /\ job'[w] = Idle
      /\ \A v \in Workers : v # w => job'[v] = job[v]
      /\ JobsOK'
  BY IdleType DEF HandlerInv, JobsOK, Leaves
<1>2. NumbersOK'
  BY <1>1, IdleType DEF HandlerInv, NumbersOK, Leaves, Kept, Numbered
<1>3. PhasesOK'
  BY <1>1, IdleType
  DEF HandlerInv, PhasesOK, PhaseOK, HasRow, Leaves, Kept, Before, Upstream, Stored
<1>4. RowsOK'
  BY <1>1, IdleType DEF HandlerInv, RowsOK, Leaves, Kept, Before
<1>5. IncidentsTruthful'
  BY <1>1 DEF HandlerInv, IncidentsTruthful, Leaves, Kept
<1>6. ForwardedAreLogged'
  BY <1>1 DEF HandlerInv, NumbersOK, PhasesOK, PhaseOK, HasRow, Numbered, ForwardedAreLogged,
              Leaves, Kept
<1> QED BY <1>1, <1>2, <1>3, <1>4, <1>5, <1>6 DEF HandlerInv

-----------------------------------------------------------------------------
(* The steps that change the tables, or what was sent upstream.            *)
LEMMA ForwardInv ==
    ASSUME NEW w \in Workers, HandlerInv, Forward(w)
    PROVE  HandlerInv'
<1> DEFINE j == [job[w] EXCEPT !.phase = "upstream"]
<1>1. /\ job' = [job EXCEPT ![w] = j] /\ job[w].phase = "forward"
      /\ forwarded' = forwarded \union {job[w].n}
      /\ UNCHANGED <<received, requests, incidents, aborted, unstorable>>
  BY DEF Forward, In, To, Set, rows
<1>2. /\ j \in JobType /\ j.phase = "upstream" /\ j.n = job[w].n /\ j.req = job[w].req
      /\ j.blocked = job[w].blocked
  BY DEF HandlerInv, JobsOK, JobType, Phases
<1> HIDE DEF j
<1>3. /\ job'[w] = j
      /\ \A v \in Workers : v # w => job'[v] = job[v]
      /\ JobsOK'
  BY <1>1, <1>2 DEF HandlerInv, JobsOK
<1>4. NumbersOK'
  <2>1. job[w].n \in 1..received
    BY <1>1 DEF HandlerInv, NumbersOK, Numbered
  <2>2. received' \in Nat /\ forwarded' \subseteq 1..received'
    BY <1>1, <2>1 DEF HandlerInv, NumbersOK
  <2>3. \A v \in Workers : job'[v].n = job[v].n /\ (Numbered(v)' <=> Numbered(v))
    BY <1>1, <1>2, <1>3 DEF Numbered
  <2> QED BY <1>1, <2>2, <2>3 DEF HandlerInv, NumbersOK
<1>5. PhasesOK'
  BY <1>1, <1>2, <1>3
  DEF HandlerInv, NumbersOK, Numbered, PhasesOK, PhaseOK, HasRow, Before, Upstream, Stored
<1>6. RowsOK'
  BY <1>1, <1>2, <1>3 DEF HandlerInv, RowsOK, Before
<1>7. IncidentsTruthful'
  BY <1>1 DEF HandlerInv, RowsOK, IncidentsTruthful, Before
<1>8. ForwardedAreLogged'
  BY <1>1, <1>2, <1>3 DEF HandlerInv, ForwardedAreLogged
<1> QED BY <1>3, <1>4, <1>5, <1>6, <1>7, <1>8 DEF HandlerInv

(* Storing the request: its row and its handler's number are new.          *)
LEMMA PersistRequestInv ==
    ASSUME NEW w \in Workers, HandlerInv, PersistRequest(w)
    PROVE  HandlerInv'
<1> DEFINE row == [id |-> job[w].n, ip |-> ip(w), status |-> job[w].status]
           j == IF job[w].found = <<>> THEN Idle ELSE [job[w] EXCEPT !.phase = "incidents"]
<1>1. /\ job' = [job EXCEPT ![w] = j] /\ job[w].phase = "persist"
      /\ requests' = requests \union {row}
      /\ UNCHANGED <<received, incidents, forwarded, aborted, unstorable>>
  BY DEF PersistRequest, In, To, Set, ghosts
<1>2. /\ j \in JobType
      /\ \/ j = Idle
         \/ /\ j.phase = "incidents" /\ j.n = job[w].n /\ j.req = job[w].req
            /\ j.blocked = job[w].blocked /\ j.status = job[w].status
  BY IdleType DEF HandlerInv, JobsOK, JobType, Phases
<1>3. row.id = job[w].n /\ row.ip = job[w].req.ip /\ row.status = job[w].status
  BY DEF ip
<1> HIDE DEF j, row
<1>4. /\ job'[w] = j
      /\ \A v \in Workers : v # w => job'[v] = job[v]
      /\ JobsOK'
  BY <1>1, <1>2 DEF HandlerInv, JobsOK
<1>5. NumbersOK'
  BY <1>1, <1>2, <1>4, IdleType DEF HandlerInv, NumbersOK, Numbered
<1>6. PhasesOK'
  BY <1>1, <1>2, <1>3, <1>4, IdleType
  DEF HandlerInv, PhasesOK, PhaseOK, HasRow, Before, Upstream, Stored
<1>7. RowsOK'
  BY <1>1, <1>2, <1>4, IdleType DEF HandlerInv, RowsOK, Before
<1>8. IncidentsTruthful'
  BY <1>1 DEF HandlerInv, IncidentsTruthful
<1>9. ForwardedAreLogged'
  BY <1>1, <1>3, <1>4 DEF HandlerInv, ForwardedAreLogged
<1> QED BY <1>4, <1>5, <1>6, <1>7, <1>8, <1>9 DEF HandlerInv

(* Rows of findings are rows of the table of incidents.                    *)
LEMMA NewRowsType ==
    ASSUME NEW w \in Workers, now \in Nat, job[w] \in JobType, job[w].req.ip \in IPs,
           NEW k \in DOMAIN NewRows(w)
    PROVE  /\ NewRows(w)[k] \in IncidentType
           /\ NewRows(w)[k].n = job[w].n /\ NewRows(w)[k].ip = job[w].req.ip
           /\ NewRows(w)[k].status = IF job[w].blocked THEN "Blocked" ELSE "Open"
<1> DEFINE i == [n |-> job[w].n, ip |-> job[w].req.ip, at |-> now, finding |-> job[w].found[k],
                 status |-> IF job[w].blocked THEN "Blocked" ELSE "Open"]
<1>1. k \in DOMAIN job[w].found /\ NewRows(w)[k] = i
  BY DEF NewRows, ip
<1>2. job[w].n \in Nat /\ job[w].found[k] \in AllFindings
  BY <1>1 DEF JobType
<1>3. i \in IncidentType
  BY <1>2 DEF IncidentType
<1> QED BY <1>1, <1>3

(* They make a sequence of rows, one for each finding.                     *)
LEMMA NewRowsSeq ==
    ASSUME NEW w \in Workers, now \in Nat, job[w] \in JobType, job[w].req.ip \in IPs
    PROVE  /\ NewRows(w) \in Seq(IncidentType) /\ DOMAIN NewRows(w) = DOMAIN job[w].found
           /\ Len(NewRows(w)) = Len(job[w].found)
           /\ \A k \in DOMAIN NewRows(w) :
                 /\ NewRows(w)[k].n = job[w].n /\ NewRows(w)[k].ip = job[w].req.ip
                 /\ NewRows(w)[k].status = IF job[w].blocked THEN "Blocked" ELSE "Open"
<1> DEFINE new == NewRows(w)
<1>1. DOMAIN new = DOMAIN job[w].found
  BY DEF NewRows
<1>2. \A k \in DOMAIN new :
         /\ new[k] \in IncidentType
         /\ new[k].n = job[w].n /\ new[k].ip = job[w].req.ip
         /\ new[k].status = IF job[w].blocked THEN "Blocked" ELSE "Open"
  BY NewRowsType
<1>3. job[w].found \in Seq(AllFindings)
  BY DEF JobType
<1>4. DOMAIN new = 1..Len(job[w].found) /\ Len(job[w].found) \in Nat
  BY <1>1, <1>3
<1>5. new = [k \in 1..Len(job[w].found) |-> new[k]]
  BY <1>3 DEF NewRows
<1> HIDE DEF new
<1>6. \A k \in 1..Len(job[w].found) : new[k] \in IncidentType
  BY <1>2, <1>4
<1>7. new \in [1..Len(job[w].found) -> IncidentType]
  BY <1>5, <1>6, Zenon
<1>8. new \in Seq(IncidentType) /\ Len(new) = Len(job[w].found)
  BY <1>4, <1>7
<1> QED BY <1>1, <1>2, <1>8 DEF new

(* Storing the incidents: they say what the handler knows of the request.  *)
LEMMA PersistIncidentsInv ==
    ASSUME NEW w \in Workers, HandlerInv, now \in Nat, PersistIncidents(w)
    PROVE  HandlerInv'
<1> DEFINE new == NewRows(w)
           severe == Cardinality({k \in DOMAIN job[w].found : IsSevere(job[w].found[k])})
           j == IF severe = 0 THEN Idle
                ELSE [job[w] EXCEPT !.phase = "followup", !.todo = severe]
<1>1. /\ job' = [job EXCEPT ![w] = j] /\ job[w].phase = "incidents"
      /\ incidents' = incidents \o new
      /\ UNCHANGED <<received, requests, forwarded, aborted, unstorable>>
  BY DEF PersistIncidents, In, Set, ghosts
<1>2. job[w] \in JobType /\ job[w].found \in Seq(AllFindings)
  BY DEF HandlerInv, JobsOK, JobType
<1>3. severe \in Int
  <2>1. IsFiniteSet(DOMAIN job[w].found)
    BY <1>2, FS_Interval
  <2> QED BY <2>1, FS_Subset, FS_CardinalityType
<1>4. /\ j \in JobType
      /\ \/ j = Idle
         \/ /\ j.phase = "followup" /\ j.n = job[w].n /\ j.req = job[w].req
            /\ j.blocked = job[w].blocked /\ j.status = job[w].status
  <2> HIDE DEF severe
  <2> QED BY <1>2, <1>3, IdleType DEF JobType, Phases
<1>5. /\ job[w].req.ip \in IPs /\ job[w].n \in 1..received /\ HasRow(w)
      /\ (job[w].blocked <=> job[w].n \notin forwarded)
      /\ (job[w].blocked => job[w].status = "403")
  BY <1>1 DEF HandlerInv, NumbersOK, Numbered, PhasesOK, PhaseOK
<1>6. /\ new \in Seq(IncidentType)
      /\ \A k \in DOMAIN new : /\ new[k].n = job[w].n /\ new[k].ip = job[w].req.ip
                               /\ new[k].status = IF job[w].blocked THEN "Blocked" ELSE "Open"
  BY <1>2, <1>5, NewRowsSeq
<1> HIDE DEF j, new, severe
<1>7. /\ incidents' \in Seq(IncidentType)
      /\ \A k \in DOMAIN incidents' :
            \/ k \in DOMAIN incidents /\ incidents'[k] = incidents[k]
            \/ \E i \in DOMAIN new : incidents'[k] = new[i]
  <2>1. incidents \in Seq(IncidentType)
    BY DEF HandlerInv, RowsOK
  <2>2. /\ incidents' \in Seq(IncidentType)
        /\ Len(incidents') = Len(incidents) + Len(new)
        /\ \A k \in 1..Len(incidents') :
              incidents'[k] = IF k <= Len(incidents) THEN incidents[k]
                              ELSE new[k - Len(incidents)]
    BY <1>1, <1>6, <2>1
  <2> QED BY <1>6, <2>1, <2>2
<1>8. /\ job'[w] = j
      /\ \A v \in Workers : v # w => job'[v] = job[v]
      /\ JobsOK'
  BY <1>1, <1>4 DEF HandlerInv, JobsOK
<1>9. NumbersOK'
  BY <1>1, <1>4, <1>8, IdleType DEF HandlerInv, NumbersOK, Numbered
<1>10. PhasesOK'
  BY <1>1, <1>4, <1>8, IdleType
  DEF HandlerInv, PhasesOK, PhaseOK, HasRow, Before, Upstream, Stored
<1>11. RowsOK'
  <2>1. \A v \in Workers : job'[v].phase \in Before =>
            v # w /\ job[v] = job'[v] /\ job[v].n # job[w].n
    BY <1>1, <1>4, <1>8, IdleType DEF HandlerInv, NumbersOK, Numbered, Before
  <2> QED BY <1>1, <1>5, <1>6, <1>7, <2>1 DEF HandlerInv, RowsOK
<1>12. IncidentsTruthful'
  <2>1. \A k \in DOMAIN new :
           /\ (new[k].status = "Blocked") <=> new[k].n \notin forwarded
           /\ \E r \in requests : r.id = new[k].n /\ r.ip = new[k].ip
                                   /\ (new[k].status = "Blocked" => r.status = "403")
    BY <1>5, <1>6 DEF HasRow
  <2>2. \A k \in DOMAIN incidents :
           /\ (incidents[k].status = "Blocked") <=> incidents[k].n \notin forwarded
           /\ \E r \in requests : r.id = incidents[k].n /\ r.ip = incidents[k].ip
                                   /\ (incidents[k].status = "Blocked" => r.status = "403")
    BY DEF HandlerInv, IncidentsTruthful
  <2>3. \A k \in DOMAIN incidents' :
           /\ (incidents'[k].status = "Blocked") <=> incidents'[k].n \notin forwarded
           /\ \E r \in requests : r.id = incidents'[k].n /\ r.ip = incidents'[k].ip
                                   /\ (incidents'[k].status = "Blocked" => r.status = "403")
    BY <1>7, <2>1, <2>2
  <2> QED BY <1>1, <2>3 DEF IncidentsTruthful
<1>13. ForwardedAreLogged'
  BY <1>1, <1>5, <1>8 DEF HandlerInv, ForwardedAreLogged, HasRow
<1> QED BY <1>8, <1>9, <1>10, <1>11, <1>12, <1>13 DEF HandlerInv

-----------------------------------------------------------------------------
(* Every action of a handler is one of these kinds, and the calls to the   *)
(* block list and to the alerts go on exactly in their own phases, which   *)
(* is why a handler can end with an error only where it has a row.         *)
BP == INSTANCE BlocklistProofs WITH severe <- Severe, lastIncident <- Len(incidents)

CallsOK ==
    /\ DOMAIN alr = Workers
    /\ \A w \in Workers :
          /\ blk[w].step # "idle" => \/ job[w].phase = "admin"
                                     \/ job[w].phase = "blocking" /\ blk[w].ip = ip(w)
          /\ alr[w].step # "idle" => job[w].phase = "alert"

PipelineInv == HandlerInv /\ CallsOK /\ BP!RowsInv

Kind(w) ==
    \/ Stays \/ Leaves(w)
    \/ \E j \in JobType : Enters(w, j) \/ Moves(w, j)
    \/ Forward(w) \/ PersistRequest(w) \/ PersistIncidents(w)

\* What the step does to the worker's own job and calls, and to no other's.
Own(w, j) ==
    /\ DOMAIN alr' = Workers
    /\ job'[w] = j
    /\ \A v \in Workers \ {w} : /\ job'[v] = job[v] /\ alr'[v] = alr[v]
                                 /\ blk'[v].step = blk[v].step /\ blk'[v].ip = blk[v].ip
    /\ blk'[w].step # "idle" => \/ j.phase = "admin"
                                \/ j.phase = "blocking" /\ blk'[w].ip = j.req.ip
    /\ alr'[w].step # "idle" => j.phase = "alert"

(* Only a handler in the phase of a call has it in progress.               *)
LEMMA OwnCalls ==
    ASSUME NEW w \in Workers, NEW j, CallsOK, Own(w, j)
    PROVE  CallsOK'
BY DEF CallsOK, Own, ip

(* A handler outside the phases of the two calls has none in progress.     *)
LEMMA QuietCalls ==
    ASSUME NEW w \in Workers, NEW j, JobsOK, CallsOK, UNCHANGED <<blk, alr>>,
           job' = [job EXCEPT ![w] = j],
           job[w].phase \notin {"blocking", "admin", "alert"}
    PROVE  Own(w, j)
BY DEF JobsOK, CallsOK, Own

-----------------------------------------------------------------------------
(* The actions of an idle worker.                                          *)
LEMMA ArriveKind ==
    ASSUME NEW w \in Workers, PipelineInv, Arrive(w)
    PROVE  Kind(w) /\ CallsOK'
<1> USE DEF PipelineInv, HandlerInv
<1>1. ASSUME NEW r \in Traffic, Receive(w, r) PROVE Kind(w) /\ CallsOK'
  <2> DEFINE j == Job("preblock", received + 1, r)
  <2>1. /\ job[w].phase = "idle" /\ received' = received + 1 /\ Kept
        /\ UNCHANGED <<blk, alr>>
        /\ job' = job \/ job' = [job EXCEPT ![w] = j]
    BY <1>1 DEF Receive, In, Set, Kept, rows, ghosts, blVars, alVars
  <2>2. /\ j \in JobType /\ j.phase = "preblock" /\ j.n = received + 1
        /\ j.req.ip \in IPs /\ ~j.blocked
    <3>1. r.ip \in IPs /\ r.findings \in Seq(PreForward)
      BY TrafficType DEF IsInspection
    <3>2. r.findings \in Seq(AllFindings)
      BY <3>1 DEF AllFindings
    <3> QED BY <3>1, <3>2 DEF NumbersOK, Job, JobType, Phases
  <2> HIDE DEF j
  <2>3. CASE job' = job
    BY <2>1, <2>3 DEF Stays, Kind, CallsOK, ip
  <2>4. CASE job' = [job EXCEPT ![w] = j]
    <3>1. Enters(w, j)
      BY <2>1, <2>2, <2>4 DEF Enters
    <3> QED BY <2>1, <2>2, <2>4, <3>1, QuietCalls, OwnCalls DEF Kind
  <2> QED BY <2>1, <2>3, <2>4
<1>2. ASSUME NEW a \in IPs, ManualBlock(w, a) PROVE Kind(w) /\ CallsOK'
  <2> DEFINE j == Job("admin", 0, NoRequest)
  <2>1. /\ job[w].phase = "idle" /\ received' = received + 1 /\ Kept
        /\ job' = [job EXCEPT ![w] = j] /\ UNCHANGED alr
    BY <1>2 DEF ManualBlock, In, Set, Kept, rows, ghosts, alVars
  <2>2. j \in JobType /\ j.phase = "admin" /\ j.n = 0
    BY DEF Job, NoRequest, JobType, Phases
  <2> HIDE DEF j
  <2>3. Enters(w, j)
    BY <2>1, <2>2 DEF Enters
  <2>4. \A v \in Workers : v # w => blk'[v] = blk[v]
    BY <1>2 DEF ManualBlock, BL!ManualBlock, BL!Go
  <2>5. Own(w, j)
    BY <2>1, <2>2, <2>4 DEF JobsOK, CallsOK, Own
  <2> QED BY <2>2, <2>3, <2>5, OwnCalls DEF Kind
<1>3. ASSUME NEW a \in IPs, Unblock(w, a) PROVE Kind(w) /\ CallsOK'
  <2>1. Stays /\ UNCHANGED alr
    BY <1>3 DEF Unblock, In, Stays, Kept, rows, ghosts, alVars
  <2>2. \A v \in Workers : blk'[v].step = blk[v].step /\ blk'[v].ip = blk[v].ip
    BY <1>3 DEF Unblock, BL!Unblock, BP!RowsInv, BP!RowsTypeOK
  <2> QED BY <2>1, <2>2 DEF Kind, Stays, CallsOK, ip
<1>4. ASSUME NEW a \in IPs, LoginForm(w, a) PROVE Kind(w) /\ CallsOK'
  <2> DEFINE j == Job("login", received + 1, NoRequest)
  <2>1. /\ job[w].phase = "idle" /\ received' = received + 1 /\ Kept
        /\ job' = [job EXCEPT ![w] = j] /\ UNCHANGED <<blk, alr>>
    BY <1>4 DEF LoginForm, In, Set, Kept, rows, ghosts, blVars, alVars
  <2>2. j \in JobType /\ j.phase = "login" /\ j.n = received + 1 /\ ~j.blocked
    BY DEF NumbersOK, Job, NoRequest, JobType, Phases
  <2> HIDE DEF j
  <2>3. Enters(w, j)
    BY <2>1, <2>2 DEF Enters
  <2> QED BY <2>1, <2>2, <2>3, QuietCalls, OwnCalls DEF Kind
<1>5. ASSUME ReadOnlyPage(w) PROVE Kind(w) /\ CallsOK'
  BY <1>5 DEF ReadOnlyPage, vars, rows, ghosts, blVars, alVars, Kind, Stays, Kept, CallsOK, ip
<1> QED BY <1>1, <1>2, <1>3, <1>4, <1>5 DEF Arrive

(* Inspection, the brute force check, and what the site answers.           *)
LEMMA RequestKind ==
    ASSUME NEW w \in Workers, PipelineInv,
           \/ RateLimited(w) \/ Preblock(w) \/ PreblockCount(w)
           \/ UpstreamUnavailable(w) \/ UpstreamAnswers(w) \/ LoginRejected(w)
           \/ DetectCleanup(w) \/ DetectCount(w) \/ Password(w)
    PROVE  Kind(w) /\ CallsOK'
<1> USE DEF PipelineInv, HandlerInv
<1>1. job[w] \in JobType
  BY DEF JobsOK
<1>2. ASSUME NEW j \in JobType, Moves(w, j), UNCHANGED <<blk, alr>>,
             job[w].phase \in {"preblock", "precount", "upstream", "detect"}
      PROVE  Kind(w) /\ CallsOK'
  BY <1>2, QuietCalls, OwnCalls DEF Moves, Kind
<1>3. ASSUME Leaves(w), UNCHANGED <<blk, alr>>, job[w].phase \in {"preblock", "login"}
      PROVE  Kind(w) /\ CallsOK'
  BY <1>3, QuietCalls, OwnCalls DEF Leaves, Kind
<1>4. ASSUME NEW offender, Refuse(w, offender), Kept, UNCHANGED <<received, blk, alr>>,
             job[w].phase \in {"preblock", "precount"}
      PROVE  Kind(w) /\ CallsOK'
  <2> DEFINE blocking == ShouldBlock(ip(w), job[w].req.path, job[w].found)
             found == IF blocking THEN job[w].found ELSE Append(job[w].found, RepeatOffender)
             j == [job[w] EXCEPT !.phase = "persist", !.status = "403", !.blocked = TRUE,
                                 !.found = found]
             k == [job[w] EXCEPT !.phase = "forward"]
  <2>1. job' = [job EXCEPT ![w] = j] \/ job' = [job EXCEPT ![w] = k]
    BY <1>4 DEF Refuse, Set, To
  <2>2. found \in Seq(AllFindings)
    BY <1>1 DEF JobType, AllFindings
  <2>3. /\ j \in JobType /\ j.n = job[w].n /\ j.req = job[w].req
        /\ j.phase = "persist" /\ j.status = "403" /\ j.blocked
    <3> HIDE DEF found
    <3> QED BY <1>1, <2>2 DEF JobType, Phases
  <2>4. /\ k \in JobType /\ k.n = job[w].n /\ k.req = job[w].req
        /\ k.phase = "forward" /\ k.blocked = job[w].blocked
    BY <1>1 DEF JobType, Phases
  <2>5. ~job[w].blocked
    BY <1>4 DEF PhasesOK, PhaseOK, Before
  <2> HIDE DEF j, k
  <2>6. \/ Moves(w, j) \/ Moves(w, k)
    BY <1>4, <2>1, <2>3, <2>4, <2>5 DEF Moves, Before
  <2> QED BY <1>2, <1>4, <2>3, <2>4, <2>6
<1>5. ASSUME RateLimited(w) PROVE Kind(w) /\ CallsOK'
  BY <1>3, <1>5
  DEF RateLimited, Leaves, In, Set, Kept, rows, ghosts, blVars, alVars, Before
<1>6. ASSUME Preblock(w) PROVE Kind(w) /\ CallsOK'
  <2>1. /\ job[w].phase = "preblock" /\ Kept /\ UNCHANGED <<received, blk, alr>>
        /\ \/ Refuse(w, FALSE)
           \/ job' = [job EXCEPT ![w] = [job[w] EXCEPT !.phase = "precount"]]
    BY <1>6 DEF Preblock, To, Set, In, Kept, rows, ghosts, blVars, alVars
  <2>2. CASE Refuse(w, FALSE)
    BY <1>4, <2>1, <2>2
  <2>3. CASE job' = [job EXCEPT ![w] = [job[w] EXCEPT !.phase = "precount"]]
    <3> DEFINE j == [job[w] EXCEPT !.phase = "precount"]
    <3>1. /\ j \in JobType /\ j.n = job[w].n /\ j.req = job[w].req
          /\ j.phase = "precount" /\ j.blocked = job[w].blocked
      BY <1>1 DEF JobType, Phases
    <3>2. ~job[w].blocked
      BY <2>1 DEF PhasesOK, PhaseOK, Before
    <3>3. job' = [job EXCEPT ![w] = j]
      BY <2>3
    <3> HIDE DEF j
    <3>4. Moves(w, j)
      BY <2>1, <3>1, <3>2, <3>3 DEF Moves, Before
    <3> QED BY <1>2, <2>1, <3>1, <3>4
  <2> QED BY <2>1, <2>2, <2>3
<1>7. ASSUME PreblockCount(w) PROVE Kind(w) /\ CallsOK'
  BY <1>4, <1>7 DEF PreblockCount, In, Kept, rows, ghosts, blVars, alVars
<1>8. ASSUME NEW phase \in {"detect", "persist"}, NEW status \in {"200", "403", "502"},
             NEW found \in Seq(AllFindings), Kept, UNCHANGED <<received, blk, alr>>,
             job[w].phase \in {"upstream", "detect"},
             job' = [job EXCEPT ![w] = [job[w] EXCEPT !.phase = phase, !.status = status,
                                                      !.found = found]]
      PROVE  Kind(w) /\ CallsOK'
  <2> DEFINE j == [job[w] EXCEPT !.phase = phase, !.status = status, !.found = found]
  <2>1. /\ j \in JobType /\ j.n = job[w].n /\ j.req = job[w].req
        /\ j.phase = phase /\ j.blocked = job[w].blocked
    BY <1>1 DEF JobType, Phases
  <2>2. ~job[w].blocked
    BY <1>8 DEF PhasesOK, PhaseOK, Upstream
  <2>3. job' = [job EXCEPT ![w] = j]
    BY <1>8
  <2> HIDE DEF j
  <2>4. Moves(w, j)
    BY <1>8, <2>1, <2>2, <2>3 DEF Moves, Upstream
  <2> QED BY <1>2, <1>8, <2>1, <2>4
<1>9. ASSUME UpstreamUnavailable(w) \/ UpstreamAnswers(w) \/ LoginRejected(w)
      PROVE  Kind(w) /\ CallsOK'
  <2>1. /\ job[w].phase = "upstream" /\ Kept /\ UNCHANGED <<received, blk, alr>>
        /\ \E phase \in {"detect", "persist"}, status \in {"200", "403", "502"} :
              job' = [job EXCEPT ![w] = [job[w] EXCEPT !.phase = phase, !.status = status]]
    BY <1>9
    DEF UpstreamUnavailable, UpstreamAnswers, LoginRejected, In, Set, Kept, rows, ghosts,
        blVars, alVars
  <2>2. PICK phase \in {"detect", "persist"}, status \in {"200", "403", "502"} :
           job' = [job EXCEPT ![w] = [job[w] EXCEPT !.phase = phase, !.status = status]]
    BY <2>1
  <2>3. [job[w] EXCEPT !.phase = phase, !.status = status]
          = [job[w] EXCEPT !.phase = phase, !.status = status, !.found = job[w].found]
    BY <1>1 DEF JobType
  <2>4. job[w].found \in Seq(AllFindings)
    BY <1>1 DEF JobType
  <2> QED BY <1>8, <2>1, <2>2, <2>3, <2>4
<1>10. ASSUME DetectCleanup(w) PROVE Kind(w) /\ CallsOK'
  BY <1>10 DEF DetectCleanup, rows, ghosts, blVars, alVars, Kind, Stays, Kept, CallsOK, ip
<1>11. ASSUME DetectCount(w) PROVE Kind(w) /\ CallsOK'
  <2> DEFINE found == IF LA!CountRecent(ip(w)) >= Threshold
                      THEN Append(job[w].found, BruteForceDetected) ELSE job[w].found
  <2>1. /\ job[w].phase = "detect" /\ Kept /\ UNCHANGED <<received, blk, alr>>
        /\ job' = [job EXCEPT ![w] = [job[w] EXCEPT !.phase = "persist", !.found = found]]
    BY <1>11 DEF DetectCount, In, Set, Kept, rows, ghosts, blVars, alVars
  <2>2. found \in Seq(AllFindings)
    BY <1>1 DEF JobType, AllFindings
  <2> HIDE DEF found
  <2> DEFINE j == [job[w] EXCEPT !.phase = "persist", !.found = found]
  <2>3. /\ j \in JobType /\ j.n = job[w].n /\ j.req = job[w].req
        /\ j.phase = "persist" /\ j.blocked = job[w].blocked
    BY <1>1, <2>2 DEF JobType, Phases
  <2>4. ~job[w].blocked
    BY <2>1 DEF PhasesOK, PhaseOK, Upstream
  <2>5. job' = [job EXCEPT ![w] = j]
    BY <2>1
  <2> HIDE DEF j
  <2>6. Moves(w, j)
    BY <2>1, <2>3, <2>4, <2>5 DEF Moves, Upstream
  <2> QED BY <1>2, <2>1, <2>3, <2>6
<1>12. ASSUME Password(w) PROVE Kind(w) /\ CallsOK'
  BY <1>3, <1>12
  DEF Password, Leaves, In, Set, Kept, rows, ghosts, blVars, alVars, Before
<1> QED BY <1>5, <1>6, <1>7, <1>9, <1>10, <1>11, <1>12

(* Forwarding and storing leave the calls alone.                           *)
LEMMA StoreKind ==
    ASSUME NEW w \in Workers, PipelineInv,
           Forward(w) \/ PersistRequest(w) \/ PersistIncidents(w)
    PROVE  Kind(w) /\ CallsOK'
<1> USE DEF PipelineInv, HandlerInv
<1>1. /\ \E j : job' = [job EXCEPT ![w] = j]
      /\ job[w].phase \in {"forward", "persist", "incidents"} /\ UNCHANGED <<blk, alr>>
  BY DEF Forward, PersistRequest, PersistIncidents, In, To, Set, blVars, alVars
<1> QED BY <1>1, QuietCalls, OwnCalls DEF Kind

(* Following up: a call for an alert, then one for an automatic block.     *)
LEMMA FollowUpKind ==
    ASSUME NEW w \in Workers, PipelineInv,
           StartAlert(w) \/ ContinueAlert(w) \/ StartAutoBlock(w) \/ ContinueAutoBlock(w)
    PROVE  Kind(w) /\ CallsOK'
<1> USE DEF PipelineInv, HandlerInv
<1>1. job[w] \in JobType
  BY DEF JobsOK
<1>2. ASSUME NEW j \in JobType, job' = [job EXCEPT ![w] = j], Kept, UNCHANGED received,
             job[w].phase \in Stored, j.phase \in Stored,
             j.n = job[w].n, j.req = job[w].req, j.status = job[w].status,
             j.blocked = job[w].blocked
      PROVE  Kind(w)
  BY <1>2 DEF Kind, Moves
<1>3. ASSUME StartAlert(w) \/ ContinueAlert(w) PROVE Kind(w) /\ CallsOK'
  <2> DEFINE j == [job[w] EXCEPT !.phase = IF alr'[w].step = "idle" THEN "autoblock" ELSE "alert"]
  <2>1. /\ job[w].phase \in {"followup", "alert"} /\ Kept /\ UNCHANGED <<received, blk>>
        /\ job' = [job EXCEPT ![w] = j]
    BY <1>3 DEF StartAlert, ContinueAlert, In, To, Set, Kept, rows, ghosts, blVars
  <2>2. /\ j \in JobType /\ j.n = job[w].n /\ j.req = job[w].req /\ j.status = job[w].status
        /\ j.blocked = job[w].blocked
        /\ j.phase = IF alr'[w].step = "idle" THEN "autoblock" ELSE "alert"
    BY <1>1 DEF JobType, Phases
  <2>3. DOMAIN alr' = Workers /\ \A v \in Workers \ {w} : alr'[v] = alr[v]
    BY <1>3
    DEF CallsOK, StartAlert, ContinueAlert, AL!AlertCheck, AL!ReadRow, AL!ReadCooldown,
        AL!ReadAddress, AL!SendMail, AL!SendFails, AL!RecordSelect, AL!RecordCommit,
        AL!RecordFails, AL!Go
  <2> HIDE DEF j
  <2>4. Own(w, j)
    BY <2>1, <2>2, <2>3 DEF JobsOK, CallsOK, Own
  <2> QED BY <1>2, <2>1, <2>2, <2>4, OwnCalls DEF Stored
<1>4. ASSUME StartAutoBlock(w) \/ ContinueAutoBlock(w) PROVE Kind(w) /\ CallsOK'
  <2> DEFINE j == IF blk'[w].step # "idle" THEN [job[w] EXCEPT !.phase = "blocking"]
                  ELSE IF job[w].todo = 1 THEN Idle
                  ELSE [job[w] EXCEPT !.phase = "followup", !.todo = @ - 1]
  <2>1. /\ job[w].phase \in {"autoblock", "blocking"} /\ Kept /\ UNCHANGED <<received, alr>>
        /\ job' = [job EXCEPT ![w] = j]
    BY <1>4
    DEF StartAutoBlock, ContinueAutoBlock, AfterBlockStep, In, To, Set, Kept, rows, alVars
  <2>2. \/ j = Idle /\ blk'[w].step = "idle"
        \/ /\ j \in JobType /\ j.n = job[w].n /\ j.req = job[w].req
           /\ j.status = job[w].status /\ j.blocked = job[w].blocked
           /\ j.phase \in {"blocking", "followup"}
           /\ blk'[w].step # "idle" => j.phase = "blocking"
    <3>1. CASE blk'[w].step # "idle"
      BY <1>1, <3>1 DEF JobType, Phases
    <3>2. CASE blk'[w].step = "idle" /\ job[w].todo = 1
      BY <3>2
    <3>3. CASE blk'[w].step = "idle" /\ job[w].todo # 1
      <4>1. [job[w] EXCEPT !.phase = "followup", !.todo = @ - 1]
              = [job[w] EXCEPT !.phase = "followup", !.todo = job[w].todo - 1]
        BY <1>1 DEF JobType
      <4>2. job[w].todo - 1 \in Int
        BY <1>1 DEF JobType
      <4> QED BY <1>1, <3>3, <4>1, <4>2 DEF JobType, Phases
    <3> QED BY <3>1, <3>2, <3>3
  <2>3. \A v \in Workers \ {w} : blk'[v] = blk[v]
    BY <1>4
    DEF StartAutoBlock, ContinueAutoBlock, BL!AutoBlockCheck, BL!AutoBlockCount,
        BL!BlockSelect, BL!BlockCommit, BL!BlockFails, BL!Go, BP!RowsInv, BP!RowsTypeOK
  <2>4. blk'[w].step # "idle" => blk'[w].ip = job[w].req.ip
    <3>1. CASE StartAutoBlock(w)
      BY <3>1
      DEF StartAutoBlock, ip, BL!AutoBlockCheck, BL!Go, BL!Call, BL!Idle, BP!RowsInv,
          BP!RowsTypeOK
    <3>2. CASE ContinueAutoBlock(w)
      <4>1. BL!AutoBlockCount(w) \/ BL!BlockSelect(w) \/ BL!BlockCommit(w) \/ BL!BlockFails(w)
        BY <3>2 DEF ContinueAutoBlock
      <4>2. blk[w].step # "idle" /\ job[w].phase = "blocking"
        BY <3>2, <4>1
        DEF ContinueAutoBlock, In, BL!AutoBlockCount, BL!BlockSelect, BL!BlockCommit,
            BL!BlockFails, BL!At
      <4>3. blk[w].ip = job[w].req.ip
        BY <4>2 DEF CallsOK, ip
      <4>4. blk'[w].step # "idle" => blk'[w].ip = blk[w].ip
        <5>1. \A c : blk' = [blk EXCEPT ![w] = c] => blk'[w] = c
          BY DEF BP!RowsInv, BP!RowsTypeOK
        <5>2. CASE BL!AutoBlockCount(w)
          BY <5>1, <5>2 DEF BL!AutoBlockCount, BL!Go, BL!Call, BL!Idle
        <5>3. CASE BL!BlockSelect(w)
          BY <5>3 DEF BL!BlockSelect, BL!Go, BP!RowsInv, BP!RowsTypeOK
        <5>4. CASE BL!BlockCommit(w)
          BY <5>1, <5>4 DEF BL!BlockCommit, BL!Go, BL!Call, BL!Idle
        <5>5. CASE BL!BlockFails(w)
          BY <5>1, <5>5 DEF BL!BlockFails, BL!Go, BL!Call
        <5> QED BY <4>1, <5>2, <5>3, <5>4, <5>5
      <4> QED BY <4>3, <4>4
    <3> QED BY <1>4, <3>1, <3>2
  <2> HIDE DEF j
  <2>5. Own(w, j)
    BY <2>1, <2>2, <2>3, <2>4, IdleType DEF JobsOK, CallsOK, Own
  <2>6. j = Idle => Leaves(w)
    BY <2>1 DEF Leaves, Stored
  <2> QED BY <1>2, <2>1, <2>2, <2>5, <2>6, OwnCalls DEF Stored, Kind
<1> QED BY <1>3, <1>4

(* An admin's block, and every way a handler ends early: the error of a    *)
(* call ends it where it has a row, the others are accounted for.          *)
LEMMA EndKind ==
    ASSUME NEW w \in Workers, PipelineInv,
           \/ ContinueManualBlock(w) \/ InternalError(w)
           \/ PersistFails(w) \/ LoginRefused(w) \/ Crash(w)
    PROVE  Kind(w) /\ CallsOK'
<1> USE DEF PipelineInv, HandlerInv
<1>1. ASSUME ContinueManualBlock(w) PROVE Kind(w) /\ CallsOK'
  <2>1. /\ job[w].phase = "admin" /\ Kept /\ UNCHANGED <<received, alr>>
        /\ IF blk'[w].step = "idle" THEN job' = [job EXCEPT ![w] = Idle] ELSE job' = job
    BY <1>1 DEF ContinueManualBlock, In, Set, Kept, rows, alVars
  <2>2. \A v \in Workers \ {w} : blk'[v] = blk[v]
    BY <1>1
    DEF ContinueManualBlock, BL!BlockSelect, BL!BlockCommit, BL!BlockFails, BL!Go,
        BP!RowsInv, BP!RowsTypeOK
  <2>3. CASE blk'[w].step = "idle"
    <3>1. Leaves(w) /\ Own(w, Idle)
      BY <2>1, <2>2, <2>3 DEF Leaves, JobsOK, CallsOK, Own
    <3> QED BY <3>1, OwnCalls DEF Kind
  <2>4. CASE blk'[w].step # "idle"
    <3>1. Stays /\ Own(w, job[w])
      BY <2>1, <2>2, <2>4 DEF Stays, CallsOK, Own, ip
    <3> QED BY <3>1, OwnCalls DEF Kind
  <2> QED BY <2>3, <2>4
<1>2. ASSUME EndEarly(w) PROVE CallsOK'
  <2>1. /\ job' = [job EXCEPT ![w] = Idle]
        /\ (blk' = blk /\ blk[w].step = "idle") \/ blk' = [blk EXCEPT ![w] = BL!Idle]
        /\ (alr' = alr /\ alr[w].step = "idle") \/ alr' = [alr EXCEPT ![w] = AL!Idle]
    BY <1>2 DEF EndEarly, Set, blVars, alVars, BL!Abandon, BL!Go, AL!Abandon, AL!Go
  <2>2. BL!Idle.step = "idle" /\ AL!Idle.step = "idle"
    BY DEF BL!Idle, BL!Call, AL!Idle, AL!Call
  <2>3. Own(w, Idle)
    BY <2>1, <2>2 DEF JobsOK, CallsOK, BP!RowsInv, BP!RowsTypeOK, Own
  <2> QED BY <2>3, OwnCalls
<1>3. ASSUME InternalError(w) PROVE Kind(w) /\ CallsOK'
  <2>1. job[w].phase \in Stored \union {"admin"}
    BY <1>3 DEF InternalError, CallsOK, Stored
  <2> QED BY <1>2, <1>3, <2>1 DEF InternalError, EndEarly, Set, Kept, rows, Leaves, Kind
<1>4. ASSUME PersistFails(w) \/ Crash(w) PROVE Kind(w) /\ CallsOK'
  BY <1>2, <1>4 DEF PersistFails, Crash, EndEarly, Set, Kept, rows, Leaves, Kind
<1>5. ASSUME LoginRefused(w) PROVE Kind(w) /\ CallsOK'
  <2>1. /\ job[w].phase = "upstream" /\ job' = [job EXCEPT ![w] = Idle] /\ Kept
        /\ job[w].n \in unstorable' /\ UNCHANGED <<received, blk, alr>>
    BY <1>5 DEF LoginRefused, In, Set, Kept, rows, blVars, alVars
  <2> QED BY <2>1, QuietCalls, OwnCalls DEF Leaves, Kind
<1> QED BY <1>1, <1>3, <1>4, <1>5

-----------------------------------------------------------------------------
(* What a handler does to the block list is what the list's own module     *)
(* allows, so the invariant proved there holds in the composition.         *)
LEMMA BlocklistSteps ==
    ASSUME PipelineInv, [Next]_vars
    PROVE  BP!RowsStep
<1> USE DEF BL!stored, BP!stored
<1>1. now \in Nat /\ JobsOK /\ PhasesOK
  BY DEF PipelineInv, HandlerInv, BP!RowsInv, BP!RowsTypeOK
<1>2. ASSUME UNCHANGED <<now, blVars>> PROVE BP!RowsStep
  BY <1>1, <1>2 DEF blVars, BP!RowsStep
<1>3. CASE Tick
  BY <1>1, <1>3 DEF Tick, blVars, BP!RowsStep
<1>4. CASE UNCHANGED vars
  BY <1>2, <1>4 DEF vars
<1>5. ASSUME NEW w \in Workers, Arrive(w) PROVE BP!RowsStep
  <2>1. ASSUME NEW a \in IPs, ManualBlock(w, a) PROVE BP!RowsStep
    <3>1. BP!ManualBlock(w, a)
      BY <2>1
      DEF ManualBlock, BL!ManualBlock, BL!At, BL!Go, BL!Call, BL!Permanent,
          BP!ManualBlock, BP!At, BP!Go, BP!Call, BP!Permanent
    <3> QED BY <3>1 DEF BP!RowsStep
  <2>2. ASSUME NEW a \in IPs, Unblock(w, a) PROVE BP!RowsStep
    <3>1. BP!Unblock(w, a)
      BY <2>2 DEF Unblock, BL!Unblock, BL!At, BP!Unblock, BP!At
    <3> QED BY <3>1 DEF BP!RowsStep
  <2>3. ASSUME (\E r \in Traffic : Receive(w, r)) \/ (\E a \in IPs : LoginForm(w, a))
                 \/ ReadOnlyPage(w)
        PROVE  UNCHANGED <<now, blVars>>
    BY <2>3 DEF Receive, LoginForm, ReadOnlyPage, vars
  <2> QED BY <1>2, <1>5, <2>1, <2>2, <2>3 DEF Arrive
<1>6. ASSUME NEW w \in Workers, StartAutoBlock(w) PROVE BP!RowsStep
  <2>1. ip(w) \in IPs /\ job[w].blocked \in BOOLEAN
    BY <1>1, <1>6 DEF StartAutoBlock, In, PhasesOK, PhaseOK, JobsOK, JobType, ip
  <2>2. BP!AutoBlockCheck(w, ip(w), job[w].blocked)
    BY <1>6
    DEF StartAutoBlock, BL!AutoBlockCheck, BL!IsBlocked, BL!At, BL!Go, BL!Call, BL!Idle,
        BL!Permanent, BP!AutoBlockCheck, BP!IsBlocked, BP!At, BP!Go, BP!Call, BP!Idle,
        BP!Permanent
  <2> QED BY <2>1, <2>2 DEF BP!RowsStep
<1>7. ASSUME NEW w \in Workers, ContinueAutoBlock(w) \/ ContinueManualBlock(w)
      PROVE  BP!RowsStep
  <2>1. BL!AutoBlockCount(w) \/ BL!BlockSelect(w) \/ BL!BlockCommit(w) \/ BL!BlockFails(w)
    BY <1>7 DEF ContinueAutoBlock, ContinueManualBlock
  <2>2. BL!AutoBlockCount(w) => BP!AutoBlockCount(w)
    <3>1. BL!CountSevere(blk[w].ip) = BP!CountSevere(blk[w].ip)
      BY DEF BL!CountSevere, BL!Cardinality, BP!CountSevere, BP!Cardinality
    <3> QED
      BY <3>1
      DEF BL!AutoBlockCount, BL!At, BL!Go, BL!Call, BL!Idle, BL!Permanent,
          BP!AutoBlockCount, BP!At, BP!Go, BP!Call, BP!Idle, BP!Permanent
  <2>3. BL!BlockSelect(w) => BP!BlockSelect(w)
    BY DEF BL!BlockSelect, BL!AutoUnderWay, BL!At, BL!Go, BL!Permanent,
           BP!BlockSelect, BP!AutoUnderWay, BP!At, BP!Go, BP!Permanent
  <2>4. BL!BlockCommit(w) => BP!BlockCommit(w)
    BY DEF BL!BlockCommit, BL!SetRow, BL!Written, BL!AutoUnderWay, BL!At, BL!Go, BL!Call,
           BL!Idle, BL!Permanent, BP!BlockCommit, BP!SetRow, BP!Written, BP!AutoUnderWay,
           BP!At, BP!Go, BP!Call, BP!Idle, BP!Permanent
  <2>5. BL!BlockFails(w) => BP!BlockFails(w)
    BY DEF BL!BlockFails, BL!At, BL!Go, BL!Call, BL!Permanent,
           BP!BlockFails, BP!At, BP!Go, BP!Call, BP!Permanent
  <2> QED BY <2>1, <2>2, <2>3, <2>4, <2>5 DEF BP!RowsStep
<1>8. ASSUME NEW w \in Workers, EndEarly(w) PROVE BP!RowsStep
  <2>1. CASE blk[w].step = "idle"
    BY <1>2, <1>8, <2>1 DEF EndEarly
  <2>2. CASE blk[w].step # "idle"
    <3>1. BP!Abandon(w)
      BY <1>8, <2>2
      DEF EndEarly, BL!Abandon, BL!At, BL!Go, BL!Call, BL!Idle, BL!Permanent,
          BP!Abandon, BP!At, BP!Go, BP!Call, BP!Idle, BP!Permanent
    <3> QED BY <3>1 DEF BP!RowsStep
  <2> QED BY <2>1, <2>2
<1>9. ASSUME NEW w \in Workers, Progress(w) \/ Crash(w) PROVE BP!RowsStep
  <2>1. CASE InternalError(w) \/ PersistFails(w) \/ Crash(w)
    BY <1>8, <2>1 DEF InternalError, PersistFails, Crash
  <2>2. ASSUME \/ RateLimited(w) \/ Preblock(w) \/ PreblockCount(w) \/ Forward(w)
               \/ UpstreamUnavailable(w) \/ UpstreamAnswers(w)
               \/ LoginRejected(w) \/ LoginRefused(w)
        PROVE  UNCHANGED <<now, blVars>>
    BY <2>2
    DEF RateLimited, Preblock, PreblockCount, Forward, UpstreamUnavailable,
        UpstreamAnswers, LoginRejected, LoginRefused
  <2>3. ASSUME \/ DetectCleanup(w) \/ DetectCount(w) \/ PersistRequest(w)
               \/ PersistIncidents(w) \/ StartAlert(w) \/ ContinueAlert(w) \/ Password(w)
        PROVE  UNCHANGED <<now, blVars>>
    BY <2>3
    DEF DetectCleanup, DetectCount, PersistRequest, PersistIncidents, StartAlert,
        ContinueAlert, Password
  <2> QED BY <1>2, <1>6, <1>7, <1>9, <2>1, <2>2, <2>3 DEF Progress
<1> QED BY <1>3, <1>4, <1>5, <1>9 DEF Next

-----------------------------------------------------------------------------
(* The invariant holds initially ...                                       *)
LEMMA PipelineInit == Init => PipelineInv
<1> SUFFICES ASSUME Init PROVE PipelineInv
    OBVIOUS
<1>1. HandlerInv
  BY IdleType
  DEF Init, HandlerInv, JobsOK, NumbersOK, Numbered, PhasesOK, PhaseOK, HasRow, RowsOK,
      IncidentsTruthful, ForwardedAreLogged, Before, Upstream, Stored
<1>2. CallsOK
  BY DEF Init, BL!Init, BL!Idle, BL!Call, AL!Init, AL!Idle, AL!Call, CallsOK
<1>3. BP!RowsInv
  <2>1. BP!Init
    BY DEF Init, BL!Init, BL!Idle, BL!Call, BL!Permanent, BP!Init, BP!Idle, BP!Call,
           BP!Permanent
  <2> QED
    BY <2>1, NoIPAssumption, AutoThresholdPositive, AutoWindowPositive, AutoDurationType,
       AutoBlockEnabledType, BoundsNat, BP!InitRows
    DEF Permanent, BP!Permanent
<1> QED BY <1>1, <1>2, <1>3 DEF PipelineInv

(* ... and every step keeps it.                                            *)
LEMMA PipelineStep == PipelineInv /\ [Next]_vars => PipelineInv'
<1> SUFFICES ASSUME PipelineInv, [Next]_vars PROVE PipelineInv'
    OBVIOUS
<1>1. BP!RowsInv'
  BY BlocklistSteps, NoIPAssumption, AutoThresholdPositive, AutoWindowPositive,
     AutoDurationType, AutoBlockEnabledType, BoundsNat, BP!RowsStepInv
  DEF PipelineInv, Permanent, BP!Permanent
<1>2. ASSUME NEW w \in Workers, Kind(w) PROVE HandlerInv'
  <2>1. now \in Nat /\ HandlerInv
    BY DEF PipelineInv, BP!RowsInv, BP!RowsTypeOK
  <2> QED
    BY <1>2, <2>1, StaysInv, EntersInv, MovesInv, LeavesInv, ForwardInv, PersistRequestInv,
       PersistIncidentsInv
    DEF Kind
<1>3. ASSUME NEW w \in Workers, Arrive(w) \/ Progress(w) \/ Crash(w)
      PROVE  HandlerInv' /\ CallsOK'
  BY <1>2, <1>3, ArriveKind, RequestKind, StoreKind, FollowUpKind, EndKind DEF Progress
<1>4. CASE Tick \/ UNCHANGED vars
  <2>1. Stays /\ UNCHANGED <<blk, alr>>
    BY <1>4 DEF Tick, vars, rows, ghosts, blVars, alVars, Stays, Kept
  <2> QED BY <1>1, <2>1, StaysInv DEF PipelineInv, CallsOK, Stays, ip
<1> QED BY <1>1, <1>3, <1>4 DEF Next, PipelineInv

-----------------------------------------------------------------------------
(* The invariant of the composition holds in every reachable state.        *)
THEOREM PipelineInvariant == Spec => []PipelineInv
BY PipelineInit, PipelineStep, PTL DEF Spec

(* However many workers serve whatever traffic, an incident in the log is  *)
(* "Blocked" exactly when its request never went upstream, and its request *)
(* is logged (persist_request_and_incidents() in proxy_app.py).            *)
THEOREM LogIsTruthful == Spec => []IncidentsTruthful
<1>1. PipelineInv => IncidentsTruthful
  BY DEF PipelineInv, HandlerInv
<1> QED BY <1>1, PipelineInvariant, PTL

(* No request that proxy() sent upstream goes unlogged, but for a killed   *)
(* handler and a row that the database refuses.                            *)
THEOREM NothingUnlogged == Spec => []ForwardedAreLogged
<1>1. PipelineInv => ForwardedAreLogged
  BY DEF PipelineInv, HandlerInv
<1> QED BY <1>1, PipelineInvariant, PTL

(* In the composed system too, an admin's block that no automatic block of *)
(* the same client overlapped stays until it is lifted.                    *)
THEOREM AdminBlockIsKept == Spec => []LoneManualBlockSticks
<1>1. PipelineInv => LoneManualBlockSticks
  BY DEF PipelineInv, BP!RowsInv, BP!GuardedIsSafe, BP!Guarded, BP!Safe,
         LoneManualBlockSticks, BL!LoneManualBlockSticks, BL!Permanent, BP!Permanent
<1> QED BY <1>1, PipelineInvariant, PTL

-----------------------------------------------------------------------------
(* What still reaches upstream once an ip is blocked.                      *)

(* The bound is inductive next to the invariant of the handlers: a block   *)
(* is committed by a worker that is not on its way to the site, a blocked  *)
(* ip's requests do not pass the check, and a request that is forwarded is *)
(* no longer on its way.                                                   *)
Bound(a) ==
    BL!IsBlocked(a) =>
        Cardinality(leaked[a]) + Cardinality(PastCheck(a)) < Cardinality(Workers)
Counted(a) == IsFiniteSet(leaked[a]) /\ Bound(a)

LeakInv == PipelineInv /\ DOMAIN leaked = IPs /\ \A a \in IPs : Counted(a)

-----------------------------------------------------------------------------
(* The steps that do not change what is counted.                           *)
StaysFree(a) == BL!IsBlocked(a)' => BL!IsBlocked(a)
Calm(a) == /\ leaked'[a] = leaked[a] /\ StaysFree(a)
           /\ BL!IsBlocked(a)' => PastCheck(a)' \subseteq PastCheck(a)

(* A step that sends nothing upstream and blocks nobody.                   *)
LEMMA CalmCounted ==
    ASSUME NEW a \in IPs, Counted(a), Calm(a)
    PROVE  Counted(a)'
<1>1. IsFiniteSet(leaked[a]) /\ IsFiniteSet(PastCheck(a))
  BY WorkersFinite, FS_Subset DEF Counted, PastCheck
<1>2. SUFFICES ASSUME BL!IsBlocked(a)'
      PROVE Cardinality(leaked'[a]) + Cardinality(PastCheck(a)') < Cardinality(Workers)
  BY <1>1 DEF Counted, Calm, Bound
<1>3. Cardinality(leaked'[a]) + Cardinality(PastCheck(a)')
          <= Cardinality(leaked[a]) + Cardinality(PastCheck(a))
  <2>1. leaked'[a] = leaked[a] /\ PastCheck(a)' \subseteq PastCheck(a)
    BY <1>2 DEF Calm
  <2>2. /\ IsFiniteSet(PastCheck(a)')
        /\ Cardinality(PastCheck(a)') <= Cardinality(PastCheck(a))
    BY <1>1, <2>1, FS_Subset
  <2>3. /\ Cardinality(leaked[a]) \in Nat /\ Cardinality(PastCheck(a)) \in Nat
        /\ Cardinality(PastCheck(a)') \in Nat
    BY <1>1, <2>2, FS_CardinalityType
  <2> QED BY <2>1, <2>2, <2>3
<1>4. Cardinality(leaked[a]) + Cardinality(PastCheck(a)) < Cardinality(Workers)
  BY <1>2 DEF Calm, StaysFree, Counted, Bound
<1>5. IsFiniteSet(PastCheck(a)')
  BY <1>1, <1>2, FS_Subset DEF Calm
<1> QED
  BY <1>1, <1>3, <1>4, <1>5, WorkersFinite, FS_CardinalityType DEF Calm

(* Time may lift a block, and brings none back.                            *)
LEMMA FreeStaysFree ==
    ASSUME PipelineInv, NEW a \in IPs, blocked' = blocked, now' \in {now, now + 1}
    PROVE  StaysFree(a)
BY DEF PipelineInv, BP!RowsInv, BP!RowsTypeOK, BP!Expiry, BP!Permanent,
       BL!IsBlocked, BL!Permanent, StaysFree

(* Only an arriving request joins those past the check.                    *)
LEMMA PastShrinks ==
    ASSUME NEW w \in Workers, PipelineInv, Kind(w), job[w].phase # "idle", NEW a \in IPs
    PROVE  PastCheck(a)' \subseteq PastCheck(a)
<1> USE DEF PastCheck, ip
<1>1. job \in [Workers -> JobType]
  BY DEF PipelineInv, HandlerInv, JobsOK
<1>2. CASE Stays
  BY <1>2 DEF Stays
<1>3. CASE Leaves(w)
  BY <1>1, <1>3, IdleType DEF Leaves
<1>4. ASSUME NEW j \in JobType, Moves(w, j) PROVE PastCheck(a)' \subseteq PastCheck(a)
  BY <1>1, <1>4 DEF Moves, Before, Upstream, Stored
<1>5. CASE Forward(w) \/ PersistRequest(w) \/ PersistIncidents(w)
  <2>1. \A v \in Workers : v # w => job'[v] = job[v]
    BY <1>1, <1>5 DEF Forward, PersistRequest, PersistIncidents, To, Set
  <2>2. job'[w].phase \in {"upstream", "idle", "incidents", "followup"}
    <3>1. CASE Forward(w)
      BY <1>1, <3>1 DEF Forward, To, Set, JobType
    <3>2. CASE PersistRequest(w)
      BY <1>1, <3>2, IdleType DEF PersistRequest, To, Set, JobType
    <3>3. CASE PersistIncidents(w)
      <4>1. PICK n : job' = [job EXCEPT ![w] = IF n = 0 THEN Idle
                         ELSE [job[w] EXCEPT !.phase = "followup", !.todo = n]]
        BY <3>3 DEF PersistIncidents, Set
      <4> QED BY <1>1, <4>1, IdleType DEF JobType
    <3> QED BY <1>5, <3>1, <3>2, <3>3
  <2> QED BY <2>1, <2>2
<1> QED BY <1>2, <1>3, <1>4, <1>5 DEF Kind, Enters

-----------------------------------------------------------------------------
(* A forwarded request is counted as leaked instead of on its way.         *)
LEMMA ForwardCounted ==
    ASSUME LeakInv, NEW w \in Workers, Forward(w), NEW a \in IPs
    PROVE  Counted(a)'
<1>1. /\ Counted(a) /\ IsFiniteSet(leaked[a]) /\ IsFiniteSet(PastCheck(a))
  BY WorkersFinite, FS_Subset DEF LeakInv, Counted, PastCheck
<1>2. /\ UNCHANGED <<now, blocked>> /\ job[w].phase = "forward"
      /\ leaked' = [leaked EXCEPT ![ip(w)] = leaked[ip(w)] \union {job[w].n}]
  BY DEF Forward, In, blVars
<1>3. PastCheck(a)' \subseteq PastCheck(a)
  BY <1>2, PastShrinks DEF LeakInv, Kind
<1>4. StaysFree(a)
  BY <1>2, FreeStaysFree DEF LeakInv
<1>5. CASE ip(w) # a
  <2>1. leaked'[a] = leaked[a]
    BY <1>2, <1>5 DEF LeakInv
  <2> QED BY <1>1, <1>3, <1>4, <2>1, CalmCounted DEF Calm
<1>6. CASE ip(w) = a
  <2>1. leaked'[a] = leaked[a] \union {job[w].n}
    BY <1>2, <1>6 DEF LeakInv
  <2>2. IsFiniteSet(leaked'[a])
    <3>1. IsFiniteSet(leaked[a] \cup {job[w].n})
      BY <1>1, FS_AddElement, Zenon
    <3> QED BY <2>1, <3>1
  <2>3. w \in PastCheck(a) /\ PastCheck(a)' \subseteq PastCheck(a) \ {w}
    <3>1. w \in PastCheck(a)
      BY <1>2, <1>6 DEF PastCheck
    <3>2. job'[w].phase = "upstream"
      BY DEF Forward, To, Set, LeakInv, PipelineInv, HandlerInv, JobsOK, JobType
    <3>3. w \notin PastCheck(a)'
      BY <3>2 DEF PastCheck
    <3> QED BY <1>3, <3>1, <3>3
  <2>4. Cardinality(leaked'[a]) + Cardinality(PastCheck(a)')
            <= Cardinality(leaked[a]) + Cardinality(PastCheck(a))
    <3>1. Cardinality(leaked[a]) \in Nat /\ Cardinality(PastCheck(a)) \in Nat
      BY <1>1, FS_CardinalityType
    <3>2. Cardinality(leaked[a] \cup {job[w].n})
              = IF job[w].n \in leaked[a] THEN Cardinality(leaked[a])
                ELSE Cardinality(leaked[a]) + 1
      BY <1>1, FS_AddElement, Zenon
    <3>3. Cardinality(leaked'[a]) <= Cardinality(leaked[a]) + 1
      BY <2>1, <3>1, <3>2
    <3>4. /\ IsFiniteSet(PastCheck(a) \ {w})
          /\ Cardinality(PastCheck(a) \ {w}) = Cardinality(PastCheck(a)) - 1
      BY <1>1, <2>3, FS_RemoveElement
    <3>5. /\ IsFiniteSet(PastCheck(a)')
          /\ Cardinality(PastCheck(a)') <= Cardinality(PastCheck(a) \ {w})
      BY <2>3, <3>4, FS_Subset
    <3>6. Cardinality(leaked'[a]) \in Nat /\ Cardinality(PastCheck(a)') \in Nat
      BY <2>2, <3>5, FS_CardinalityType
    <3> QED BY <3>1, <3>3, <3>4, <3>5, <3>6
  <2>5. IsFiniteSet(PastCheck(a)')
    BY <1>1, <1>3, FS_Subset
  <2>6. SUFFICES ASSUME BL!IsBlocked(a)'
        PROVE Cardinality(leaked'[a]) + Cardinality(PastCheck(a)') < Cardinality(Workers)
    BY <2>2 DEF Counted, Bound
  <2>7. Cardinality(leaked[a]) + Cardinality(PastCheck(a)) < Cardinality(Workers)
    BY <1>1, <1>4, <2>6 DEF StaysFree, Counted, Bound
  <2> QED BY <1>1, <2>2, <2>4, <2>5, <2>7, WorkersFinite, FS_CardinalityType
<1> QED BY <1>5, <1>6

(* A block is committed by a worker that is not on its way to the site.    *)
LEMMA BlockCounted ==
    ASSUME LeakInv, NEW w \in Workers, ContinueAutoBlock(w) \/ ContinueManualBlock(w),
           NEW a \in IPs
    PROVE  Counted(a)'
<1>1. /\ Counted(a) /\ IsFiniteSet(leaked[a]) /\ now' = now /\ Kind(w)
      /\ job[w].phase \in {"blocking", "admin"} /\ NoteBlock(blk[w].ip)
  <2>1. CASE ContinueAutoBlock(w)
    <3>1. blk[w].ip = ip(w)
      BY <2>1
      DEF LeakInv, PipelineInv, CallsOK, ContinueAutoBlock, In, BL!AutoBlockCount,
          BL!BlockSelect, BL!BlockCommit, BL!BlockFails, BL!At
    <3> QED BY <2>1, <3>1, FollowUpKind DEF LeakInv, Counted, ContinueAutoBlock, In
  <2>2. CASE ContinueManualBlock(w)
    BY <2>2, EndKind DEF LeakInv, Counted, ContinueManualBlock, In
  <2> QED BY <2>1, <2>2
<1>2. PastCheck(a)' \subseteq PastCheck(a)
  BY <1>1, PastShrinks DEF LeakInv
<1>3. CASE blocked' = blocked
  BY <1>1, <1>2, <1>3, FreeStaysFree, CalmCounted DEF LeakInv, NoteBlock, Calm
<1>4. CASE blocked' # blocked
  <2>1. blocked' = BL!SetRow(blk[w].ip, BL!Written(blk[w]))
    BY <1>4
    DEF ContinueAutoBlock, ContinueManualBlock, BL!AutoBlockCount, BL!BlockSelect,
        BL!BlockCommit, BL!BlockFails
  <2>2. leaked' = [leaked EXCEPT ![blk[w].ip] = {}]
    BY <1>1, <1>4 DEF NoteBlock
  <2>3. CASE blk[w].ip # a
    <3>1. StaysFree(a)
      BY <1>1, <2>1, <2>3 DEF BL!SetRow, BL!IsBlocked, StaysFree
    <3> QED BY <1>1, <1>2, <2>2, <2>3, <3>1, CalmCounted DEF LeakInv, Calm
  <2>4. CASE blk[w].ip = a
    <3>1. leaked'[a] = {}
      BY <2>2, <2>4 DEF LeakInv
    <3>2. PastCheck(a)' \subseteq Workers \ {w}
      BY <1>1, <1>2 DEF PastCheck
    <3>3. IsFiniteSet(Workers \ {w}) /\ Cardinality(Workers \ {w}) = Cardinality(Workers) - 1
      BY WorkersFinite, FS_RemoveElement
    <3>4. IsFiniteSet(PastCheck(a)') /\ Cardinality(PastCheck(a)') <= Cardinality(Workers) - 1
      BY <3>2, <3>3, FS_Subset
    <3> QED BY <3>1, <3>4, WorkersFinite, FS_EmptySet, FS_CardinalityType DEF Counted, Bound
  <2> QED BY <2>3, <2>4
<1> QED BY <1>3, <1>4

-----------------------------------------------------------------------------
(* The other steps of a handler.                                           *)
LEMMA ProgressCounted ==
    ASSUME LeakInv, NEW w \in Workers, Progress(w) \/ Crash(w), NEW a \in IPs
    PROVE  Counted(a)'
<1> USE DEF LeakInv
<1>1. ASSUME UNCHANGED <<now, blocked, leaked>>, Kind(w), job[w].phase # "idle"
      PROVE  Counted(a)'
  BY <1>1, PastShrinks, FreeStaysFree, CalmCounted DEF Calm
<1>2. CASE Forward(w) \/ ContinueAutoBlock(w) \/ ContinueManualBlock(w)
  BY <1>2, ForwardCounted, BlockCounted
<1>3. CASE \/ RateLimited(w) \/ Preblock(w) \/ PreblockCount(w)
           \/ UpstreamUnavailable(w) \/ UpstreamAnswers(w) \/ LoginRejected(w)
           \/ DetectCleanup(w) \/ DetectCount(w) \/ Password(w)
  <2>1. UNCHANGED <<now, blocked, leaked>> /\ job[w].phase # "idle"
    BY <1>3
    DEF RateLimited, Preblock, PreblockCount, UpstreamUnavailable, UpstreamAnswers,
        LoginRejected, DetectCleanup, DetectCount, Password, In, blVars, ghosts
  <2> QED BY <1>1, <1>3, <2>1, RequestKind
<1>4. CASE PersistRequest(w) \/ PersistIncidents(w)
  BY <1>1, <1>4, StoreKind DEF PersistRequest, PersistIncidents, In, blVars, ghosts
<1>5. CASE StartAlert(w) \/ ContinueAlert(w) \/ StartAutoBlock(w)
  BY <1>1, <1>5, FollowUpKind
  DEF StartAlert, ContinueAlert, StartAutoBlock, BL!AutoBlockCheck, In, blVars, ghosts
<1>6. CASE InternalError(w) \/ PersistFails(w) \/ Crash(w)
  <2>1. UNCHANGED <<now, blocked, leaked>>
    BY <1>6 DEF InternalError, PersistFails, Crash, EndEarly, BL!Abandon, blVars
  <2>2. job[w].phase # "idle"
    BY <1>6 DEF InternalError, PersistFails, Crash, In, PipelineInv, CallsOK
  <2> QED BY <1>1, <1>6, <2>1, <2>2, EndKind
<1>7. CASE LoginRefused(w)
  BY <1>1, <1>7, EndKind DEF LoginRefused, In, blVars
<1> QED BY <1>2, <1>3, <1>4, <1>5, <1>6, <1>7 DEF Progress

(* A request of a blocked ip does not get past the check.                  *)
LEMMA ArriveCounted ==
    ASSUME LeakInv, NEW w \in Workers, Arrive(w), NEW a \in IPs
    PROVE  Counted(a)'
<1> USE DEF LeakInv
<1>1. Counted(a) /\ job \in [Workers -> JobType]
  BY DEF PipelineInv, HandlerInv, JobsOK
<1>2. ASSUME NEW r \in Traffic, Receive(w, r) PROVE Counted(a)'
  <2>1. /\ UNCHANGED <<now, blocked, leaked>>
        /\ IF BL!IsBlocked(r.ip) THEN job' = job
           ELSE job' = [job EXCEPT ![w] = Job("preblock", received + 1, r)]
    BY <1>2 DEF Receive, Set, blVars, ghosts
  <2>2. BL!IsBlocked(a)' => BL!IsBlocked(a)
    BY <2>1, FreeStaysFree DEF StaysFree
  <2>3. BL!IsBlocked(a)' => PastCheck(a)' \subseteq PastCheck(a)
    BY <1>1, <2>1, <2>2 DEF PastCheck, ip, Job
  <2> QED BY <1>1, <2>1, <2>2, <2>3, CalmCounted DEF Calm, StaysFree
<1>3. ASSUME NEW phase \in {"admin", "login"}, NEW n, UNCHANGED <<now, blocked, leaked>>,
             job' = [job EXCEPT ![w] = Job(phase, n, NoRequest)]
      PROVE  Counted(a)'
  <2>1. PastCheck(a)' \subseteq PastCheck(a)
    BY <1>1, <1>3 DEF PastCheck, ip, Job
  <2> QED BY <1>1, <1>3, <2>1, FreeStaysFree, CalmCounted DEF Calm
<1>4. ASSUME NEW b \in IPs, ManualBlock(w, b) \/ LoginForm(w, b) PROVE Counted(a)'
  BY <1>3, <1>4 DEF ManualBlock, LoginForm, BL!ManualBlock, Set, blVars, ghosts
<1>5. ASSUME NEW b \in IPs, Unblock(w, b) PROVE Counted(a)'
  <2>1. /\ UNCHANGED <<now, leaked, job>>
        /\ blocked' = [x \in DOMAIN blocked \ {b} |-> blocked[x]]
    BY <1>5 DEF Unblock, BL!Unblock, ghosts
  <2>2. StaysFree(a)
    BY <2>1 DEF BL!IsBlocked, StaysFree
  <2> QED BY <1>1, <2>1, <2>2, CalmCounted DEF Calm, PastCheck, ip
<1>6. CASE ReadOnlyPage(w)
  <2>1. UNCHANGED <<now, blocked, leaked, job>>
    BY <1>6 DEF ReadOnlyPage, vars, blVars, ghosts
  <2> QED BY <1>1, <2>1, FreeStaysFree, CalmCounted DEF Calm, PastCheck, ip
<1> QED BY <1>2, <1>4, <1>5, <1>6 DEF Arrive

-----------------------------------------------------------------------------
(* Every step keeps the sum of what leaked and what may still leak bounded.*)
LEMMA LeakStep == LeakInv /\ [Next]_vars => LeakInv'
<1> SUFFICES ASSUME LeakInv, [Next]_vars PROVE LeakInv'
    OBVIOUS
<1>1. PipelineInv'
  BY PipelineStep DEF LeakInv
<1>2. CASE Tick \/ UNCHANGED vars
  <2>1. now' \in {now, now + 1} /\ UNCHANGED <<blocked, leaked, job>>
    BY <1>2 DEF Tick, vars, blVars, ghosts
  <2>2. ASSUME NEW a \in IPs PROVE Counted(a)'
    BY <2>1, FreeStaysFree, CalmCounted DEF LeakInv, Calm, PastCheck, ip
  <2> QED BY <1>1, <2>1, <2>2 DEF LeakInv
<1>3. ASSUME NEW w \in Workers, Arrive(w) \/ Progress(w) \/ Crash(w) PROVE LeakInv'
  <2>1. DOMAIN leaked' = DOMAIN leaked
    BY <1>3
    DEF Arrive, Progress, Crash, Receive, ManualBlock, Unblock, LoginForm, ReadOnlyPage,
        RateLimited, Preblock, PreblockCount, Forward, UpstreamUnavailable, UpstreamAnswers,
        LoginRejected, LoginRefused, DetectCleanup, DetectCount, PersistRequest,
        PersistFails, PersistIncidents, StartAlert, ContinueAlert, StartAutoBlock,
        ContinueAutoBlock, ContinueManualBlock, Password, InternalError, EndEarly, NoteBlock,
        vars, ghosts
  <2> QED BY <1>1, <1>3, <2>1, ArriveCounted, ProgressCounted DEF LeakInv
<1> QED BY <1>2, <1>3 DEF Next

(* However many workers there are, at most the others' requests that had   *)
(* passed is_blocked() reach the site after an ip is blocked (proxy() in   *)
(* proxy_app.py checks the block list once, at its start).                 *)
THEOREM LeakIsBounded == Spec => []LeakBounded
<1>1. Init => LeakInv
  <2> SUFFICES ASSUME Init PROVE LeakInv
      OBVIOUS
  <2>1. blocked = [x \in {} |-> BL!Permanent] /\ leaked = [a \in IPs |-> {}]
    BY DEF Init, BL!Init
  <2> QED BY <2>1, PipelineInit, FS_EmptySet DEF LeakInv, Counted, Bound, BL!IsBlocked
<1>2. LeakInv => LeakBounded
  BY DEF LeakInv, Counted, Bound, LeakBounded
<1> QED BY <1>1, <1>2, LeakStep, PTL DEF Spec

-----------------------------------------------------------------------------
(* The handler uses the brute-force detector, the alerts and the block     *)
(* list the way their own modules assume.  First LoginAttempts.            *)

\* A step that may not touch login_attempts, and one that ends a cleared call.
LEMMA LoginQuiet ==
    ASSUME UNCHANGED <<now, laVars>>
    PROVE  UNCHANGED LA!vars
BY DEF laVars, LA!vars, LA!table, LA!ghosts

(* So is one that only tells detect() the outcome of a cleared login.      *)
LEMMA SettlesLogin ==
    ASSUME NEW w \in Workers, UNCHANGED now, SettleLogin(w) \/ UNCHANGED laVars
    PROVE  LA!Next \/ UNCHANGED LA!vars
<1>1. LA!Settle(w) => LA!Next
  BY DEF LA!Next, LA!WorkerStep
<1> QED BY <1>1, LoginQuiet DEF SettleLogin

(* Every step of the pipeline is one of LoginAttempts, or leaves it alone. *)
LEMMA LoginStep ==
    ASSUME PipelineInv, [Next]_vars
    PROVE  [LA!Next]_(LA!vars)
<1>1. ASSUME NEW w \in Workers, LA!WorkerStep(w) PROVE LA!Next
  BY <1>1 DEF LA!Next
<1>2. CASE Tick
  <2>1. LA!Tick
    BY <1>2 DEF Tick, laVars, LA!Tick, LA!table, LA!ghosts
  <2> QED BY <2>1 DEF LA!Next
<1>3. CASE UNCHANGED vars
  BY <1>3, LoginQuiet DEF vars
<1>4. ASSUME NEW w \in Workers, Arrive(w) PROVE [LA!Next]_(LA!vars)
  <2>1. ASSUME NEW a \in IPs, LoginForm(w, a) PROVE LA!Next
    BY <1>1, <2>1 DEF LoginForm, LA!WorkerStep
  <2>2. ASSUME \/ \E r \in Traffic : Receive(w, r)
               \/ \E a \in IPs : ManualBlock(w, a) \/ Unblock(w, a)
               \/ ReadOnlyPage(w)
        PROVE  UNCHANGED <<now, laVars>>
    BY <2>2 DEF Receive, ManualBlock, Unblock, ReadOnlyPage, vars
  <2> QED BY <1>4, <2>1, <2>2, LoginQuiet DEF Arrive
<1>5. ASSUME NEW w \in Workers, Preblock(w) PROVE [LA!Next]_(LA!vars)
  <2>1. ip(w) \in IPs
    BY <1>5 DEF Preblock, In, PipelineInv, HandlerInv, PhasesOK, PhaseOK, ip
  <2>2. LA!PreblockCleanup(w, ip(w)) \/ UNCHANGED <<now, laVars>>
    BY <1>5 DEF Preblock
  <2>3. LA!PreblockCleanup(w, ip(w)) => LA!Next
    BY <1>1, <2>1 DEF LA!WorkerStep
  <2> QED BY <2>2, <2>3, LoginQuiet
<1>6. ASSUME NEW w \in Workers,
             \/ PreblockCount(w) \/ LoginRejected(w) \/ LoginRefused(w)
             \/ DetectCleanup(w) \/ DetectCount(w) \/ Password(w)
      PROVE  LA!Next
  BY <1>1, <1>6
  DEF PreblockCount, LoginRejected, LoginRefused, DetectCleanup, DetectCount, Password,
      LA!WorkerStep
<1>7. ASSUME NEW w \in Workers, UpstreamUnavailable(w) \/ UpstreamAnswers(w) \/ PersistRequest(w)
      PROVE  [LA!Next]_(LA!vars)
  BY <1>7, SettlesLogin DEF UpstreamUnavailable, UpstreamAnswers, PersistRequest
<1>8. ASSUME NEW w \in Workers, InternalError(w) \/ PersistFails(w) \/ Crash(w)
      PROVE  [LA!Next]_(LA!vars)
  <2>1. UNCHANGED <<now, laVars>> \/ LA!Crash(w)
    BY <1>8 DEF InternalError, PersistFails, Crash, EndEarly
  <2> QED BY <1>1, <2>1, LoginQuiet DEF LA!WorkerStep
<1>9. ASSUME NEW w \in Workers,
             \/ RateLimited(w) \/ Forward(w) \/ PersistIncidents(w)
             \/ StartAlert(w) \/ ContinueAlert(w) \/ StartAutoBlock(w)
             \/ ContinueAutoBlock(w) \/ ContinueManualBlock(w)
      PROVE  UNCHANGED <<now, laVars>>
  BY <1>9
  DEF RateLimited, Forward, PersistIncidents, StartAlert, ContinueAlert, StartAutoBlock,
      ContinueAutoBlock, ContinueManualBlock
<1>10. ASSUME NEW w \in Workers, Progress(w) \/ Crash(w) PROVE [LA!Next]_(LA!vars)
  BY <1>5, <1>6, <1>7, <1>8, <1>9, <1>10, LoginQuiet DEF Progress
<1> QED BY <1>2, <1>3, <1>4, <1>10 DEF Next

(* proxy() and login() call the brute-force detector (brute_force.py) only *)
(* in the order its module assumes: preblock before detect, each to its    *)
(* end, so its bounds hold in the composition.                             *)
THEOREM PipelineImplementsLoginAttempts == Spec => ImplementsLoginAttempts
<1>1. Init => LA!Init
  BY DEF Init
<1>2. PipelineInv /\ [Next]_vars => [LA!Next]_(LA!vars)
  BY LoginStep
<1> QED BY <1>1, <1>2, PipelineInvariant, PTL DEF Spec, ImplementsLoginAttempts, LA!Spec

-----------------------------------------------------------------------------
(* Alerting.                                                               *)
LEMMA AlertQuiet ==
    ASSUME UNCHANGED <<now, alVars>>
    PROVE  UNCHANGED AL!vars
BY DEF alVars, AL!vars, AL!record, AL!file, AL!page

(* Every step of the pipeline is one of Alerting, or leaves it alone.      *)
LEMMA AlertStep ==
    ASSUME PipelineInv, [Next]_vars
    PROVE  [AL!Next]_(AL!vars)
<1>1. ASSUME NEW w \in Workers, AL!WorkerStep(w) PROVE AL!Next
  BY <1>1 DEF AL!Next
<1>2. CASE Tick
  <2>1. AL!Tick
    BY <1>2 DEF Tick, alVars, AL!Tick, AL!record, AL!file, AL!page
  <2> QED BY <2>1 DEF AL!Next
<1>3. CASE UNCHANGED vars
  BY <1>3, AlertQuiet DEF vars
<1>4. ASSUME NEW w \in Workers, Arrive(w) PROVE UNCHANGED <<now, alVars>>
  BY <1>4 DEF Arrive, Receive, ManualBlock, Unblock, LoginForm, ReadOnlyPage, vars
<1>5. ASSUME NEW w \in Workers, StartAlert(w) PROVE AL!Next
  <2>1. ip(w) \in IPs
    BY <1>5 DEF StartAlert, In, PipelineInv, HandlerInv, PhasesOK, PhaseOK, ip
  <2> QED BY <1>1, <1>5, <2>1 DEF StartAlert, AL!WorkerStep
<1>6. ASSUME NEW w \in Workers, ContinueAlert(w) PROVE AL!Next
  BY <1>1, <1>6 DEF ContinueAlert, AL!WorkerStep
<1>7. ASSUME NEW w \in Workers, InternalError(w) \/ PersistFails(w) \/ Crash(w)
      PROVE  [AL!Next]_(AL!vars)
  <2>1. UNCHANGED <<now, alVars>> \/ AL!Abandon(w)
    BY <1>7 DEF InternalError, PersistFails, Crash, EndEarly
  <2> QED BY <1>1, <2>1, AlertQuiet DEF AL!WorkerStep
<1>8. ASSUME NEW w \in Workers,
             \/ RateLimited(w) \/ Preblock(w) \/ PreblockCount(w) \/ Forward(w)
             \/ UpstreamUnavailable(w) \/ UpstreamAnswers(w)
             \/ LoginRejected(w) \/ LoginRefused(w) \/ DetectCleanup(w) \/ DetectCount(w)
      PROVE  UNCHANGED <<now, alVars>>
  BY <1>8
  DEF RateLimited, Preblock, PreblockCount, Forward, UpstreamUnavailable, UpstreamAnswers,
      LoginRejected, LoginRefused, DetectCleanup, DetectCount
<1>9. ASSUME NEW w \in Workers,
             \/ PersistRequest(w) \/ PersistIncidents(w) \/ StartAutoBlock(w)
             \/ ContinueAutoBlock(w) \/ ContinueManualBlock(w) \/ Password(w)
      PROVE  UNCHANGED <<now, alVars>>
  BY <1>9
  DEF PersistRequest, PersistIncidents, StartAutoBlock, ContinueAutoBlock,
      ContinueManualBlock, Password
<1>10. ASSUME NEW w \in Workers, Progress(w) \/ Crash(w) PROVE [AL!Next]_(AL!vars)
  BY <1>5, <1>6, <1>7, <1>8, <1>9, <1>10, AlertQuiet DEF Progress
<1> QED BY <1>2, <1>3, <1>4, <1>10, AlertQuiet DEF Next

(* persist_request_and_incidents() calls maybe_alert() (alerting.py) for   *)
(* one incident after the other and lets each call end, so what holds of   *)
(* the alerts alone holds in the composition.                              *)
THEOREM PipelineImplementsAlerting == Spec => ImplementsAlerting
<1>1. Init => AL!Init
  BY DEF Init
<1>2. PipelineInv /\ [Next]_vars => [AL!Next]_(AL!vars)
  BY AlertStep
<1> QED BY <1>1, <1>2, PipelineInvariant, PTL DEF Spec, ImplementsAlerting, AL!Spec

-----------------------------------------------------------------------------
(* No block that is due is lost.  From the commit of its incidents on a    *)
(* handler knows that they are not younger than now; a call that found its *)
(* ip free leaves it free, or finds it blocked since.  The one commit that *)
(* changes nothing is the case to see: the row already carries the expiry  *)
(* that the call computed, so it was written at or after that moment.      *)
Pending == {"preblock", "precount", "forward", "upstream", "detect", "persist", "incidents"}
Mine(w) == {k \in DOMAIN incidents : incidents[k].n = job[w].n}

\* The clauses of DueBlocksHappen that make an incident call for a block.
Due(k) ==
    LET i == incidents[k] IN
        /\ AutoBlockEnabled /\ IsSevere(i.finding)
        /\ \/ i.status = "Blocked"
           \/ Cardinality({j \in 1..k : IsSevereOf(i.ip, incidents[j])
                                         /\ incidents[j].at >= now - AutoWindow})
                  >= AutoThreshold

SeenOK ==
    /\ blockSeen \in [IPs -> Int] /\ \A a \in IPs : blockSeen[a] <= now
    /\ \A k \in DOMAIN incidents : incidents[k].at <= now

RowsExpire ==
    \A a \in DOMAIN blocked :
        \/ blocked[a] = Permanent
        \/ AutoDuration # Permanent /\ blocked[a] <= blockSeen[a] + AutoDuration

PendingOK(w) == job[w].phase \in Pending => job[w].n \notin followed /\ Mine(w) = {}

StoredOK(w) ==
    job[w].phase \in Stored =>
        /\ \E k \in Mine(w) : IsSevere(incidents[k].finding)
        /\ \A k \in Mine(w) : /\ incidents[k].ip = ip(w)
                               /\ incidents[k].status = IF job[w].blocked THEN "Blocked"
                                                        ELSE "Open"

WriteOK(w) ==
    blk[w].step = "write" =>
        IF blk[w].expires = Permanent
        THEN blk[w].by = "manual" \/ AutoDuration = Permanent
        ELSE AutoDuration # Permanent /\ blk[w].expires <= now + AutoDuration

BlockingOK(w) ==
    job[w].phase = "blocking" =>
        /\ blk[w].by = "auto"
        /\ blk[w].step = "count" => ~job[w].blocked
        /\ \A k \in Mine(w) :
              /\ BL!IsBlocked(ip(w)) => blockSeen[ip(w)] >= incidents[k].at
              /\ blk[w].step = "write" /\ blk[w].expires # Permanent
                    => blk[w].expires >= incidents[k].at + AutoDuration

WorkerOK(w) == PendingOK(w) /\ StoredOK(w) /\ WriteOK(w) /\ BlockingOK(w)

DueInv ==
    /\ SeenOK /\ RowsExpire /\ followed \subseteq 1..received
    /\ \A w \in Workers : WorkerOK(w)
    /\ DueBlocksHappen

-----------------------------------------------------------------------------
(* What the log says of an incident.                                       *)
LEMMA IncidentFacts ==
    ASSUME RowsOK, NEW k \in DOMAIN incidents
    PROVE  /\ incidents[k].n \in 1..received /\ incidents[k].ip \in IPs
           /\ incidents[k].at \in Nat
<1>1. incidents[k] \in IncidentType
  BY DEF RowsOK
<1>2. incidents[k].n \in 1..received
  BY DEF RowsOK
<1> QED BY <1>1, <1>2 DEF IncidentType

(* Time and new incidents only take attempts out of the window.            *)
LEMMA DueFades ==
    ASSUME PipelineInv, NEW k \in DOMAIN incidents, now' \in Nat, now' >= now,
           \A j \in 1..k : j \in DOMAIN incidents' /\ incidents'[j] = incidents[j],
           Due(k)'
    PROVE  Due(k)
<1> DEFINE Counts(j, n) == IsSevereOf(incidents[k].ip, incidents[j])
                           /\ incidents[j].at >= n - AutoWindow
           Late == {j \in 1..k : Counts(j, now')}
           Early == {j \in 1..k : Counts(j, now)}
<1>1. /\ now \in Nat /\ incidents \in Seq(IncidentType) /\ k \in 1..k
      /\ 1..k \subseteq DOMAIN incidents
  BY DEF PipelineInv, HandlerInv, RowsOK, BP!RowsInv, BP!RowsTypeOK
<1>2. \A j \in 1..k : incidents'[j] = incidents[j] /\ incidents[j].at \in Nat
  BY <1>1, IncidentFacts DEF PipelineInv, HandlerInv
<1>3. {j \in 1..k : IsSevereOf(incidents'[k].ip, incidents'[j])
                     /\ incidents'[j].at >= now' - AutoWindow} = Late
  BY <1>1, <1>2
<1>4. Late \subseteq Early
  BY <1>1, <1>2, AutoWindowPositive
<1>5. IsFiniteSet(1..k) /\ Early \subseteq 1..k
  <2>1. Early \subseteq 1..k
    OBVIOUS
  <2> HIDE DEF Late, Early
  <2>2. k \in Int /\ 1 \in Int
    BY <1>1
  <2>3. IsFiniteSet(1..k)
    BY <2>2, FS_Interval
  <2> QED BY <2>1, <2>3
<1> HIDE DEF Late, Early
<1>6. /\ IsFiniteSet(Early) /\ IsFiniteSet(Late)
      /\ Cardinality(Late) <= Cardinality(Early)
  BY <1>4, <1>5, FS_Subset
<1>7. Cardinality(Late) \in Nat /\ Cardinality(Early) \in Nat
  BY <1>6, FS_CardinalityType
<1>8. /\ AutoBlockEnabled /\ IsSevere(incidents[k].finding)
      /\ incidents[k].status = "Blocked" \/ Cardinality(Late) >= AutoThreshold
  BY <1>1, <1>2, <1>3 DEF Due
<1>9. Cardinality(Late) >= AutoThreshold => Cardinality(Early) >= AutoThreshold
  BY <1>6, <1>7, AutoThresholdPositive
<1>10. \/ incidents[k].status = "Blocked"
       \/ Cardinality(Early) >= AutoThreshold
  BY <1>8, <1>9
<1>11. Early = {j \in 1..k : IsSevereOf(incidents[k].ip, incidents[j])
                              /\ incidents[j].at >= now - AutoWindow}
  BY DEF Early
<1> QED BY <1>8, <1>10, <1>11 DEF Due

(* What a step that stores no incidents may do: handlers go on or end, or  *)
(* new ones begin; rows are written with the expiry of now; and a call     *)
(* that ends has seen the ip blocked if a block was due.                   *)
Follows(v) ==
    \/ job'[v].phase \notin Pending \union Stored
    \/ job'[v].phase \in Pending /\ job'[v].n = received + 1
    \/ /\ job'[v].n = job[v].n /\ job'[v].req = job[v].req
       /\ \/ job[v].phase \in Pending /\ job'[v].phase \in Pending
          \/ /\ job[v].phase \in Stored /\ job'[v].phase \in Stored
             /\ job'[v].blocked = job[v].blocked

CallKept(v) ==
    /\ blk'[v].step = blk[v].step /\ blk'[v].by = blk[v].by
    /\ blk'[v].expires = blk[v].expires
    /\ job'[v].phase = "blocking" => job[v].phase = "blocking"

RowsWritten ==
    /\ blockSeen' \in [IPs -> Int]
    /\ \A a \in IPs : blockSeen'[a] = blockSeen[a] \/ blockSeen'[a] = now
    /\ \A a \in DOMAIN blocked' :
          \/ a \in DOMAIN blocked /\ blocked'[a] = blocked[a]
          \/ /\ blockSeen'[a] = now
             /\ \/ blocked'[a] = Permanent
                \/ AutoDuration # Permanent /\ blocked'[a] <= now + AutoDuration

CallEnds(w) ==
    /\ followed' = followed \union {job[w].n} /\ job[w].phase \in Stored
    /\ \A k \in Mine(w) : Due(k) => blockSeen'[ip(w)] >= incidents[k].at

(* What a step may do so that no due block is lost: rows only get later    *)
(* expiries or the block of this moment, calls stay as they are or keep    *)
(* the clauses about them, and a call that ends has done its work.         *)
LEMMA DueStep ==
    ASSUME PipelineInv, DueInv, DOMAIN blocked' \subseteq IPs,
           now' \in Nat, now' >= now, now' # now => blocked' = blocked,
           UNCHANGED incidents,
           received' \in {received, received + 1},
           RowsWritten,
           \A v \in Workers : Follows(v) /\ (CallKept(v) \/ (WriteOK(v)' /\ BlockingOK(v)')),
           followed' = followed \/ \E w \in Workers : CallEnds(w)
    PROVE  DueInv'
<1>1. /\ now \in Nat /\ received \in Nat /\ incidents \in Seq(IncidentType)
      /\ \A k \in DOMAIN incidents :
            /\ incidents[k].n \in 1..received
            /\ incidents[k].at \in Nat /\ incidents[k].ip \in IPs
      /\ DOMAIN blocked \subseteq IPs
      /\ \A v \in Workers : job[v].phase \in Pending \union Stored => job[v].n \in 1..received
  <2>1. now \in Nat /\ DOMAIN blocked \subseteq IPs
    BY DEF PipelineInv, BP!RowsInv, BP!RowsTypeOK
  <2>2. /\ received \in Nat
        /\ \A v \in Workers : job[v].phase \in Pending \union Stored => job[v].n \in 1..received
    BY DEF PipelineInv, HandlerInv, NumbersOK, Numbered, Pending, Stored
  <2>3. /\ incidents \in Seq(IncidentType)
        /\ \A k \in DOMAIN incidents : incidents[k].n \in 1..received
    BY DEF PipelineInv, HandlerInv, RowsOK
  <2>4. \A k \in DOMAIN incidents : incidents[k].at \in Nat /\ incidents[k].ip \in IPs
    BY IncidentFacts DEF PipelineInv, HandlerInv
  <2> QED BY <2>1, <2>2, <2>3, <2>4
<1>2. /\ blockSeen \in [IPs -> Int] /\ blockSeen' \in [IPs -> Int]
      /\ \A a \in IPs : blockSeen[a] <= now /\ blockSeen'[a] >= blockSeen[a]
                        /\ blockSeen'[a] <= now'
      /\ \A k \in DOMAIN incidents : incidents[k].at <= now
  BY <1>1 DEF DueInv, SeenOK, RowsWritten
<1>3. SeenOK'
  BY <1>1, <1>2 DEF SeenOK
<1>4. RowsExpire'
  <2> SUFFICES ASSUME NEW a \in DOMAIN blocked'
               PROVE  \/ blocked'[a] = Permanent
                      \/ AutoDuration # Permanent /\ blocked'[a] <= blockSeen'[a] + AutoDuration
      BY DEF RowsExpire
  <2>1. CASE a \in DOMAIN blocked /\ blocked'[a] = blocked[a]
    <3>1. \/ blocked[a] = Permanent
          \/ AutoDuration # Permanent /\ blocked[a] <= blockSeen[a] + AutoDuration
      BY <2>1 DEF DueInv, RowsExpire
    <3>2. blocked[a] \in Int /\ AutoDuration \in Int
      BY <2>1, AutoDurationType
      DEF PipelineInv, BP!RowsInv, BP!RowsTypeOK, BP!Expiry, BP!Permanent, Permanent
    <3>3. a \in IPs
      OBVIOUS
    <3> QED BY <1>2, <2>1, <3>1, <3>2, <3>3
  <2>2. CASE /\ blockSeen'[a] = now
             /\ \/ blocked'[a] = Permanent
                \/ AutoDuration # Permanent /\ blocked'[a] <= now + AutoDuration
    BY <2>2
  <2> QED BY <2>1, <2>2 DEF RowsWritten
<1>5. followed' \subseteq 1..received'
  <2>1. followed \subseteq 1..received /\ 1..received \subseteq 1..received'
    BY <1>1 DEF DueInv
  <2>2. \A w \in Workers : job[w].phase \in Stored => job[w].n \in 1..received
    BY <1>1
  <2>3. CASE \E w \in Workers : CallEnds(w)
    <3>1. PICK w \in Workers : followed' = followed \union {job[w].n} /\ job[w].phase \in Stored
      BY <2>3 DEF CallEnds
    <3> QED BY <2>1, <2>2, <3>1
  <2> QED BY <2>1, <2>3
<1>6. ASSUME NEW v \in Workers PROVE PendingOK(v)' /\ StoredOK(v)'
  <2>1. Follows(v) /\ PendingOK(v) /\ StoredOK(v)
    BY DEF DueInv, WorkerOK
  <2>2. StoredOK(v)'
    <3> SUFFICES ASSUME job'[v].phase \in Stored PROVE StoredOK(v)'
        BY DEF StoredOK
    <3>1. /\ job[v].phase \in Stored /\ job'[v].n = job[v].n /\ job'[v].req = job[v].req
          /\ job'[v].blocked = job[v].blocked
      BY <2>1 DEF Follows, Pending, Stored
    <3> QED BY <2>1, <3>1 DEF StoredOK, Mine, ip
  <2>3. PendingOK(v)'
    <3> SUFFICES ASSUME job'[v].phase \in Pending PROVE job'[v].n \notin followed' /\ Mine(v)' = {}
        BY DEF PendingOK
    <3>1. CASE job'[v].n = received + 1
      <4>1. received + 1 \notin followed'
        BY <1>1 DEF DueInv, CallEnds
      <4> QED BY <1>1, <3>1, <4>1 DEF Mine
    <3>2. CASE job'[v].n = job[v].n /\ job[v].phase \in Pending
      <4>1. job[v].n \notin followed /\ Mine(v) = {}
        BY <2>1, <3>2 DEF PendingOK
      <4>2. \A w \in Workers : job[w].phase \in Stored => job[w].n # job[v].n
        BY <3>2 DEF PipelineInv, HandlerInv, NumbersOK, Numbered, Pending, Stored
      <4> QED BY <3>2, <4>1, <4>2 DEF Mine, CallEnds
    <3> QED BY <2>1, <3>1, <3>2 DEF Follows, Pending, Stored
  <2> QED BY <2>2, <2>3
<1>7. ASSUME NEW v \in Workers PROVE WriteOK(v)' /\ BlockingOK(v)'
  <2> SUFFICES ASSUME CallKept(v) PROVE WriteOK(v)' /\ BlockingOK(v)'
      OBVIOUS
  <2>1. WriteOK(v) /\ BlockingOK(v) /\ Follows(v)
    BY DEF DueInv, WorkerOK
  <2>2. WriteOK(v)'
    <3>1. blk[v].expires \in Int /\ AutoDuration \in Int
      BY AutoDurationType
      DEF PipelineInv, BP!RowsInv, BP!RowsTypeOK, BP!Expiry, BP!Permanent, Permanent
    <3> QED BY <1>1, <2>1, <3>1 DEF WriteOK, CallKept
  <2>3. BlockingOK(v)'
    <3> SUFFICES ASSUME job'[v].phase = "blocking" PROVE BlockingOK(v)'
        BY DEF BlockingOK
    <3>1. /\ job[v].phase = "blocking" /\ job'[v].n = job[v].n /\ job'[v].req = job[v].req
          /\ job'[v].blocked = job[v].blocked
      BY <2>1 DEF CallKept, Follows, Pending, Stored
    <3>2. Mine(v)' = Mine(v) /\ job'[v].req.ip = job[v].req.ip
      BY <3>1 DEF Mine
    <3>3. ip(v) \in IPs
      BY <3>1 DEF PipelineInv, HandlerInv, PhasesOK, PhaseOK, ip
    <3>4. PICK a \in IPs : a = job[v].req.ip
      BY <3>3 DEF ip
    <3>5. ASSUME NEW k \in Mine(v), BL!IsBlocked(a)' PROVE blockSeen'[a] >= incidents[k].at
      <4>1. a \in DOMAIN blocked' /\ incidents[k].at \in Nat /\ incidents[k].at <= now
        BY <1>1, <1>2, <3>5 DEF BL!IsBlocked, Mine
      <4>2. CASE a \in DOMAIN blocked /\ blocked'[a] = blocked[a]
        <5>1. blocked[a] = Permanent \/ blocked[a] \in Nat
          BY <4>2 DEF PipelineInv, BP!RowsInv, BP!RowsTypeOK, BP!Expiry, BP!Permanent, Permanent
        <5>2. BL!IsBlocked(a)
          BY <1>1, <3>5, <4>2, <5>1 DEF BL!IsBlocked, BL!Permanent, Permanent
        <5>3. blockSeen[a] >= incidents[k].at
          BY <2>1, <3>1, <3>4, <5>2 DEF BlockingOK, ip
        <5> QED BY <1>2, <4>1, <5>3
      <4>3. CASE blockSeen'[a] = now
        BY <4>1, <4>3
      <4> QED BY <4>1, <4>2, <4>3 DEF RowsWritten
    <3> QED BY <2>1, <3>1, <3>2, <3>4, <3>5 DEF BlockingOK, CallKept, ip
  <2> QED BY <2>2, <2>3
<1>8. DueBlocksHappen'
  <2> SUFFICES ASSUME NEW k \in DOMAIN incidents', incidents'[k].n \in followed', Due(k)'
               PROVE  blockSeen'[incidents'[k].ip] >= incidents'[k].at
      BY DEF DueBlocksHappen, Due
  <2>1. k \in DOMAIN incidents /\ incidents'[k] = incidents[k] /\ incidents[k].ip \in IPs
    BY <1>1
  <2>2. Due(k)
    <3>1. \A j \in 1..k : j \in DOMAIN incidents' /\ incidents'[j] = incidents[j]
      BY <1>1, <2>1
    <3> QED BY <2>1, <3>1, DueFades
  <2>3. CASE incidents[k].n \in followed
    <3>1. blockSeen[incidents[k].ip] >= incidents[k].at
      BY <2>1, <2>2, <2>3 DEF DueInv, DueBlocksHappen, Due
    <3> QED BY <1>1, <1>2, <2>1, <3>1
  <2>4. CASE incidents[k].n \notin followed
    <3>1. PICK w \in Workers : CallEnds(w) /\ incidents[k].n = job[w].n
      BY <2>1, <2>4 DEF CallEnds
    <3>2. k \in Mine(w) /\ incidents[k].ip = ip(w)
      <4>1. StoredOK(w) /\ job[w].phase \in Stored
        BY <3>1 DEF CallEnds, DueInv, WorkerOK
      <4>2. k \in Mine(w)
        BY <2>1, <3>1 DEF Mine
      <4> QED BY <4>1, <4>2 DEF StoredOK
    <3> QED BY <2>1, <2>2, <3>1, <3>2 DEF CallEnds
  <2> QED BY <2>3, <2>4
<1> QED BY <1>3, <1>4, <1>5, <1>6, <1>7, <1>8 DEF DueInv, WorkerOK

(* The commit of the incidents: each finding has its row, and no row was   *)
(* there that carries the number of the request.                           *)
LEMMA StoredRows ==
    ASSUME NEW w \in Workers, PipelineInv, PersistIncidents(w)
    PROVE  /\ Len(incidents) \in Nat /\ DOMAIN incidents = 1..Len(incidents)
           /\ Len(incidents') = Len(incidents) + Len(job[w].found)
           /\ DOMAIN incidents' = 1..Len(incidents')
           /\ \A k \in DOMAIN incidents : k \in DOMAIN incidents' /\ incidents'[k] = incidents[k]
           /\ \A i \in DOMAIN job[w].found :
                 /\ Len(incidents) + i \in DOMAIN incidents'
                 /\ incidents'[Len(incidents) + i] = NewRows(w)[i]
           /\ \A k \in DOMAIN incidents' :
                 k \in DOMAIN incidents \/ \E i \in DOMAIN job[w].found : k = Len(incidents) + i
<1> DEFINE new == NewRows(w)
<1>1. /\ now \in Nat /\ job[w] \in JobType /\ job[w].req.ip \in IPs
      /\ incidents \in Seq(IncidentType)
  <2>1. now \in Nat
    BY DEF PipelineInv, BP!RowsInv, BP!RowsTypeOK
  <2>2. job[w] \in JobType /\ incidents \in Seq(IncidentType)
    BY DEF PipelineInv, HandlerInv, JobsOK, RowsOK
  <2>3. job[w].req.ip \in IPs
    BY DEF PipelineInv, HandlerInv, PhasesOK, PhaseOK, PersistIncidents, In
  <2> QED BY <2>1, <2>2, <2>3
<1>2. /\ new \in Seq(IncidentType) /\ DOMAIN new = DOMAIN job[w].found
      /\ Len(new) = Len(job[w].found)
  BY <1>1, NewRowsSeq
<1>3. incidents' = incidents \o new
  BY DEF PersistIncidents
<1> HIDE DEF new
<1>4. /\ incidents' \in Seq(IncidentType)
      /\ Len(incidents') = Len(incidents) + Len(new)
      /\ \A k \in 1..Len(incidents') :
            incidents'[k] = IF k <= Len(incidents) THEN incidents[k]
                            ELSE new[k - Len(incidents)]
  <2>1. incidents \in Seq(IncidentType)
    BY <1>1
  <2>2. new \in Seq(IncidentType)
    BY <1>2
  <2> QED BY <2>1, <2>2, <1>3
<1>5. /\ Len(incidents) \in Nat /\ Len(new) \in Nat
      /\ DOMAIN incidents = 1..Len(incidents) /\ DOMAIN incidents' = 1..Len(incidents')
      /\ DOMAIN new = 1..Len(new)
  BY <1>1, <1>2, <1>4
<1>6. \A k \in DOMAIN incidents : k \in DOMAIN incidents' /\ incidents'[k] = incidents[k]
  BY <1>4, <1>5
<1>7. \A i \in DOMAIN new : /\ Len(incidents) + i \in DOMAIN incidents'
                             /\ incidents'[Len(incidents) + i] = new[i]
  BY <1>4, <1>5
<1>8. \A k \in DOMAIN incidents' :
         k \in DOMAIN incidents \/ \E i \in DOMAIN new : k = Len(incidents) + i
  <2> SUFFICES ASSUME NEW k \in DOMAIN incidents', k \notin DOMAIN incidents
               PROVE  \E i \in DOMAIN new : k = Len(incidents) + i
      OBVIOUS
  <2>1. k - Len(incidents) \in DOMAIN new /\ k = Len(incidents) + (k - Len(incidents))
    BY <1>4, <1>5
  <2> QED BY <2>1
<1> QED BY <1>2, <1>4, <1>5, <1>6, <1>7, <1>8 DEF new

(* What it does to the invariant: the handler goes on to a block only with *)
(* rows of its own, and none of them is followed up yet.                   *)
LEMMA StoreDue ==
    ASSUME PipelineInv, DueInv, NEW w \in Workers, PersistIncidents(w)
    PROVE  DueInv'
<1> DEFINE last == Len(incidents)
           severe == Cardinality({k \in DOMAIN job[w].found : IsSevere(job[w].found[k])})
           j == IF severe = 0 THEN Idle
                ELSE [job[w] EXCEPT !.phase = "followup", !.todo = severe]
<1>1. /\ UNCHANGED <<now, blocked, blk, pin, received, followed, blockSeen>>
      /\ job[w].phase = "incidents" /\ job' = [job EXCEPT ![w] = j]
  BY DEF PersistIncidents, In, Set, blVars, ghosts
<1>2. /\ \A k \in DOMAIN incidents : k \in DOMAIN incidents' /\ incidents'[k] = incidents[k]
      /\ \A i \in DOMAIN job[w].found :
            /\ last + i \in DOMAIN incidents'
            /\ incidents'[last + i] = NewRows(w)[i]
      /\ \A k \in DOMAIN incidents' :
            k \in DOMAIN incidents \/ \E i \in DOMAIN job[w].found : k = last + i
  BY StoredRows
<1>3. \A i \in DOMAIN job[w].found :
         /\ NewRows(w)[i].n = job[w].n /\ NewRows(w)[i].at = now
         /\ NewRows(w)[i].ip = ip(w) /\ NewRows(w)[i].finding = job[w].found[i]
         /\ NewRows(w)[i].status = IF job[w].blocked THEN "Blocked" ELSE "Open"
  BY DEF NewRows
<1>4. /\ now \in Nat /\ \A k \in DOMAIN incidents : incidents[k].at \in Nat
      /\ DOMAIN incidents \subseteq Nat /\ incidents \in Seq(IncidentType)
  <2>1. now \in Nat
    BY DEF PipelineInv, BP!RowsInv, BP!RowsTypeOK
  <2>2. RowsOK /\ incidents \in Seq(IncidentType)
    BY DEF PipelineInv, HandlerInv, RowsOK
  <2> QED BY <2>1, <2>2, IncidentFacts
<1>5. /\ \/ j = Idle
         \/ /\ j.phase = "followup" /\ j.n = job[w].n /\ j.req = job[w].req
            /\ j.blocked = job[w].blocked /\ severe # 0
      /\ job'[w] = j /\ \A v \in Workers : v # w => job'[v] = job[v]
  BY <1>1 DEF PipelineInv, HandlerInv, JobsOK, JobType
<1>6. severe # 0 => \E i \in DOMAIN job[w].found : IsSevere(job[w].found[i])
  <2>1. {k \in DOMAIN job[w].found : IsSevere(job[w].found[k])} = {} => severe = 0
    BY FS_EmptySet
  <2> QED BY <2>1
<1>7. PendingOK(w) /\ job[w].n \notin followed /\ Mine(w) = {}
  BY <1>1 DEF DueInv, WorkerOK, PendingOK, Pending
<1> HIDE DEF j, severe, last
<1>8. SeenOK'
  <2>1. \A k \in DOMAIN incidents' : incidents'[k].at <= now
    BY <1>2, <1>3, <1>4 DEF DueInv, SeenOK
  <2> QED BY <1>1, <2>1 DEF DueInv, SeenOK
<1>9. RowsExpire' /\ followed' \subseteq 1..received'
  BY <1>1 DEF DueInv, RowsExpire
<1>10. ASSUME NEW v \in Workers, v # w PROVE WorkerOK(v)'
  <2>1. job'[v] = job[v] /\ WorkerOK(v)
    BY <1>5, <1>10 DEF DueInv
  <2>2. job[v].phase \in Pending \union Stored => Mine(v)' = Mine(v)
    <3>1. job[v].phase \in Pending \union Stored => job[v].n # job[w].n
      BY <1>1, <1>10 DEF PipelineInv, HandlerInv, NumbersOK, Numbered, Pending, Stored
    <3> QED BY <1>2, <1>3, <2>1, <3>1 DEF Mine
  <2>3. \A k \in Mine(v) : incidents'[k] = incidents[k]
    BY <1>2 DEF Mine
  <2>4. PendingOK(v)' /\ WriteOK(v)'
    BY <1>1, <2>1, <2>2 DEF WorkerOK, PendingOK, WriteOK
  <2>5. StoredOK(v)'
    BY <2>1, <2>2, <2>3 DEF WorkerOK, StoredOK, ip
  <2>6. BlockingOK(v)'
    <3>1. job[v].phase = "blocking" => Mine(v)' = Mine(v)
      BY <2>2 DEF Stored
    <3>2. BL!IsBlocked(job[v].req.ip)' <=> BL!IsBlocked(job[v].req.ip)
      BY <1>1, <2>1 DEF BL!IsBlocked
    <3> QED BY <1>1, <2>1, <2>3, <3>1, <3>2 DEF WorkerOK, BlockingOK, ip
  <2> QED BY <2>4, <2>5, <2>6 DEF WorkerOK
<1>11. WorkerOK(w)'
  <2>1. CASE j = Idle
    BY <1>1, <1>5, <2>1, IdleType
    DEF DueInv, WorkerOK, PendingOK, StoredOK, WriteOK, BlockingOK, Pending, Stored
  <2>2. CASE /\ j.phase = "followup" /\ j.n = job[w].n /\ j.req = job[w].req
             /\ j.blocked = job[w].blocked /\ severe # 0
    <3>1. PendingOK(w)' /\ BlockingOK(w)'
      BY <1>5, <2>2 DEF PendingOK, BlockingOK, Pending
    <3>2. WriteOK(w)'
      BY <1>1 DEF DueInv, WorkerOK, WriteOK
    <3>3. \A k \in Mine(w)' : \E i \in DOMAIN job[w].found : k = last + i
      <4>1. \A k \in DOMAIN incidents : incidents[k].n # job[w].n
        BY <1>7 DEF Mine
      <4> QED BY <1>2, <1>5, <2>2, <4>1 DEF Mine
    <3>4. \A k \in Mine(w)' : /\ incidents'[k].ip = ip(w)
                              /\ incidents'[k].status = IF job[w].blocked THEN "Blocked"
                                                        ELSE "Open"
      BY <1>2, <1>3, <3>3
    <3>5. \E k \in Mine(w)' : IsSevere(incidents'[k].finding)
      <4>1. PICK i \in DOMAIN job[w].found : IsSevere(job[w].found[i])
        BY <1>6, <2>2
      <4>2. /\ last + i \in DOMAIN incidents' /\ incidents'[last + i].n = job'[w].n
            /\ incidents'[last + i].finding = job[w].found[i]
        BY <1>2, <1>3, <1>5, <2>2
      <4> QED BY <4>1, <4>2 DEF Mine
    <3>6. StoredOK(w)'
      BY <1>5, <2>2, <3>4, <3>5 DEF StoredOK, ip
    <3> QED BY <3>1, <3>2, <3>6 DEF WorkerOK
  <2> QED BY <1>5, <2>1, <2>2
<1>12. DueBlocksHappen'
  <2> SUFFICES ASSUME NEW k \in DOMAIN incidents', incidents'[k].n \in followed', Due(k)'
               PROVE  blockSeen'[incidents'[k].ip] >= incidents'[k].at
      BY DEF DueBlocksHappen, Due
  <2>1. k \in DOMAIN incidents /\ incidents'[k] = incidents[k]
    BY <1>1, <1>2, <1>3, <1>7
  <2>2. \A i \in 1..k : i \in DOMAIN incidents' /\ incidents'[i] = incidents[i]
    <3>1. 1..k \subseteq DOMAIN incidents
      BY <1>4, <2>1
    <3> QED BY <1>2, <3>1
  <2>3. Due(k)
    BY <1>1, <1>4, <2>1, <2>2, DueFades
  <2> QED BY <1>1, <2>1, <2>3 DEF DueInv, DueBlocksHappen, Due
<1> QED BY <1>8, <1>9, <1>10, <1>11, <1>12 DEF DueInv

-----------------------------------------------------------------------------
(* A step of one worker that stores no incidents.                          *)
LEMMA OneDue ==
    ASSUME NEW w \in Workers, PipelineInv, DueInv, UNCHANGED <<now, incidents>>,
           DOMAIN blocked' \subseteq IPs, RowsWritten, received' \in {received, received + 1},
           \A v \in Workers : Follows(v),
           \A v \in Workers \ {w} : job'[v] = job[v] /\ blk'[v] = blk[v],
           WriteOK(w)' /\ BlockingOK(w)',
           followed' = followed \/ CallEnds(w)
    PROVE  DueInv'
<1>1. now' \in Nat /\ now' >= now /\ (now' # now => blocked' = blocked)
  BY DEF PipelineInv, BP!RowsInv, BP!RowsTypeOK
<1>2. \A v \in Workers : Follows(v) /\ (CallKept(v) \/ (WriteOK(v)' /\ BlockingOK(v)'))
  BY DEF CallKept
<1> QED BY <1>1, <1>2, DueStep

(* A step that leaves the block list and its calls alone.                  *)
LEMMA CalmDue ==
    ASSUME PipelineInv, DueInv,
           UNCHANGED <<incidents, blocked, blk, followed, blockSeen>>,
           now' \in Nat, now' >= now, received' \in {received, received + 1},
           \A v \in Workers : /\ Follows(v)
                              /\ job'[v].phase = "blocking" => job[v].phase = "blocking"
    PROVE  DueInv'
<1>1. DOMAIN blocked' \subseteq IPs
  BY DEF PipelineInv, BP!RowsInv, BP!RowsTypeOK
<1>2. RowsWritten
  BY DEF RowsWritten, DueInv, SeenOK
<1>3. \A v \in Workers : Follows(v) /\ (CallKept(v) \/ (WriteOK(v)' /\ BlockingOK(v)'))
  BY DEF CallKept
<1> QED BY <1>1, <1>2, <1>3, DueStep

(* Every kind of step but the commit of incidents lets the handlers go on  *)
(* or end.                                                                 *)
LEMMA KindFollows ==
    ASSUME NEW w \in Workers, PipelineInv, Kind(w),
           job[w].phase # "incidents" \/ job'[w] = Idle
    PROVE  /\ received' \in {received, received + 1}
           /\ \A v \in Workers \ {w} : job'[v] = job[v]
           /\ \A v \in Workers : Follows(v)
<1>1. JobsOK
  BY DEF PipelineInv, HandlerInv
<1>2. ASSUME NEW j, job' = [job EXCEPT ![w] = j]
      PROVE  job'[w] = j /\ \A v \in Workers \ {w} : job'[v] = job[v]
  BY <1>1, <1>2 DEF JobsOK
<1>3. \A v \in Workers : job'[v] = job[v] => Follows(v)
  BY DEF Follows
<1>4. CASE Stays
  BY <1>3, <1>4 DEF Stays
<1>5. CASE job'[w] = Idle
  <2>1. Follows(w)
    BY <1>5, IdleType DEF Follows, Pending, Stored
  <2>2. /\ received' \in {received, received + 1}
        /\ \A v \in Workers \ {w} : job'[v] = job[v]
    <3>1. CASE Leaves(w)
      BY <1>2, <3>1 DEF Leaves
    <3>2. CASE \E j \in JobType : Enters(w, j) \/ Moves(w, j)
      BY <1>2, <3>2 DEF Enters, Moves
    <3>3. CASE Forward(w) \/ PersistRequest(w) \/ PersistIncidents(w)
      BY <1>2, <3>3 DEF Forward, PersistRequest, PersistIncidents, To, Set
    <3> QED BY <1>4, <3>1, <3>2, <3>3 DEF Kind, Stays
  <2> QED BY <1>3, <2>1, <2>2
<1>6. ASSUME NEW j \in JobType, Enters(w, j)
      PROVE  /\ received' \in {received, received + 1}
             /\ \A v \in Workers \ {w} : job'[v] = job[v]
             /\ Follows(w)
  BY <1>2, <1>6 DEF Enters, Follows, Pending, Stored
<1>7. ASSUME NEW j \in JobType, Moves(w, j)
      PROVE  /\ received' \in {received, received + 1}
             /\ \A v \in Workers \ {w} : job'[v] = job[v]
             /\ Follows(w)
  BY <1>2, <1>7 DEF Moves, Follows, Pending, Stored, Before, Upstream
<1>8. ASSUME Forward(w) \/ PersistRequest(w)
      PROVE  /\ received' \in {received, received + 1}
             /\ \A v \in Workers \ {w} : job'[v] = job[v]
             /\ Follows(w)
  <2>1. CASE Forward(w)
    <3>1. /\ job'[w] = [job[w] EXCEPT !.phase = "upstream"] /\ job[w].phase = "forward"
          /\ received' = received /\ \A v \in Workers \ {w} : job'[v] = job[v]
      BY <1>2, <2>1 DEF Forward, To, Set, In
    <3>2. job'[w].phase = "upstream" /\ job'[w].n = job[w].n /\ job'[w].req = job[w].req
      BY <1>1, <3>1 DEF JobsOK, JobType
    <3> QED BY <3>1, <3>2 DEF Follows, Pending
  <2>2. CASE PersistRequest(w) /\ job'[w] # Idle
    <3>1. /\ job'[w] = [job[w] EXCEPT !.phase = "incidents"] /\ job[w].phase = "persist"
          /\ received' = received /\ \A v \in Workers \ {w} : job'[v] = job[v]
      BY <1>2, <2>2 DEF PersistRequest, To, Set, In
    <3>2. job'[w].phase = "incidents" /\ job'[w].n = job[w].n /\ job'[w].req = job[w].req
      BY <1>1, <3>1 DEF JobsOK, JobType
    <3> QED BY <3>1, <3>2 DEF Follows, Pending
  <2> QED BY <1>3, <1>5, <1>8, <2>1, <2>2
<1>9. PersistIncidents(w) => job[w].phase = "incidents"
  BY DEF PersistIncidents, In
<1>10. Leaves(w) => job'[w] = Idle
  BY <1>2 DEF Leaves
<1> QED BY <1>3, <1>4, <1>5, <1>6, <1>7, <1>8, <1>9, <1>10 DEF Kind

(* Everything a handler does before its incidents are stored, the alert,   *)
(* and the pages and forms that block nobody.                              *)
QuietStep(w) ==
    \/ \E r \in Traffic : Receive(w, r)
    \/ \E a \in IPs : LoginForm(w, a)
    \/ RateLimited(w) \/ Preblock(w) \/ PreblockCount(w) \/ Forward(w)
    \/ UpstreamUnavailable(w) \/ UpstreamAnswers(w)
    \/ LoginRejected(w) \/ LoginRefused(w)
    \/ DetectCleanup(w) \/ DetectCount(w) \/ PersistRequest(w) \/ Password(w)
    \/ StartAlert(w) \/ ContinueAlert(w)

(* The steps that neither store incidents nor touch the block list.        *)
LEMMA QuietDue ==
    ASSUME NEW w \in Workers, PipelineInv, DueInv, QuietStep(w), Kind(w)
    PROVE  DueInv'
<1>1. now \in Nat /\ JobsOK
  BY DEF PipelineInv, HandlerInv, BP!RowsInv, BP!RowsTypeOK
<1>2. ASSUME \/ \E r \in Traffic : Receive(w, r)
             \/ \E a \in IPs : LoginForm(w, a)
             \/ RateLimited(w) \/ Preblock(w) \/ PreblockCount(w) \/ Forward(w)
      PROVE  /\ UNCHANGED <<now, incidents, blocked, blk, followed, blockSeen>>
             /\ job[w].phase \in {"idle", "preblock", "precount", "forward"}
  BY <1>2
  DEF Receive, LoginForm, RateLimited, Preblock, PreblockCount, Forward, In, rows, ghosts, blVars
<1>3. ASSUME \/ UpstreamUnavailable(w) \/ UpstreamAnswers(w)
             \/ LoginRejected(w) \/ LoginRefused(w)
             \/ DetectCleanup(w) \/ DetectCount(w) \/ PersistRequest(w) \/ Password(w)
      PROVE  /\ UNCHANGED <<now, incidents, blocked, blk, followed, blockSeen>>
             /\ job[w].phase \in {"upstream", "detect", "persist", "login"}
  BY <1>3
  DEF UpstreamUnavailable, UpstreamAnswers, LoginRejected, LoginRefused, DetectCleanup,
      DetectCount, PersistRequest, Password, In, rows, ghosts, blVars
<1>4. ASSUME StartAlert(w) \/ ContinueAlert(w)
      PROVE  /\ UNCHANGED <<now, incidents, blocked, blk, followed, blockSeen>>
             /\ job[w].phase \in {"followup", "alert"} /\ job'[w].phase # "blocking"
  <2>1. /\ UNCHANGED <<now, incidents, blocked, blk, followed, blockSeen>>
        /\ job[w].phase \in {"followup", "alert"}
    BY <1>4 DEF StartAlert, ContinueAlert, In, rows, ghosts, blVars
  <2>2. job'[w] = [job[w] EXCEPT !.phase = IF alr'[w].step = "idle" THEN "autoblock"
                                           ELSE "alert"]
    BY <1>1, <1>4 DEF StartAlert, ContinueAlert, To, Set, JobsOK
  <2> QED BY <1>1, <2>1, <2>2 DEF JobsOK, JobType
<1>5. /\ UNCHANGED <<now, incidents, blocked, blk, followed, blockSeen>>
      /\ \/ job[w].phase \in {"idle", "preblock", "precount", "forward", "upstream",
                              "detect", "persist", "login"}
         \/ job[w].phase \in {"followup", "alert"} /\ job'[w].phase # "blocking"
  BY <1>2, <1>3, <1>4 DEF QuietStep
<1>6. /\ received' \in {received, received + 1}
      /\ \A v \in Workers \ {w} : job'[v] = job[v]
      /\ \A v \in Workers : Follows(v)
  BY <1>5, KindFollows
<1>7. job'[w].phase = "blocking" => job[w].phase = "blocking"
  BY <1>5, <1>6 DEF Follows, Pending, Stored
<1>8. now' \in Nat /\ now' >= now
  BY <1>1, <1>5
<1> QED BY <1>5, <1>6, <1>7, <1>8, CalmDue

(* The dashboard's forms: rows go, or calls of an admin begin.             *)
LEMMA FormsDue ==
    ASSUME NEW w \in Workers, NEW a \in IPs, PipelineInv, DueInv, Kind(w),
           ManualBlock(w, a) \/ Unblock(w, a)
    PROVE  DueInv'
<1>1. /\ now \in Nat /\ JobsOK /\ DOMAIN blocked \subseteq IPs /\ DOMAIN blk = Workers
  BY DEF PipelineInv, HandlerInv, BP!RowsInv, BP!RowsTypeOK
<1>2. /\ UNCHANGED <<now, incidents, followed, blockSeen>> /\ job[w].phase = "idle"
  BY DEF ManualBlock, Unblock, In, rows, ghosts
<1>3. /\ received' \in {received, received + 1}
      /\ \A v \in Workers \ {w} : job'[v] = job[v]
      /\ \A v \in Workers : Follows(v)
  BY <1>2, KindFollows
<1>4. CASE ManualBlock(w, a)
  <2>1. blocked' = blocked /\ blk' = [blk EXCEPT ![w] = BL!Call("select", a, "manual")]
        /\ job' = [job EXCEPT ![w] = Job("admin", 0, NoRequest)]
    BY <1>4 DEF ManualBlock, BL!ManualBlock, BL!Go, Set
  <2>2. blk'[w].step = "select" /\ job'[w].phase = "admin"
    BY <1>1, <2>1 DEF BL!Call, Job, JobsOK
  <2>3. \A v \in Workers \ {w} : blk'[v] = blk[v]
    BY <1>1, <2>1
  <2>4. RowsWritten
    BY <1>2, <2>1 DEF RowsWritten, DueInv, SeenOK
  <2>5. WriteOK(w)' /\ BlockingOK(w)'
    BY <2>2 DEF WriteOK, BlockingOK
  <2> QED BY <1>1, <1>2, <1>3, <2>1, <2>3, <2>4, <2>5, OneDue
<1>5. CASE Unblock(w, a)
  <2>1. /\ blocked' = [x \in DOMAIN blocked \ {a} |-> blocked[x]] /\ job' = job
        /\ blk' = [v \in Workers |->
                      IF blk[v].ip = a /\ blk[v].row = "found"
                      THEN [blk[v] EXCEPT !.row = "deleted"] ELSE blk[v]]
    BY <1>5 DEF Unblock, BL!Unblock
  <2>2. RowsWritten
    BY <1>2, <2>1 DEF RowsWritten, DueInv, SeenOK
  <2>3. \A v \in Workers : CallKept(v)
    BY <2>1 DEF CallKept, PipelineInv, BP!RowsInv, BP!RowsTypeOK
  <2>4. DOMAIN blocked' \subseteq IPs /\ now' \in Nat /\ now' >= now /\ now' = now
    BY <1>1, <1>2, <2>1
  <2> QED BY <1>2, <1>3, <2>2, <2>3, <2>4, DueStep
<1> QED BY <1>4, <1>5

(* A handler that ends early drops its call.                               *)
LEMMA EndDue ==
    ASSUME NEW w \in Workers, PipelineInv, DueInv, Kind(w), EndEarly(w)
    PROVE  DueInv'
<1>1. now \in Nat /\ JobsOK /\ DOMAIN blocked \subseteq IPs /\ DOMAIN blk = Workers
  BY DEF PipelineInv, HandlerInv, BP!RowsInv, BP!RowsTypeOK
<1>2. UNCHANGED <<now, incidents, followed, blockSeen>> /\ job'[w] = Idle
  BY <1>1 DEF EndEarly, Set, rows, JobsOK
<1>3. /\ received' \in {received, received + 1}
      /\ \A v \in Workers \ {w} : job'[v] = job[v]
      /\ \A v \in Workers : Follows(v)
  BY <1>2, KindFollows
<1>4. blocked' = blocked /\ blk'[w].step = "idle" /\ \A v \in Workers \ {w} : blk'[v] = blk[v]
  BY <1>1 DEF EndEarly, blVars, BL!Abandon, BL!Go, BL!Idle, BL!Call
<1>5. RowsWritten
  BY <1>2, <1>4 DEF RowsWritten, DueInv, SeenOK
<1>6. WriteOK(w)' /\ BlockingOK(w)'
  BY <1>2, <1>4, IdleType DEF WriteOK, BlockingOK
<1> QED BY <1>1, <1>2, <1>3, <1>4, <1>5, <1>6, OneDue

-----------------------------------------------------------------------------
(* The steps of block_ip(), whoever called it: the expiry is that of the   *)
(* look-up, and the commit writes it unless the row was found to carry it. *)
LEMMA SelectWrites ==
    ASSUME NEW w \in Workers, PipelineInv, BL!BlockSelect(w)
    PROVE  /\ blocked' = blocked /\ blk'[w].step = "write" /\ blk'[w].by = blk[w].by
           /\ \A v \in Workers \ {w} : blk'[v] = blk[v]
           /\ blk'[w].expires = IF blk[w].by = "manual" \/ AutoDuration = Permanent
                                THEN Permanent ELSE now + AutoDuration
BY DEF BL!BlockSelect, BL!Go, BL!Permanent, Permanent, PipelineInv, BP!RowsInv, BP!RowsTypeOK

(* The commit of a block: the row carries the expiry of its call, and the  *)
(* ip has been seen blocked now, unless nothing changed; an automatic one  *)
(* that leaves the expiry out leaves out the one that the row still has.   *)
LEMMA CommitWrites ==
    ASSUME NEW w \in Workers, PipelineInv, DueInv, BL!BlockCommit(w), now' = now,
           NoteBlock(blk[w].ip)
    PROVE  /\ blk[w].step = "write" /\ blk'[w].step = "idle" /\ blk[w].ip \in IPs
           /\ \A v \in Workers \ {w} : blk'[v] = blk[v]
           /\ blocked' = BL!SetRow(blk[w].ip, BL!Written(blk[w]))
           /\ blk[w].by = "auto" => BL!Written(blk[w]) = blk[w].expires
           /\ DOMAIN blocked' \subseteq IPs
           /\ RowsWritten
<1> DEFINE e == BL!Written(blk[w])
<1>1. /\ now \in Nat /\ DOMAIN blk = Workers /\ DOMAIN blocked \subseteq IPs
      /\ blk[w].step # "idle" => blk[w].ip \in IPs
  BY DEF PipelineInv, BP!RowsInv, BP!RowsTypeOK
<1>2. /\ blk[w].step = "write" /\ blk' = [blk EXCEPT ![w] = BL!Idle]
      /\ blocked' = BL!SetRow(blk[w].ip, e)
  BY DEF BL!BlockCommit, BL!At, BL!Go
<1>3. /\ blk'[w].step = "idle" /\ blk[w].ip \in IPs
      /\ \A v \in Workers \ {w} : blk'[v] = blk[v]
  BY <1>1, <1>2 DEF BL!Idle, BL!Call
<1>4. \/ e = blk[w].expires
      \/ /\ blk[w].row = "found" /\ blk[w].expires = Permanent
         /\ blk[w].ip \in DOMAIN blocked /\ e = blocked[blk[w].ip]
  BY DEF BL!Written, BL!Permanent, Permanent, PipelineInv, BP!RowsInv, BP!FoundIsThere
<1>5. blk[w].by = "auto" => e = blk[w].expires
  <2> SUFFICES ASSUME blk[w].by = "auto", e # blk[w].expires PROVE FALSE
      OBVIOUS
  <2>1. AutoDuration = Permanent
    BY <1>2, <1>4 DEF DueInv, WorkerOK, WriteOK
  <2> QED BY <1>4, <2>1 DEF DueInv, RowsExpire
<1> HIDE DEF e
<1>6. /\ DOMAIN blocked' = DOMAIN blocked \union {blk[w].ip}
      /\ \A a \in DOMAIN blocked' :
            blocked'[a] = IF a = blk[w].ip THEN e ELSE blocked[a]
  BY <1>2 DEF BL!SetRow
<1>7. blockSeen \in [IPs -> Int]
  BY DEF DueInv, SeenOK
<1>8. RowsWritten
  <2>1. CASE blocked' = blocked
    <3>1. blockSeen' = blockSeen
      BY <2>1 DEF NoteBlock
    <3> QED BY <1>7, <2>1, <3>1 DEF RowsWritten
  <2>2. CASE blocked' # blocked
    <3>1. blockSeen' = [blockSeen EXCEPT ![blk[w].ip] = now]
      BY <2>2 DEF NoteBlock
    <3>2. \/ blk[w].expires = Permanent
          \/ AutoDuration # Permanent /\ blk[w].expires <= now + AutoDuration
      BY <1>2 DEF DueInv, WorkerOK, WriteOK
    <3>3. /\ blockSeen' \in [IPs -> Int]
          /\ \A a \in IPs : blockSeen'[a] = blockSeen[a] \/ blockSeen'[a] = now
          /\ blockSeen'[blk[w].ip] = now
      BY <1>1, <1>3, <1>7, <3>1
    <3> QED BY <1>3, <1>4, <1>6, <3>2, <3>3 DEF RowsWritten
  <2> QED BY <2>1, <2>2
<1> QED BY <1>1, <1>2, <1>3, <1>5, <1>6, <1>8 DEF e

(* A commit that raises changes no row.                                    *)
LEMMA FailKeeps ==
    ASSUME NEW w \in Workers, PipelineInv, BL!BlockFails(w)
    PROVE  /\ blocked' = blocked /\ blk'[w].step = "error" /\ blk'[w].by = blk[w].by
           /\ \A v \in Workers \ {w} : blk'[v] = blk[v]
BY DEF BL!BlockFails, BL!Go, BL!Call, PipelineInv, BP!RowsInv, BP!RowsTypeOK

(* The admin's call goes on.                                               *)
LEMMA ManualDue ==
    ASSUME NEW w \in Workers, PipelineInv, DueInv, Kind(w), ContinueManualBlock(w)
    PROVE  DueInv'
<1>1. now \in Nat /\ JobsOK /\ DOMAIN blocked \subseteq IPs
  BY DEF PipelineInv, HandlerInv, BP!RowsInv, BP!RowsTypeOK
<1>2. /\ UNCHANGED <<now, incidents, followed>> /\ job[w].phase = "admin"
      /\ job'[w].phase \in {"admin", "idle"} /\ NoteBlock(blk[w].ip)
  <2>1. CASE blk'[w].step = "idle"
    BY <1>1, <2>1, IdleType DEF ContinueManualBlock, In, Set, rows, JobsOK
  <2>2. CASE blk'[w].step # "idle"
    BY <2>2 DEF ContinueManualBlock, In, rows
  <2> QED BY <2>1, <2>2
<1>3. /\ received' \in {received, received + 1}
      /\ \A v \in Workers \ {w} : job'[v] = job[v]
      /\ \A v \in Workers : Follows(v)
  BY <1>2, KindFollows
<1>4. BlockingOK(w)'
  BY <1>2 DEF BlockingOK
<1>5. ASSUME blocked' = blocked PROVE RowsWritten
  BY <1>2, <1>5 DEF RowsWritten, DueInv, SeenOK, NoteBlock
<1>6. CASE BL!BlockSelect(w)
  <2>1. WriteOK(w)'
    <3>1. AutoDuration \in Nat \/ AutoDuration = Permanent
      BY AutoDurationType
    <3> QED BY <1>1, <1>2, <1>6, <3>1, SelectWrites DEF WriteOK, Permanent
  <2> QED BY <1>1, <1>2, <1>3, <1>4, <1>5, <1>6, <2>1, SelectWrites, OneDue
<1>7. CASE BL!BlockCommit(w)
  <2>1. WriteOK(w)'
    BY <1>2, <1>7, CommitWrites DEF WriteOK
  <2> QED BY <1>2, <1>3, <1>4, <1>7, <2>1, CommitWrites, OneDue
<1>8. CASE BL!BlockFails(w)
  <2>1. WriteOK(w)'
    BY <1>8, FailKeeps DEF WriteOK
  <2> QED BY <1>1, <1>2, <1>3, <1>4, <1>5, <1>8, <2>1, FailKeeps, OneDue
<1> QED BY <1>6, <1>7, <1>8 DEF ContinueManualBlock

-----------------------------------------------------------------------------
(* The automatic call: where it ends without a block, none was due or the  *)
(* ip is seen blocked.                                                     *)
LEMMA StartDue ==
    ASSUME NEW w \in Workers, PipelineInv, DueInv, Kind(w), StartAutoBlock(w)
    PROVE  DueInv'
<1> DEFINE free == AutoBlockEnabled /\ ~BL!IsBlocked(ip(w))
<1>1. /\ now \in Nat /\ JobsOK /\ DOMAIN blocked \subseteq IPs /\ DOMAIN blk = Workers
      /\ blockSeen \in [IPs -> Int]
  BY DEF PipelineInv, HandlerInv, BP!RowsInv, BP!RowsTypeOK, DueInv, SeenOK
<1>2. /\ UNCHANGED <<now, incidents, blocked>> /\ job[w].phase = "autoblock" /\ ip(w) \in IPs
  BY DEF StartAutoBlock, In, rows, BL!AutoBlockCheck, ip, PipelineInv, HandlerInv, PhasesOK,
         PhaseOK
<1>3. /\ received' \in {received, received + 1}
      /\ \A v \in Workers \ {w} : job'[v] = job[v]
      /\ \A v \in Workers : Follows(v)
  BY <1>2, KindFollows
<1>4. \A v \in Workers \ {w} : blk'[v] = blk[v]
  BY <1>1 DEF StartAutoBlock, BL!AutoBlockCheck, BL!Go
<1>5. /\ blockSeen' = IF BL!IsBlocked(ip(w)) THEN [blockSeen EXCEPT ![ip(w)] = now]
                      ELSE blockSeen
  BY DEF StartAutoBlock
<1>6. RowsWritten
  BY <1>1, <1>2, <1>5 DEF RowsWritten
<1>7. CASE ~free
  <2>1. blk'[w].step = "idle"
    BY <1>1, <1>7 DEF StartAutoBlock, BL!AutoBlockCheck, BL!Go, BL!Idle, BL!Call
  <2>2. job'[w].phase # "blocking" /\ followed' = followed \union {job[w].n}
    <3>1. /\ followed' = followed \union {job[w].n}
          /\ \/ job'[w] = Idle
             \/ job'[w] = [job[w] EXCEPT !.phase = "followup", !.todo = job[w].todo - 1]
      BY <1>1, <2>1 DEF StartAutoBlock, AfterBlockStep, Set, JobsOK, JobType
    <3> QED BY <1>1, <3>1, IdleType DEF JobsOK, JobType
  <2>3. WriteOK(w)' /\ BlockingOK(w)'
    BY <2>1, <2>2 DEF WriteOK, BlockingOK
  <2>4. CallEnds(w)
    <3>1. ASSUME NEW k \in Mine(w), Due(k) PROVE blockSeen'[ip(w)] >= incidents[k].at
      <4>1. BL!IsBlocked(ip(w))
        BY <1>7, <3>1 DEF Due
      <4>2. blockSeen'[ip(w)] = now
        BY <1>1, <1>2, <1>5, <4>1
      <4>3. incidents[k].at <= now
        BY DEF Mine, DueInv, SeenOK
      <4> QED BY <4>2, <4>3
    <3> QED BY <1>2, <2>2, <3>1 DEF CallEnds, Stored
  <2> QED BY <1>1, <1>2, <1>3, <1>4, <1>6, <2>3, <2>4, OneDue
<1>8. CASE free
  <2>1. /\ blk' = [blk EXCEPT ![w] = BL!Call(IF job[w].blocked THEN "select" ELSE "count",
                                             ip(w), "auto")]
    BY <1>8 DEF StartAutoBlock, BL!AutoBlockCheck, BL!Go
  <2>2. /\ blk'[w].step = IF job[w].blocked THEN "select" ELSE "count"
        /\ blk'[w].by = "auto"
    BY <1>1, <2>1 DEF BL!Call
  <2>3. followed' = followed /\ job' = [job EXCEPT ![w] = [job[w] EXCEPT !.phase = "blocking"]]
    BY <2>2 DEF StartAutoBlock, AfterBlockStep, To, Set
  <2>4. /\ job'[w].phase = "blocking" /\ job'[w].blocked = job[w].blocked
        /\ job'[w].req = job[w].req
    BY <1>1, <2>3 DEF JobsOK, JobType
  <2>5. ~BL!IsBlocked(ip(w))'
    BY <1>2, <1>8, <2>4 DEF BL!IsBlocked, ip
  <2>6. WriteOK(w)'
    BY <2>2 DEF WriteOK
  <2>7. BlockingOK(w)'
    BY <2>2, <2>4, <2>5 DEF BlockingOK, ip
  <2> QED BY <1>1, <1>2, <1>3, <1>4, <1>6, <2>3, <2>6, <2>7, OneDue
<1> QED BY <1>7, <1>8

(* A due incident of an open request counts among those of its window.     *)
LEMMA DueCounts ==
    ASSUME PipelineInv, NEW k \in DOMAIN incidents, Due(k), incidents[k].status # "Blocked"
    PROVE  BL!CountSevere(incidents[k].ip) >= AutoThreshold
<1> DEFINE a == incidents[k].ip
           mine == {j \in 1..k : IsSevereOf(a, incidents[j])
                                  /\ incidents[j].at >= now - AutoWindow}
           all == {j \in DOMAIN incidents : IsSevereOf(a, incidents[j])
                                  /\ incidents[j].at >= now - AutoWindow}
<1>1. /\ incidents \in Seq(IncidentType) /\ k \in 1..Len(incidents) /\ Len(incidents) \in Nat
      /\ DOMAIN incidents = 1..Len(incidents)
  BY DEF PipelineInv, HandlerInv, RowsOK
<1>2. a \in IPs
  BY IncidentFacts DEF PipelineInv, HandlerInv
<1>3. {i \in DOMAIN Severe[a] : Severe[a][i] >= now - AutoWindow} = all
  BY <1>2 DEF Severe
<1>4. mine \subseteq all /\ all \subseteq 1..Len(incidents)
  BY <1>1
<1>5. IsFiniteSet(1..Len(incidents))
  BY <1>1, FS_Interval
<1>6. Cardinality(mine) >= AutoThreshold
  BY DEF Due
<1> HIDE DEF mine, all
<1>7. IsFiniteSet(all) /\ IsFiniteSet(mine) /\ Cardinality(mine) <= Cardinality(all)
  BY <1>4, <1>5, FS_Subset
<1>8. Cardinality(mine) \in Nat /\ Cardinality(all) \in Nat
  BY <1>7, FS_CardinalityType
<1>9. Cardinality(all) >= AutoThreshold
  BY <1>6, <1>7, <1>8, AutoThresholdPositive
<1>10. BL!CountSevere(a) = Cardinality(all)
  BY <1>3 DEF BL!CountSevere, BL!Cardinality, Cardinality
<1> QED BY <1>9, <1>10

(* The count of a client's severe incidents is a number.                   *)
LEMMA SevereCount ==
    ASSUME PipelineInv, NEW a \in IPs
    PROVE  BL!CountSevere(a) \in Nat
<1> DEFINE recent == {i \in DOMAIN Severe[a] : Severe[a][i] >= now - AutoWindow}
<1>1. /\ incidents \in Seq(IncidentType) /\ Len(incidents) \in Nat
      /\ DOMAIN incidents = 1..Len(incidents)
  BY DEF PipelineInv, HandlerInv, RowsOK
<1>2. recent \subseteq 1..Len(incidents) /\ IsFiniteSet(1..Len(incidents))
  BY <1>1, FS_Interval DEF Severe
<1>3. BL!CountSevere(a) = Cardinality(recent)
  BY DEF BL!CountSevere, BL!Cardinality, Cardinality
<1> HIDE DEF recent
<1> QED BY <1>2, <1>3, FS_Subset, FS_CardinalityType

(* The automatic call goes on: it ends after its count only below the      *)
(* threshold, and after its commit with the ip blocked.                    *)
LEMMA ContinueDue ==
    ASSUME NEW w \in Workers, PipelineInv, DueInv, Kind(w), ContinueAutoBlock(w)
    PROVE  DueInv'
<1> DEFINE goes == /\ followed' = followed
                   /\ job' = [job EXCEPT ![w] = [job[w] EXCEPT !.phase = "blocking"]]
           ends == followed' = followed \union {job[w].n} /\ job'[w].phase # "blocking"
<1>1. /\ now \in Nat /\ JobsOK /\ DOMAIN blocked \subseteq IPs /\ DOMAIN blk = Workers
      /\ blockSeen \in [IPs -> Int]
  BY DEF PipelineInv, HandlerInv, BP!RowsInv, BP!RowsTypeOK, DueInv, SeenOK
<1>2. /\ UNCHANGED <<now, incidents>> /\ job[w].phase = "blocking"
      /\ ip(w) \in IPs /\ NoteBlock(ip(w)) /\ AfterBlockStep(w)
  BY DEF ContinueAutoBlock, In, rows, ip, PipelineInv, HandlerInv, PhasesOK, PhaseOK
<1>3. /\ received' \in {received, received + 1}
      /\ \A v \in Workers \ {w} : job'[v] = job[v]
      /\ \A v \in Workers : Follows(v)
  BY <1>2, KindFollows
<1>4. blk[w].step # "idle" => blk[w].ip = ip(w)
  BY <1>2 DEF PipelineInv, CallsOK
<1>5. /\ blk[w].by = "auto"
      /\ blk[w].step = "count" => ~job[w].blocked
      /\ \A k \in Mine(w) :
            /\ incidents[k].at \in Nat /\ incidents[k].at <= now
            /\ k \in DOMAIN incidents /\ incidents[k].ip = ip(w)
            /\ incidents[k].status = IF job[w].blocked THEN "Blocked" ELSE "Open"
            /\ BL!IsBlocked(ip(w)) => blockSeen[ip(w)] >= incidents[k].at
            /\ blk[w].step = "write" /\ blk[w].expires # Permanent
                  => blk[w].expires >= incidents[k].at + AutoDuration
  <2>1. BlockingOK(w) /\ StoredOK(w) /\ SeenOK /\ RowsOK
    BY DEF DueInv, WorkerOK, PipelineInv, HandlerInv
  <2>2. \A k \in Mine(w) : k \in DOMAIN incidents
    BY DEF Mine
  <2>3. \A k \in Mine(w) : incidents[k].at \in Nat
    BY <2>1, <2>2, IncidentFacts
  <2>4. \A k \in Mine(w) : incidents[k].at <= now
    BY <2>1, <2>2 DEF SeenOK
  <2>5. \A k \in Mine(w) :
           /\ incidents[k].ip = ip(w)
           /\ incidents[k].status = IF job[w].blocked THEN "Blocked" ELSE "Open"
    BY <1>2, <2>1 DEF StoredOK, Stored
  <2> QED BY <1>2, <2>1, <2>2, <2>3, <2>4, <2>5 DEF BlockingOK
<1>6. blk'[w].step # "idle" => goes
  BY <1>2 DEF AfterBlockStep, To, Set
<1>7. blk'[w].step = "idle" => ends
  <2> SUFFICES ASSUME blk'[w].step = "idle" PROVE ends
      OBVIOUS
  <2>1. /\ followed' = followed \union {job[w].n}
        /\ \/ job'[w] = Idle
           \/ job'[w] = [job[w] EXCEPT !.phase = "followup", !.todo = job[w].todo - 1]
    BY <1>1, <1>2 DEF AfterBlockStep, Set, JobsOK, JobType
  <2> QED BY <1>1, <2>1, IdleType DEF JobsOK, JobType
<1>8. goes => /\ job'[w].phase = "blocking" /\ job'[w].blocked = job[w].blocked
              /\ job'[w].req = job[w].req /\ Mine(w)' = Mine(w)
  <2> SUFFICES ASSUME goes
               PROVE  /\ job'[w].blocked = job[w].blocked /\ job'[w].req = job[w].req
                      /\ job'[w].phase = "blocking" /\ Mine(w)' = Mine(w)
      OBVIOUS
  <2>1. /\ job'[w].blocked = job[w].blocked /\ job'[w].req = job[w].req
        /\ job'[w].phase = "blocking" /\ job'[w].n = job[w].n
    BY <1>1 DEF JobsOK, JobType
  <2> QED BY <1>2, <2>1 DEF Mine
<1> HIDE DEF goes, ends
<1>9. ASSUME blocked' = blocked
      PROVE  /\ RowsWritten /\ blockSeen' = blockSeen
             /\ BL!IsBlocked(ip(w))' => (goes => BL!IsBlocked(ip(w)))
  <2>1. blockSeen' = blockSeen
    BY <1>9 DEF NoteBlock, ContinueAutoBlock
  <2>2. RowsWritten
    BY <1>1, <1>9, <2>1 DEF RowsWritten
  <2> QED BY <1>2, <1>8, <1>9, <2>1, <2>2 DEF BL!IsBlocked, ip
<1>10. ASSUME blocked' = blocked, goes, blk'[w].by = "auto", blk'[w].step # "count",
              \A k \in Mine(w) :
                 blk'[w].step = "write" /\ blk'[w].expires # Permanent
                    => blk'[w].expires >= incidents[k].at + AutoDuration
       PROVE  BlockingOK(w)'
  <2>1. \A k \in Mine(w) : BL!IsBlocked(ip(w))' => blockSeen[ip(w)] >= incidents[k].at
    BY <1>5, <1>9, <1>10
  <2>2. ip(w)' = ip(w) /\ Mine(w)' = Mine(w)
    BY <1>8, <1>10 DEF ip
  <2> QED BY <1>2, <1>9, <1>10, <2>1, <2>2 DEF BlockingOK
<1>11. CASE BL!AutoBlockCount(w)
  <2>1. /\ blk[w].step = "count" /\ blocked' = blocked
        /\ blk' = [blk EXCEPT ![w] = IF BL!CountSevere(ip(w)) < AutoThreshold THEN BL!Idle
                                     ELSE BL!Call("select", ip(w), "auto")]
    BY <1>4, <1>11 DEF BL!AutoBlockCount, BL!At, BL!Go
  <2>2. \A v \in Workers \ {w} : blk'[v] = blk[v]
    BY <1>1, <2>1
  <2>3. CASE BL!CountSevere(ip(w)) < AutoThreshold
    <3>1. blk'[w].step = "idle"
      BY <1>1, <2>1, <2>3 DEF BL!Idle, BL!Call
    <3>2. WriteOK(w)' /\ BlockingOK(w)'
      BY <1>7, <3>1 DEF WriteOK, BlockingOK, ends
    <3>3. \A k \in Mine(w) : ~Due(k)
      <4> SUFFICES ASSUME NEW k \in Mine(w), Due(k) PROVE FALSE
          OBVIOUS
      <4>1. k \in DOMAIN incidents /\ incidents[k].status # "Blocked" /\ incidents[k].ip = ip(w)
        BY <1>5, <2>1
      <4>2. BL!CountSevere(ip(w)) >= AutoThreshold
        BY <4>1, DueCounts
      <4>3. BL!CountSevere(ip(w)) \in Nat
        BY <1>2, SevereCount
      <4> QED BY <2>3, <4>2, <4>3, AutoThresholdPositive
    <3>4. CallEnds(w)
      BY <1>2, <1>7, <3>1, <3>3 DEF CallEnds, Stored, ends
    <3> QED BY <1>1, <1>2, <1>3, <1>9, <2>1, <2>2, <3>2, <3>4, OneDue
  <2>4. CASE ~(BL!CountSevere(ip(w)) < AutoThreshold)
    <3>1. blk'[w].step = "select" /\ blk'[w].by = "auto"
      BY <1>1, <2>1, <2>4 DEF BL!Call
    <3>2. goes /\ followed' = followed
      BY <1>6, <3>1 DEF goes
    <3>3. WriteOK(w)' /\ BlockingOK(w)'
      BY <1>10, <2>1, <3>1, <3>2 DEF WriteOK
    <3> QED BY <1>1, <1>2, <1>3, <1>9, <2>1, <2>2, <3>2, <3>3, OneDue
  <2> QED BY <2>3, <2>4
<1>12. CASE BL!BlockSelect(w)
  <2>1. /\ blocked' = blocked /\ blk'[w].step = "write" /\ blk'[w].by = "auto"
        /\ blk'[w].expires = IF AutoDuration = Permanent THEN Permanent ELSE now + AutoDuration
        /\ \A v \in Workers \ {w} : blk'[v] = blk[v]
    BY <1>5, <1>12, SelectWrites
  <2>2. goes /\ followed' = followed
    BY <1>6, <2>1 DEF goes
  <2>3. AutoDuration \in Nat \/ AutoDuration = Permanent
    BY AutoDurationType
  <2>4. WriteOK(w)'
    BY <1>1, <1>2, <2>1, <2>3 DEF WriteOK, Permanent
  <2>5. \A k \in Mine(w) :
           blk'[w].expires # Permanent => blk'[w].expires >= incidents[k].at + AutoDuration
    BY <1>1, <1>5, <2>1, <2>3
  <2>6. BlockingOK(w)'
    BY <1>10, <2>1, <2>2, <2>5
  <2> QED BY <1>1, <1>2, <1>3, <1>9, <2>1, <2>2, <2>4, <2>6, OneDue
<1>13. CASE BL!BlockCommit(w)
  <2>1. blk[w].step = "write" /\ blk[w].ip = ip(w)
    BY <1>4, <1>13 DEF BL!BlockCommit, BL!At
  <2>2. /\ blk'[w].step = "idle" /\ DOMAIN blocked' \subseteq IPs /\ RowsWritten
        /\ \A v \in Workers \ {w} : blk'[v] = blk[v]
        /\ blocked' = BL!SetRow(ip(w), blk[w].expires)
    BY <1>2, <1>5, <1>13, <2>1, CommitWrites
  <2>3. WriteOK(w)' /\ BlockingOK(w)'
    BY <1>7, <2>2 DEF WriteOK, BlockingOK, ends
  <2>4. ASSUME NEW k \in Mine(w) PROVE blockSeen'[ip(w)] >= incidents[k].at
    <3>1. CASE blocked' # blocked
      <4>1. blockSeen'[ip(w)] = now
        BY <1>1, <1>2, <3>1 DEF NoteBlock
      <4> QED BY <1>5, <4>1
    <3>2. CASE blocked' = blocked
      <4>1. blockSeen' = blockSeen
        BY <1>9, <3>2
      <4>2. ip(w) \in DOMAIN blocked /\ blocked[ip(w)] = blk[w].expires
        BY <2>2, <3>2 DEF BL!SetRow
      <4>3. CASE blk[w].expires = Permanent
        <5>1. BL!IsBlocked(ip(w))
          BY <4>2, <4>3 DEF BL!IsBlocked, BL!Permanent, Permanent
        <5> QED BY <1>5, <4>1, <5>1
      <4>4. CASE blk[w].expires # Permanent
        <5>1. /\ AutoDuration # Permanent
              /\ blk[w].expires <= blockSeen[ip(w)] + AutoDuration
          BY <4>2, <4>4 DEF DueInv, RowsExpire
        <5>2. blk[w].expires >= incidents[k].at + AutoDuration /\ incidents[k].at \in Nat
          BY <1>5, <2>1, <4>4
        <5>3. blk[w].expires \in Int /\ AutoDuration \in Nat /\ blockSeen[ip(w)] \in Int
          <6>1. blocked[ip(w)] \in Int
            BY <4>2 DEF PipelineInv, BP!RowsInv, BP!RowsTypeOK, BP!Expiry, BP!Permanent
          <6> QED BY <1>1, <1>2, <4>2, <5>1, <6>1, AutoDurationType
        <5> QED BY <4>1, <5>1, <5>2, <5>3
      <4> QED BY <4>3, <4>4
    <3> QED BY <3>1, <3>2
  <2>5. CallEnds(w)
    BY <1>2, <1>7, <2>2, <2>4 DEF CallEnds, Stored, ends
  <2> QED BY <1>2, <1>3, <2>2, <2>3, <2>5, OneDue
<1>14. CASE BL!BlockFails(w)
  <2>1. /\ blocked' = blocked /\ blk'[w].step = "error" /\ blk'[w].by = "auto"
        /\ \A v \in Workers \ {w} : blk'[v] = blk[v]
    BY <1>5, <1>14, FailKeeps
  <2>2. goes /\ followed' = followed
    BY <1>6, <2>1 DEF goes
  <2>3. WriteOK(w)' /\ BlockingOK(w)'
    BY <1>10, <2>1, <2>2 DEF WriteOK
  <2> QED BY <1>1, <1>2, <1>3, <1>9, <2>1, <2>2, <2>3, OneDue
<1> QED BY <1>11, <1>12, <1>13, <1>14 DEF ContinueAutoBlock

-----------------------------------------------------------------------------
(* No incident is stored at first, and every step keeps the invariant.     *)
LEMMA DueInit == Init => DueInv
<1> SUFFICES ASSUME Init PROVE DueInv
    OBVIOUS
<1>1. /\ incidents = <<>> /\ now = 0 /\ followed = {} /\ received = 0
      /\ DOMAIN blocked = {} /\ blockSeen = [a \in IPs |-> -1]
      /\ job = [w \in Workers |-> Idle] /\ blk = [w \in Workers |-> BL!Idle]
  BY DEF Init, BL!Init, LA!Init
<1>2. SeenOK /\ RowsExpire /\ DueBlocksHappen
  BY <1>1 DEF SeenOK, RowsExpire, DueBlocksHappen
<1>3. ASSUME NEW w \in Workers PROVE WorkerOK(w)
  <2>1. job[w].phase = "idle" /\ blk[w].step = "idle"
    BY <1>1, IdleType DEF BL!Idle, BL!Call
  <2> QED
    BY <2>1 DEF WorkerOK, PendingOK, StoredOK, WriteOK, BlockingOK, Pending, Stored
<1> QED BY <1>1, <1>2, <1>3 DEF DueInv

(* Every step keeps the invariant.                                         *)
LEMMA DueKept == PipelineInv /\ DueInv /\ [Next]_vars => DueInv'
<1> SUFFICES ASSUME PipelineInv, DueInv, [Next]_vars PROVE DueInv'
    OBVIOUS
<1>1. ASSUME NEW w \in Workers, Arrive(w) PROVE DueInv' \/ UNCHANGED vars
  <2>1. Kind(w)
    BY <1>1, ArriveKind
  <2> QED BY <1>1, <2>1, QuietDue, FormsDue DEF Arrive, QuietStep, ReadOnlyPage
<1>2. ASSUME NEW w \in Workers, Progress(w) \/ Crash(w) PROVE DueInv'
  <2>1. Kind(w)
    BY <1>2, RequestKind, StoreKind, FollowUpKind, EndKind DEF Progress
  <2>2. InternalError(w) \/ PersistFails(w) \/ Crash(w) => EndEarly(w)
    BY DEF InternalError, PersistFails, Crash
  <2> QED
    BY <1>2, <2>1, <2>2, QuietDue, StoreDue, StartDue, ContinueDue, ManualDue, EndDue
    DEF Progress, QuietStep
<1>3. CASE Tick \/ UNCHANGED vars
  <2>1. /\ UNCHANGED <<incidents, blocked, blk, followed, blockSeen, job, received>>
        /\ now' = now \/ now' = now + 1
    BY <1>3 DEF Tick, vars, rows, ghosts, blVars
  <2>2. now \in Nat /\ now' \in Nat /\ now' >= now
    <3>1. now \in Nat
      BY DEF PipelineInv, BP!RowsInv, BP!RowsTypeOK
    <3> QED BY <2>1, <3>1
  <2>3. \A v \in Workers : Follows(v)
    BY <2>1 DEF Follows
  <2> QED BY <2>1, <2>2, <2>3, CalmDue
<1> QED BY <1>1, <1>2, <1>3 DEF Next

(* The invariant of due blocks holds in every reachable state.             *)
THEOREM DueInvariant == Spec => []DueInv
BY PipelineInvariant, DueInit, DueKept, PTL DEF Spec

(* Whatever handlers run at once, and whichever of them fail or are        *)
(* killed: once maybe_auto_block() was done for an incident that called    *)
(* for a block, the ip has been blocked since the incident was stored.     *)
THEOREM DueBlocksAreMade == Spec => []DueBlocksHappen
<1>1. DueInv => DueBlocksHappen
  BY DEF DueInv
<1> QED BY <1>1, DueInvariant, PTL

-----------------------------------------------------------------------------
(* How much a request can add to the log.  A request that still has its    *)
(* incidents to store leaves room for them in the bounds of the block      *)
(* list, so those bounds never hold a handler up.                          *)
Early == {"preblock", "precount", "forward", "upstream", "detect"}
Awaiting == {w \in Workers : job[w].phase \in Pending}
FoundFits(w) ==
    /\ job[w].phase \in Early => Len(job[w].found) < MaxBatch
    /\ job[w].phase \in {"persist", "incidents"} => Len(job[w].found) <= MaxBatch
    /\ job[w].phase = "incidents" => job[w].found # <<>>

FitInv ==
    /\ received \in 0..MaxRequests
    /\ \A w \in Workers : FoundFits(w)
    /\ Len(incidents) + MaxBatch * Cardinality(Awaiting) <= MaxBatch * received

(* At most one finding of each detector comes out of the inspection.       *)
LEMMA InspectionFits ==
    ASSUME NEW s, IsInspection(s)
    PROVE  s \in Seq(AllFindings) /\ Len(s) < MaxBatch
<1> DEFINE D == Len(PreForwardDetectors)
           f == [i \in 1..Len(s) |-> Position(s[i])]
<1>1. D \in Nat /\ DOMAIN PreForwardDetectors = 1..D
  BY DEF PreForwardDetectors
<1>2. s \in Seq(PreForward) /\ Len(s) \in Nat /\ DOMAIN s = 1..Len(s)
  BY DEF IsInspection
<1>3. \A i \in 1..Len(s) : s[i] \in PreForward
  BY <1>2
<1>4. \A x \in PreForward : Position(x) \in 1..D
  BY <1>1 DEF PreForward, Position
<1>5. f \in [1..Len(s) -> 1..D]
  BY <1>3, <1>4
<1>6. \A i, j \in 1..Len(s) : i < j => f[i] < f[j]
  BY <1>2 DEF IsInspection
<1>7. ASSUME NEW i \in 1..Len(s), NEW j \in 1..Len(s), f[i] = f[j] PROVE i = j
  <2>1. f[i] \in Int /\ f[j] \in Int /\ i \in Int /\ j \in Int
    BY <1>5
  <2>2. ~(i < j) /\ ~(j < i)
    BY <1>6, <1>7, <2>1
  <2> QED BY <2>1, <2>2
<1>8. f \in Injection(1..Len(s), 1..D)
  BY <1>5, <1>7 DEF Injection, IsInjective
<1>9. /\ IsFiniteSet(1..D) /\ Cardinality(1..D) = D
      /\ IsFiniteSet(1..Len(s)) /\ Cardinality(1..Len(s)) = Len(s)
  <2>1. \A n \in Nat : IsFiniteSet(1..n) /\ Cardinality(1..n) = n
    BY FS_Interval
  <2> HIDE DEF D
  <2> QED BY <1>1, <1>2, <2>1
<1>10. Cardinality(1..Len(s)) <= Cardinality(1..D)
  BY <1>8, <1>9, FS_Injection
<1>11. s \in Seq(AllFindings)
  BY <1>2 DEF AllFindings
<1> HIDE DEF D
<1> QED BY <1>1, <1>2, <1>9, <1>10, <1>11, BatchFits, BoundsNat DEF D

(* The room that is reserved: M for each waiting handler.                  *)
LEMMA RoomFor ==
    ASSUME NEW m \in Nat, NEW c \in Nat
    PROVE  m * (c + 1) = m * c + m /\ m * c \in Nat
OBVIOUS

(* The number of waiting handlers is a number, and how it changes.         *)
LEMMA WaitingFinite ==
    ASSUME NEW S, S \subseteq Workers
    PROVE  IsFiniteSet(S) /\ Cardinality(S) \in Nat
BY WorkersFinite, FS_Subset, FS_CardinalityType

(* A step in which no handler begins to wait, or one that just arrived.    *)
LEMMA RoomKept ==
    ASSUME NEW w, PipelineInv, FitInv, w \in Workers,
           Len(incidents') = Len(incidents),
           \/ received' = received /\ Awaiting' \subseteq Awaiting
           \/ received' = received + 1 /\ Awaiting' \subseteq Awaiting \union {w}
    PROVE  Len(incidents') + MaxBatch * Cardinality(Awaiting') <= MaxBatch * received'
<1> DEFINE c == Cardinality(Awaiting)
           d == Cardinality(Awaiting')
           l == Len(incidents)
<1>1. MaxBatch \in Nat /\ received \in Nat /\ l \in Nat /\ l + MaxBatch * c <= MaxBatch * received
  BY BoundsNat DEF FitInv, PipelineInv, HandlerInv, NumbersOK, RowsOK
<1>2. /\ IsFiniteSet(Awaiting) /\ c \in Nat /\ d \in Nat
  <2>1. Awaiting \subseteq Workers /\ Awaiting' \subseteq Workers
    BY DEF Awaiting
  <2> QED BY <2>1, WaitingFinite
<1>3. CASE received' = received /\ Awaiting' \subseteq Awaiting
  <2>1. d <= c
    BY <1>2, <1>3, FS_Subset
  <2>2. MaxBatch * d <= MaxBatch * c /\ MaxBatch * d \in Nat /\ MaxBatch * c \in Nat
    BY <1>1, <1>2, <2>1
  <2> QED BY <1>1, <1>3, <2>2
<1>4. CASE received' = received + 1 /\ Awaiting' \subseteq Awaiting \union {w}
  <2>1. d <= c + 1
    <3>1. /\ IsFiniteSet(Awaiting \cup {w})
          /\ Cardinality(Awaiting \cup {w}) = IF w \in Awaiting THEN c ELSE c + 1
      BY <1>2, FS_AddElement, Zenon
    <3>2. d <= Cardinality(Awaiting \cup {w})
      BY <1>4, <3>1, FS_Subset
    <3> QED BY <1>2, <3>1, <3>2
  <2>2. MaxBatch * d <= MaxBatch * (c + 1)
    BY <1>1, <1>2, <2>1
  <2>3. /\ MaxBatch * (c + 1) = MaxBatch * c + MaxBatch
        /\ MaxBatch * (received + 1) = MaxBatch * received + MaxBatch
        /\ MaxBatch * c \in Nat /\ MaxBatch * received \in Nat /\ MaxBatch * d \in Nat
    BY <1>1, <1>2, RoomFor
  <2> QED BY <1>1, <1>4, <2>2, <2>3
<1> QED BY <1>3, <1>4

(* The commit of the incidents fills the room its handler had reserved.    *)
LEMMA RoomFilled ==
    ASSUME NEW w \in Workers, PipelineInv, FitInv, PersistIncidents(w)
    PROVE  /\ Len(job[w].found) \in 1..MaxBatch
           /\ Len(incidents) < MaxIncidents
           /\ Len(incidents') + MaxBatch * Cardinality(Awaiting') <= MaxBatch * received'
<1> DEFINE c == Cardinality(Awaiting)
           d == Cardinality(Awaiting')
           l == Len(incidents)
           n == Len(job[w].found)
<1>1. /\ MaxBatch \in Nat \ {0} /\ received \in Nat /\ received <= MaxRequests
      /\ l \in Nat /\ l + MaxBatch * c <= MaxBatch * received
  <2>1. Len(PreForwardDetectors) \in Nat
    BY DEF PreForwardDetectors
  <2> QED BY <2>1, BoundsNat, BatchFits DEF FitInv, PipelineInv, HandlerInv, NumbersOK, RowsOK
<1>2. /\ job[w].phase = "incidents" /\ received' = received
      /\ \E j : job' = [job EXCEPT ![w] = j] /\ j.phase \notin Pending
  <2>1. CASE job' = [job EXCEPT ![w] = Idle]
    BY <2>1, IdleType DEF PersistIncidents, In, Pending
  <2>2. CASE job' # [job EXCEPT ![w] = Idle]
    <3>1. PICK s : job' = [job EXCEPT ![w] = [job[w] EXCEPT !.phase = "followup", !.todo = s]]
      BY <2>2 DEF PersistIncidents, Set
    <3>2. [job[w] EXCEPT !.phase = "followup", !.todo = s].phase \notin Pending
      BY DEF PipelineInv, HandlerInv, JobsOK, JobType, Pending
    <3> QED BY <3>1, <3>2 DEF PersistIncidents, In
  <2> QED BY <2>1, <2>2
<1>3. n \in 1..MaxBatch
  <2>1. job[w].found \in Seq(AllFindings)
    BY DEF PipelineInv, HandlerInv, JobsOK, JobType
  <2>2. Len(job[w].found) <= MaxBatch /\ job[w].found # <<>>
    BY <1>2 DEF FitInv, FoundFits
  <2> QED BY <2>1, <2>2
<1>4. w \in Awaiting /\ Awaiting' \subseteq Awaiting \ {w}
  BY <1>2 DEF Awaiting, Pending, PipelineInv, HandlerInv, JobsOK
<1>5. IsFiniteSet(Awaiting) /\ c \in Nat /\ d \in Nat
  <2>1. Awaiting \subseteq Workers /\ Awaiting' \subseteq Workers
    BY DEF Awaiting
  <2> QED BY <2>1, WaitingFinite
<1>6. d + 1 <= c
  <2>1. IsFiniteSet(Awaiting \ {w}) /\ Cardinality(Awaiting \ {w}) = c - 1
    BY <1>4, <1>5, FS_RemoveElement
  <2>2. d <= Cardinality(Awaiting \ {w})
    BY <1>4, <2>1, FS_Subset
  <2> QED BY <1>5, <2>1, <2>2
<1>7. MaxBatch * (d + 1) <= MaxBatch * c
  BY <1>1, <1>5, <1>6
<1>8. MaxBatch * (d + 1) = MaxBatch * d + MaxBatch /\ MaxBatch * d \in Nat
  BY <1>1, <1>5, RoomFor
<1>9. Len(incidents') = l + n
  BY StoredRows
<1>10. l < MaxIncidents
  <2>1. MaxBatch * received <= MaxBatch * MaxRequests
    BY <1>1, RequestsNat
  <2>2. MaxBatch * c \in Nat /\ MaxBatch * received \in Nat /\ MaxBatch * MaxRequests \in Nat
    BY <1>1, <1>5, RequestsNat
  <2> QED BY <1>1, <1>5, <1>7, <1>8, <2>1, <2>2, IncidentsFit, BoundsNat
<1>11. MaxBatch * c \in Nat /\ MaxBatch * received \in Nat
  BY <1>1, <1>5
<1>12. l + n + MaxBatch * d <= MaxBatch * received
  <2>1. \A x, y, z \in Nat : x + MaxBatch <= y /\ l + y <= z => l + n + x <= z
    BY <1>1, <1>3
  <2> QED BY <1>1, <1>7, <1>8, <1>11, <2>1
<1> QED BY <1>2, <1>3, <1>9, <1>10, <1>12

(* The findings of a request only grow by one, when it leaves the part of  *)
(* its way in which the brute-force check can still add its own.           *)
LEMMA FoundKept ==
    ASSUME NEW w \in Workers, PipelineInv, FitInv, Arrive(w) \/ Progress(w) \/ Crash(w)
    PROVE  FoundFits(w)'
<1> DEFINE found == job[w].found
<1>1. /\ JobsOK /\ job[w] \in JobType /\ found \in Seq(AllFindings) /\ Len(found) \in Nat
      /\ FoundFits(w) /\ MaxBatch \in Nat
  BY BoundsNat DEF PipelineInv, HandlerInv, JobsOK, JobType, FitInv
<1>2. ASSUME NEW j, job' = [job EXCEPT ![w] = j] PROVE job'[w] = j
  BY <1>1, <1>2 DEF JobsOK
<1>3. ASSUME job'[w] = job[w] \/ job'[w].phase \notin Pending PROVE FoundFits(w)'
  BY <1>1, <1>3 DEF FoundFits, Early, Pending
<1>4. ASSUME NEW p, job'[w] = [job[w] EXCEPT !.phase = p], p \in Early,
             job[w].phase \in Early
      PROVE  FoundFits(w)'
  BY <1>1, <1>4 DEF FoundFits, Early, JobType
<1>5. ASSUME job'[w].phase = "persist", job'[w].found = found, job[w].phase \in Early
      PROVE  FoundFits(w)'
  BY <1>1, <1>5 DEF FoundFits, Early
<1>6. ASSUME NEW f \in AllFindings, job'[w].phase = "persist",
             job'[w].found = Append(found, f), job[w].phase \in Early
      PROVE  FoundFits(w)'
  <2>1. Len(Append(found, f)) = Len(found) + 1
    BY <1>1
  <2> QED BY <1>1, <1>6, <2>1 DEF FoundFits, Early
<1>7. ASSUME NEW r \in Traffic, Receive(w, r) PROVE FoundFits(w)'
  <2>1. CASE job' = job
    BY <1>3, <2>1
  <2>2. CASE job' = [job EXCEPT ![w] = Job("preblock", received + 1, r)]
    <3>1. job'[w].phase = "preblock" /\ job'[w].found = r.findings
      BY <1>2, <2>2 DEF Job
    <3>2. Len(r.findings) < MaxBatch
      BY TrafficType, InspectionFits
    <3> QED BY <3>1, <3>2 DEF FoundFits, Early
  <2> QED BY <1>7, <2>1, <2>2 DEF Receive, Set
<1>8. ASSUME \/ \E a \in IPs : ManualBlock(w, a) \/ Unblock(w, a) \/ LoginForm(w, a)
             \/ ReadOnlyPage(w)
      PROVE  FoundFits(w)'
  <2>1. CASE \E a \in IPs : ManualBlock(w, a)
    BY <1>2, <1>3, <2>1 DEF ManualBlock, Set, Job, Pending
  <2>2. CASE \E a \in IPs : LoginForm(w, a)
    BY <1>2, <1>3, <2>2 DEF LoginForm, Set, Job, Pending
  <2> QED BY <1>3, <1>8, <2>1, <2>2 DEF Unblock, ReadOnlyPage, vars
<1>9. ASSUME NEW offender, Refuse(w, offender), job[w].phase \in {"preblock", "precount"}
      PROVE  FoundFits(w)'
  <2>1. CASE To(w, "forward")
    BY <1>2, <1>4, <1>9, <2>1 DEF To, Set, Early
  <2>2. CASE ~To(w, "forward")
    <3>1. \/ job'[w] = [job[w] EXCEPT !.phase = "persist", !.status = "403", !.blocked = TRUE,
                                      !.found = found]
          \/ job'[w] = [job[w] EXCEPT !.phase = "persist", !.status = "403", !.blocked = TRUE,
                                      !.found = Append(found, RepeatOffender)]
      BY <1>2, <1>9, <2>2 DEF Refuse, Set
    <3>2. /\ job'[w].phase = "persist"
          /\ job'[w].found \in {found, Append(found, RepeatOffender)}
      BY <1>1, <3>1 DEF JobType
    <3>3. RepeatOffender \in AllFindings
      BY DEF AllFindings
    <3> QED BY <1>5, <1>6, <1>9, <3>2, <3>3 DEF Early
  <2> QED BY <2>1, <2>2
<1>10. ASSUME Preblock(w) \/ PreblockCount(w) \/ Forward(w) PROVE FoundFits(w)'
  <2>1. CASE Preblock(w) /\ IsLogin(w)
    BY <1>2, <1>4, <2>1 DEF Preblock, To, Set, In, Early
  <2>2. CASE Preblock(w) /\ ~IsLogin(w)
    BY <1>9, <2>2 DEF Preblock, In
  <2>3. CASE PreblockCount(w)
    BY <1>9, <2>3 DEF PreblockCount, In
  <2>4. CASE Forward(w)
    BY <1>2, <1>4, <2>4 DEF Forward, To, Set, In, Early
  <2> QED BY <1>10, <2>1, <2>2, <2>3, <2>4
<1>11. ASSUME \/ UpstreamUnavailable(w) \/ UpstreamAnswers(w)
       PROVE  FoundFits(w)'
  <2>1. /\ \E s : job'[w] = [job[w] EXCEPT !.phase = "persist", !.status = s]
        /\ job[w].phase = "upstream"
    BY <1>2, <1>11 DEF UpstreamUnavailable, UpstreamAnswers, Set, In
  <2>2. job'[w].phase = "persist" /\ job'[w].found = found
    BY <1>1, <2>1 DEF JobType
  <2> QED BY <1>5, <2>1, <2>2 DEF Early
<1>12. ASSUME LoginRejected(w) \/ DetectCleanup(w) \/ DetectCount(w) PROVE FoundFits(w)'
  <2>1. CASE LoginRejected(w)
    <3>1. /\ job'[w] = [job[w] EXCEPT !.phase = "detect", !.status = "403"]
          /\ job[w].phase = "upstream"
      BY <1>2, <2>1 DEF LoginRejected, Set, In
    <3>2. job'[w].phase = "detect" /\ job'[w].found = found
      BY <1>1, <3>1 DEF JobType
    <3> QED BY <1>1, <3>1, <3>2 DEF FoundFits, Early
  <2>2. CASE DetectCleanup(w)
    BY <1>3, <2>2 DEF DetectCleanup
  <2>3. CASE DetectCount(w)
    <3>1. /\ job[w].phase = "detect"
          /\ job'[w] = [job[w] EXCEPT
                          !.phase = "persist",
                          !.found = IF LA!CountRecent(ip(w)) >= Threshold
                                    THEN Append(@, BruteForceDetected) ELSE @]
      BY <1>2, <2>3 DEF DetectCount, Set, In
    <3>2. /\ job'[w].phase = "persist"
          /\ job'[w].found \in {found, Append(found, BruteForceDetected)}
      BY <1>1, <3>1 DEF JobType
    <3>3. BruteForceDetected \in AllFindings
      BY DEF AllFindings
    <3> QED BY <1>5, <1>6, <3>1, <3>2, <3>3 DEF Early
  <2> QED BY <1>12, <2>1, <2>2, <2>3
<1>13. ASSUME PersistRequest(w) PROVE FoundFits(w)'
  <2>1. CASE found = <<>>
    BY <1>2, <1>3, <1>13, <2>1, IdleType DEF PersistRequest, Set, Pending
  <2>2. CASE found # <<>>
    <3>1. job'[w] = [job[w] EXCEPT !.phase = "incidents"] /\ job[w].phase = "persist"
      BY <1>2, <1>13, <2>2 DEF PersistRequest, To, Set, In
    <3>2. job'[w].phase = "incidents" /\ job'[w].found = found
      BY <1>1, <3>1 DEF JobType
    <3> QED BY <1>1, <2>2, <3>1, <3>2 DEF FoundFits, Early
  <2> QED BY <2>1, <2>2
<1>14. ASSUME PersistIncidents(w) PROVE FoundFits(w)'
  <2>1. CASE job'[w] = Idle
    BY <1>3, <2>1, IdleType DEF Pending
  <2>2. CASE job'[w] # Idle
    <3>1. PICK s : job'[w] = [job[w] EXCEPT !.phase = "followup", !.todo = s]
      BY <1>2, <1>14, <2>2 DEF PersistIncidents, Set
    <3> QED BY <1>1, <1>3, <3>1 DEF JobType, Pending
  <2> QED BY <2>1, <2>2
<1>15. ASSUME \/ RateLimited(w) \/ LoginRefused(w) \/ Password(w) \/ EndEarly(w)
              \/ ContinueManualBlock(w)
       PROVE  FoundFits(w)'
  <2>1. CASE job' = [job EXCEPT ![w] = Idle]
    BY <1>2, <1>3, <2>1, IdleType DEF Pending
  <2>2. job' = [job EXCEPT ![w] = Idle] \/ job' = job
    BY <1>15 DEF RateLimited, LoginRefused, Password, EndEarly, ContinueManualBlock, Set
  <2> QED BY <1>3, <2>1, <2>2
<1>16. ASSUME StartAlert(w) \/ ContinueAlert(w) PROVE FoundFits(w)'
  <2>1. job'[w] = [job[w] EXCEPT !.phase = IF alr'[w].step = "idle" THEN "autoblock"
                                           ELSE "alert"]
    BY <1>2, <1>16 DEF StartAlert, ContinueAlert, To, Set
  <2> QED BY <1>1, <1>3, <2>1 DEF JobType, Pending
<1>17. ASSUME StartAutoBlock(w) \/ ContinueAutoBlock(w) PROVE FoundFits(w)'
  <2>1. AfterBlockStep(w)
    BY <1>17 DEF StartAutoBlock, ContinueAutoBlock
  <2>2. CASE blk'[w].step # "idle"
    <3>1. job'[w] = [job[w] EXCEPT !.phase = "blocking"]
      BY <1>2, <2>1, <2>2 DEF AfterBlockStep, To, Set
    <3> QED BY <1>1, <1>3, <3>1 DEF JobType, Pending
  <2>3. CASE blk'[w].step = "idle" /\ job[w].todo = 1
    BY <1>2, <1>3, <2>1, <2>3, IdleType DEF AfterBlockStep, Set, Pending
  <2>4. CASE blk'[w].step = "idle" /\ job[w].todo # 1
    <3>1. job'[w] = [job[w] EXCEPT !.phase = "followup", !.todo = @ - 1]
      BY <1>2, <2>1, <2>4 DEF AfterBlockStep, Set
    <3> QED BY <1>1, <1>3, <3>1 DEF JobType, Pending
  <2> QED BY <2>2, <2>3, <2>4
<1>18. Arrive(w) => FoundFits(w)'
  BY <1>7, <1>8 DEF Arrive
<1>19. InternalError(w) \/ PersistFails(w) \/ Crash(w) => EndEarly(w)
  BY DEF InternalError, PersistFails, Crash
<1> QED
  BY <1>10, <1>11, <1>12, <1>13, <1>14, <1>15, <1>16, <1>17, <1>18, <1>19 DEF Progress

(* A step that begins a handler counts a request.                          *)
LEMMA BeginsCounted ==
    ASSUME NEW w \in Workers, PipelineInv, Arrive(w) \/ Progress(w) \/ Crash(w),
           ~PersistIncidents(w)
    PROVE  /\ incidents' = incidents
           /\ \A v \in Workers \ {w} : job'[v] = job[v]
           /\ \/ received' = received + 1 /\ received < MaxRequests
              \/ received' = received /\ Awaiting' \subseteq Awaiting
<1>1. Kind(w)
  BY ArriveKind, RequestKind, StoreKind, FollowUpKind, EndKind DEF Progress
<1>2. JobsOK
  BY DEF PipelineInv, HandlerInv
<1>3. ASSUME NEW j, job' = [job EXCEPT ![w] = j]
      PROVE  job'[w] = j /\ \A v \in Workers \ {w} : job'[v] = job[v]
  BY <1>2, <1>3 DEF JobsOK
<1>4. incidents' = incidents /\ \A v \in Workers \ {w} : job'[v] = job[v]
  <2>1. CASE Forward(w) \/ PersistRequest(w)
    BY <1>3, <2>1 DEF Forward, PersistRequest, To, Set, rows
  <2>2. CASE ~(Forward(w) \/ PersistRequest(w))
    BY <1>1, <1>3, <2>2 DEF Kind, Stays, Leaves, Enters, Moves, Kept
  <2> QED BY <2>1, <2>2
<1>5. ASSUME job'[w].phase \in Pending => job[w].phase \in Pending
      PROVE  Awaiting' \subseteq Awaiting
  BY <1>4, <1>5 DEF Awaiting
<1>6. CASE Arrive(w)
  <2>1. \/ received' = received + 1 /\ received < MaxRequests
        \/ UNCHANGED vars
    BY <1>6 DEF Arrive, Receive, ManualBlock, Unblock, LoginForm, ReadOnlyPage
  <2> QED BY <1>4, <1>5, <2>1 DEF vars
<1>7. CASE Progress(w) \/ Crash(w)
  <2>1. received' = received
    <3>1. CASE InternalError(w) \/ PersistFails(w) \/ Crash(w)
      BY <3>1 DEF InternalError, PersistFails, Crash, EndEarly
    <3>2. CASE \/ RateLimited(w) \/ Preblock(w) \/ PreblockCount(w) \/ Forward(w)
               \/ UpstreamUnavailable(w) \/ UpstreamAnswers(w)
               \/ LoginRejected(w) \/ LoginRefused(w) \/ DetectCleanup(w) \/ DetectCount(w)
      BY <3>2 DEF RateLimited, Preblock, PreblockCount, Forward, UpstreamUnavailable,
                  UpstreamAnswers, LoginRejected, LoginRefused, DetectCleanup, DetectCount
    <3>3. CASE \/ PersistRequest(w) \/ StartAlert(w) \/ ContinueAlert(w)
               \/ StartAutoBlock(w) \/ ContinueAutoBlock(w) \/ ContinueManualBlock(w)
               \/ Password(w)
      BY <3>3 DEF PersistRequest, StartAlert, ContinueAlert, StartAutoBlock,
                  ContinueAutoBlock, ContinueManualBlock, Password
    <3> QED BY <1>7, <3>1, <3>2, <3>3 DEF Progress
  <2>2. job'[w].phase \in Pending => job[w].phase \in Pending
    <3>1. CASE Stays
      BY <3>1 DEF Stays
    <3>2. CASE Leaves(w)
      BY <1>3, <3>2, IdleType DEF Leaves, Pending
    <3>3. ASSUME NEW j \in JobType, Enters(w, j) PROVE FALSE
      BY <2>1, <3>3 DEF Enters, PipelineInv, HandlerInv, NumbersOK
    <3>4. ASSUME NEW j \in JobType, Moves(w, j)
          PROVE  job'[w].phase \in Pending => job[w].phase \in Pending
      BY <1>3, <3>4 DEF Moves, Pending, Before, Upstream, Stored
    <3>5. CASE Forward(w) \/ PersistRequest(w)
      BY <3>5 DEF Forward, PersistRequest, In, Pending
    <3> QED BY <1>1, <3>1, <3>2, <3>3, <3>4, <3>5 DEF Kind
  <2> QED BY <1>4, <1>5, <2>1, <2>2
<1> QED BY <1>6, <1>7

(* The invariant holds initially ...                                       *)
LEMMA FitInit == Init => FitInv
<1> SUFFICES ASSUME Init PROVE FitInv
    OBVIOUS
<1>1. /\ received = 0 /\ incidents = <<>> /\ Len(incidents) = 0
      /\ \A w \in Workers : job[w].phase = "idle"
  BY IdleType DEF Init
<1>2. Awaiting = {}
  BY <1>1 DEF Awaiting, Pending
<1>3. Cardinality(Awaiting) = 0
  BY <1>2, FS_EmptySet
<1>4. \A w \in Workers : FoundFits(w)
  BY <1>1 DEF FoundFits, Early
<1>5. MaxBatch * 0 = 0 /\ 0 + 0 <= 0
  BY BoundsNat
<1> QED BY <1>1, <1>3, <1>4, <1>5, RequestsNat DEF FitInv

(* ... and every step keeps it.                                            *)
LEMMA FitKept == PipelineInv /\ FitInv /\ [Next]_vars => FitInv'
<1> SUFFICES ASSUME PipelineInv, FitInv, [Next]_vars PROVE FitInv'
    OBVIOUS
<1>1. received \in 0..MaxRequests /\ received \in Nat
  BY DEF FitInv
<1>2. ASSUME NEW w \in Workers, Arrive(w) \/ Progress(w) \/ Crash(w) PROVE FitInv'
  <2>1. FoundFits(w)'
    BY <1>2, FoundKept
  <2>2. CASE PersistIncidents(w)
    <3>1. /\ received' = received /\ \E j : job' = [job EXCEPT ![w] = j]
      BY <2>2 DEF PersistIncidents, Set
    <3>2. \A v \in Workers : FoundFits(v)'
      BY <2>1, <3>1 DEF FitInv, FoundFits, PipelineInv, HandlerInv, JobsOK
    <3>3. Len(incidents') + MaxBatch * Cardinality(Awaiting') <= MaxBatch * received'
      BY <2>2, RoomFilled
    <3> QED BY <1>1, <3>1, <3>2, <3>3 DEF FitInv
  <2>3. CASE ~PersistIncidents(w)
    <3>1. /\ incidents' = incidents
          /\ \A v \in Workers \ {w} : job'[v] = job[v]
          /\ \/ received' = received + 1 /\ received < MaxRequests
             \/ received' = received /\ Awaiting' \subseteq Awaiting
      BY <1>2, <2>3, BeginsCounted
    <3>2. \A v \in Workers : FoundFits(v)'
      BY <2>1, <3>1 DEF FitInv, FoundFits
    <3>3. Awaiting' \subseteq Awaiting \union {w}
      BY <3>1 DEF Awaiting
    <3>4. Len(incidents') + MaxBatch * Cardinality(Awaiting') <= MaxBatch * received'
      BY <3>1, <3>3, RoomKept
    <3>5. received' \in 0..MaxRequests
      BY <1>1, <3>1, RequestsNat
    <3> QED BY <3>2, <3>4, <3>5 DEF FitInv
  <2> QED BY <2>2, <2>3
<1>3. CASE Tick \/ UNCHANGED vars
  BY <1>3 DEF Tick, vars, rows, FitInv, FoundFits, Awaiting
<1> QED BY <1>2, <1>3 DEF Next

(* The bounds of the block list are never what holds a handler up.         *)
THEOREM FitInvariant == Spec => []FitInv
BY PipelineInvariant, FitInit, FitKept, PTL DEF Spec

-----------------------------------------------------------------------------
(* The block list.  It sees of the incidents which of them are severe, and *)
(* when they were stored.                                                  *)
LEMMA BlockQuiet ==
    ASSUME UNCHANGED <<now, blVars, incidents>>
    PROVE  UNCHANGED BL!vars
BY DEF blVars, BL!vars, BL!stored, Severe

(* Incidents that are stored together reach the block list together.       *)
LEMMA SevereGrows ==
    ASSUME NEW w \in Workers, PipelineInv, FitInv, PersistIncidents(w)
    PROVE  BL!Next
<1> DEFINE b == ip(w)
           last == Len(incidents)
           n == Len(job[w].found)
           grave == {i \in DOMAIN job[w].found : IsSevere(job[w].found[i])}
           new == {last + i : i \in grave}
           row == [k \in DOMAIN Severe[b] \union new |->
                      IF k \in new THEN now ELSE Severe[b][k]]
<1>1. /\ n \in 1..MaxBatch /\ last < MaxIncidents /\ b \in IPs
      /\ job[w].found \in Seq(AllFindings)
  BY RoomFilled
  DEF PipelineInv, HandlerInv, JobsOK, JobType, PhasesOK, PhaseOK, PersistIncidents, In, ip
<1>2. /\ UNCHANGED <<now, blocked, blk, pin>>
  BY DEF PersistIncidents, blVars
<1>3. /\ last \in Nat /\ DOMAIN incidents = 1..last /\ Len(incidents') = last + n
      /\ \A k \in DOMAIN incidents : k \in DOMAIN incidents' /\ incidents'[k] = incidents[k]
      /\ \A i \in DOMAIN job[w].found :
            /\ last + i \in DOMAIN incidents'
            /\ incidents'[last + i] = NewRows(w)[i]
      /\ \A k \in DOMAIN incidents' :
            k \in DOMAIN incidents \/ \E i \in DOMAIN job[w].found : k = last + i
  BY StoredRows
<1>4. \A i \in DOMAIN job[w].found :
         /\ NewRows(w)[i].ip = b /\ NewRows(w)[i].at = now
         /\ NewRows(w)[i].finding = job[w].found[i]
  BY DEF NewRows
<1>5. grave \in SUBSET (1..n) /\ DOMAIN job[w].found = 1..n
  BY <1>1
<1>6. \A k \in new : k \notin DOMAIN incidents
  BY <1>3, <1>5
<1>7. ASSUME NEW a \in IPs
      PROVE  /\ DOMAIN Severe[a] = {k \in DOMAIN incidents : IsSevereOf(a, incidents[k])}
             /\ DOMAIN Severe'[a] = {k \in DOMAIN incidents' : IsSevereOf(a, incidents'[k])}
             /\ \A k \in DOMAIN Severe[a] : Severe[a][k] = incidents[k].at
             /\ \A k \in DOMAIN Severe'[a] : Severe'[a][k] = incidents'[k].at
             /\ Severe'[a] = [k \in DOMAIN Severe'[a] |-> Severe'[a][k]]
             /\ Severe[a] = [k \in DOMAIN Severe[a] |-> Severe[a][k]]
  BY DEF Severe
<1> HIDE DEF n, last, b
<1>8. \A k \in DOMAIN incidents : \A a \in IPs :
         IsSevereOf(a, incidents'[k]) <=> IsSevereOf(a, incidents[k])
  BY <1>3
<1>9. \A i \in DOMAIN job[w].found : \A a \in IPs :
         IsSevereOf(a, incidents'[last + i]) <=> a = b /\ i \in grave
  BY <1>3, <1>4 DEF IsSevereOf
<1>10. ASSUME NEW a \in IPs, a # b PROVE Severe'[a] = Severe[a]
  <2>1. DOMAIN Severe'[a] = DOMAIN Severe[a]
    <3>1. \A k \in DOMAIN incidents' : IsSevereOf(a, incidents'[k]) => k \in DOMAIN incidents
      BY <1>3, <1>9, <1>10
    <3> QED BY <1>3, <1>7, <1>8, <3>1
  <2>2. ASSUME NEW k \in DOMAIN Severe[a] PROVE Severe'[a][k] = Severe[a][k]
    <3>1. k \in DOMAIN incidents /\ Severe[a][k] = incidents[k].at
      BY <1>7
    <3>2. incidents'[k] = incidents[k]
      BY <1>3, <3>1
    <3>3. Severe'[a][k] = incidents'[k].at
      BY <1>7, <2>1
    <3> QED BY <3>1, <3>2, <3>3
  <2> QED BY <1>7, <2>1, <2>2
<1>11. Severe'[b] = row
  <2>1. DOMAIN Severe'[b] = DOMAIN Severe[b] \union new
    <3>1. ASSUME NEW k \in DOMAIN Severe'[b] PROVE k \in DOMAIN Severe[b] \union new
      <4>1. k \in DOMAIN incidents' /\ IsSevereOf(b, incidents'[k])
        BY <1>1, <1>7
      <4>2. CASE k \in DOMAIN incidents
        BY <1>1, <1>7, <1>8, <4>1, <4>2
      <4>3. CASE k \notin DOMAIN incidents
        <5>1. PICK i \in DOMAIN job[w].found : k = last + i
          BY <1>3, <4>1, <4>3
        <5>2. i \in grave
          BY <1>1, <1>9, <4>1, <5>1
        <5> QED BY <5>1, <5>2
      <4> QED BY <4>2, <4>3
    <3>2. ASSUME NEW k \in DOMAIN Severe[b] PROVE k \in DOMAIN Severe'[b]
      BY <1>1, <1>3, <1>7, <1>8, <3>2
    <3>3. ASSUME NEW k \in new PROVE k \in DOMAIN Severe'[b]
      <4>1. PICK i \in grave : k = last + i
        BY <3>3
      <4>2. i \in DOMAIN job[w].found /\ k \in DOMAIN incidents'
        BY <1>3, <4>1
      <4>3. IsSevereOf(b, incidents'[k])
        BY <1>1, <1>9, <4>1, <4>2
      <4> QED BY <1>1, <1>7, <4>2, <4>3
    <3> QED BY <3>1, <3>2, <3>3
  <2>2. ASSUME NEW k \in DOMAIN Severe'[b]
        PROVE  Severe'[b][k] = IF k \in new THEN now ELSE Severe[b][k]
    <3>1. CASE k \in new
      <4>1. PICK i \in grave : k = last + i
        BY <3>1
      <4>2. i \in DOMAIN job[w].found
        OBVIOUS
      <4>3. incidents'[k].at = now
        BY <1>3, <1>4, <4>1, <4>2
      <4> QED BY <1>1, <1>7, <2>2, <3>1, <4>3
    <3>2. CASE k \notin new
      <4>1. k \in DOMAIN Severe[b]
        BY <2>1, <2>2, <3>2
      <4>2. incidents'[k].at = incidents[k].at
        BY <1>1, <1>3, <1>7, <4>1
      <4> QED BY <1>1, <1>7, <2>2, <3>2, <4>1, <4>2
    <3> QED BY <3>1, <3>2
  <2> QED BY <1>1, <1>7, <2>1, <2>2
<1>12. Severe' = [Severe EXCEPT ![b] = row]
  <2> HIDE DEF row
  <2>1. /\ DOMAIN Severe = IPs /\ DOMAIN Severe' = IPs
        /\ Severe = [a \in IPs |-> Severe[a]] /\ Severe' = [a \in IPs |-> Severe'[a]]
    BY DEF Severe
  <2> QED BY <1>1, <1>10, <1>11, <2>1
<1>13. BL!NewIncidents(b, n, grave)
  BY <1>1, <1>2, <1>3, <1>12 DEF BL!NewIncidents, last
<1> QED BY <1>1, <1>5, <1>13 DEF BL!Next

(* Every step of the pipeline is one of Blocklist, or leaves it alone: in  *)
(* particular maybe_auto_block() is only called with a severe incident.    *)
LEMMA BlockStep ==
    ASSUME PipelineInv, DueInv, FitInv, [Next]_vars
    PROVE  [BL!Next]_(BL!vars)
<1>1. ASSUME NEW w \in Workers, BL!WorkerStep(w) PROVE BL!Next
  BY <1>1 DEF BL!Next
<1>2. ASSUME UNCHANGED incidents PROVE UNCHANGED BL!stored
  BY <1>2 DEF BL!stored, Severe
<1>3. CASE Tick
  <2>1. BL!Tick
    BY <1>2, <1>3 DEF Tick, rows, blVars, BL!Tick
  <2> QED BY <2>1 DEF BL!Next
<1>4. CASE UNCHANGED vars
  BY <1>4, BlockQuiet DEF vars, rows
<1>5. ASSUME NEW w \in Workers, Arrive(w) PROVE [BL!Next]_(BL!vars)
  <2>1. ASSUME NEW a \in IPs, ManualBlock(w, a) \/ Unblock(w, a) PROVE BL!Next
    BY <1>1, <2>1 DEF ManualBlock, Unblock, BL!WorkerStep
  <2>2. ASSUME \/ \E r \in Traffic : Receive(w, r)
               \/ \E a \in IPs : LoginForm(w, a)
               \/ ReadOnlyPage(w)
        PROVE  UNCHANGED <<now, blVars, incidents>>
    BY <2>2 DEF Receive, LoginForm, ReadOnlyPage, vars, rows
  <2> QED BY <1>5, <2>1, <2>2, BlockQuiet DEF Arrive
<1>6. ASSUME NEW w \in Workers, StartAutoBlock(w) PROVE BL!Next
  <2>1. job[w].phase = "autoblock" /\ ip(w) \in IPs /\ job[w].blocked \in BOOLEAN
    BY <1>6 DEF StartAutoBlock, In, PipelineInv, HandlerInv, JobsOK, JobType, PhasesOK,
                PhaseOK, ip
  <2>2. DOMAIN Severe[ip(w)] # {}
    <3>1. StoredOK(w) /\ job[w].phase \in Stored
      BY <2>1 DEF DueInv, WorkerOK, Stored
    <3>2. PICK k \in Mine(w) : IsSevere(incidents[k].finding) /\ incidents[k].ip = ip(w)
      BY <3>1 DEF StoredOK
    <3> QED BY <2>1, <3>2 DEF Mine, Severe, IsSevereOf
  <2>3. BL!CallAutoBlock(w, ip(w), job[w].blocked)
    BY <1>6, <2>2 DEF StartAutoBlock, BL!CallAutoBlock
  <2> QED BY <1>1, <2>1, <2>3 DEF BL!WorkerStep
<1>7. ASSUME NEW w \in Workers, ContinueAutoBlock(w) \/ ContinueManualBlock(w) PROVE BL!Next
  BY <1>1, <1>7 DEF ContinueAutoBlock, ContinueManualBlock, BL!WorkerStep
<1>8. ASSUME NEW w \in Workers, InternalError(w) \/ PersistFails(w) \/ Crash(w)
      PROVE  [BL!Next]_(BL!vars)
  <2>1. UNCHANGED <<now, blVars, incidents>> \/ BL!Abandon(w)
    BY <1>8 DEF InternalError, PersistFails, Crash, EndEarly, rows
  <2> QED BY <1>1, <2>1, BlockQuiet DEF BL!WorkerStep
<1>9. ASSUME NEW w \in Workers,
             \/ RateLimited(w) \/ Preblock(w) \/ PreblockCount(w) \/ Forward(w)
             \/ UpstreamUnavailable(w) \/ UpstreamAnswers(w)
             \/ LoginRejected(w) \/ LoginRefused(w) \/ DetectCleanup(w) \/ DetectCount(w)
      PROVE  UNCHANGED <<now, blVars, incidents>>
  BY <1>9
  DEF RateLimited, Preblock, PreblockCount, Forward, UpstreamUnavailable, UpstreamAnswers,
      LoginRejected, LoginRefused, DetectCleanup, DetectCount, rows
<1>10. ASSUME NEW w \in Workers,
              PersistRequest(w) \/ StartAlert(w) \/ ContinueAlert(w) \/ Password(w)
       PROVE  UNCHANGED <<now, blVars, incidents>>
  BY <1>10 DEF PersistRequest, StartAlert, ContinueAlert, Password, rows
<1>11. ASSUME NEW w \in Workers, Progress(w) \/ Crash(w) PROVE [BL!Next]_(BL!vars)
  BY <1>6, <1>7, <1>8, <1>9, <1>10, <1>11, SevereGrows, BlockQuiet DEF Progress
<1> QED BY <1>3, <1>4, <1>5, <1>11 DEF Next

(* proxy() and the dashboard use the block list (ip_blocklist.py) only as  *)
(* its module assumes: every call ends before the next begins, and an      *)
(* automatic one follows a stored Critical or High incident of the ip.     *)
THEOREM PipelineImplementsBlocklist == Spec => ImplementsBlocklist
<1>1. Init => BL!Init
  BY DEF Init
<1>2. PipelineInv /\ DueInv /\ FitInv /\ [Next]_vars => [BL!Next]_(BL!vars)
  BY BlockStep
<1> QED
  BY <1>1, <1>2, PipelineInvariant, DueInvariant, FitInvariant, PTL
  DEF Spec, ImplementsBlocklist, BL!Spec

-----------------------------------------------------------------------------
(* What is proved of a component alone then holds of it in the composed    *)
(* system, however the handlers mix its calls with everything else.        *)
LP == INSTANCE LoginAttemptsProofs WITH MaxAttempts <- MaxRequests

(* The two instances are one system.                                       *)
LEMMA SameLogin ==
    /\ LA!Init => LP!Init
    /\ [LA!Next]_(LA!vars) => [LP!Next]_(LP!vars)
<1> USE DEF LA!vars, LP!vars, LA!table, LP!table, LA!ghosts, LP!ghosts, LA!At, LP!At, LA!Go,
            LP!Go, LA!Call, LP!Call, LA!Idle, LP!Idle
<1>1. LA!Init => LP!Init
  BY DEF LA!Init, LP!Init, LA!Never, LP!Never
<1>2. ASSUME NEW w, NEW a
      PROVE  /\ LA!PreblockCleanup(w, a) => LP!PreblockCleanup(w, a)
             /\ LA!LoginCount(w, a) => LP!LoginCount(w, a)
             /\ LA!LoginThrottled(w, a) => LP!LoginThrottled(w, a)
             /\ LA!PreblockCount(w) => LP!PreblockCount(w)
             /\ LA!Settle(w) => LP!Settle(w)
             /\ LA!DetectInsert(w) => LP!DetectInsert(w)
             /\ LA!DetectRefused(w) => LP!DetectRefused(w)
             /\ LA!DetectCleanup(w) => LP!DetectCleanup(w)
             /\ LA!DetectCount(w) => LP!DetectCount(w)
             /\ LA!LoginSucceeds(w) => LP!LoginSucceeds(w)
             /\ LA!LoginFails(w) => LP!LoginFails(w)
             /\ LA!Crash(w) => LP!Crash(w)
  <2>1. LA!PreblockCleanup(w, a) => LP!PreblockCleanup(w, a)
    BY DEF LA!PreblockCleanup, LP!PreblockCleanup, LA!Unexpired, LP!Unexpired, LA!Cutoff,
      LP!Cutoff
  <2>2. LA!LoginCount(w, a) => LP!LoginCount(w, a)
    BY DEF LA!LoginCount, LP!LoginCount, LA!CountDashboard, LP!CountDashboard, LA!Cutoff,
      LP!Cutoff, LA!Cardinality, LP!Cardinality
  <2>3. LA!LoginThrottled(w, a) => LP!LoginThrottled(w, a)
    BY DEF LA!LoginThrottled, LP!LoginThrottled, LA!CountDashboard, LP!CountDashboard,
      LA!Cutoff, LP!Cutoff, LA!Cardinality, LP!Cardinality
  <2>4. LA!PreblockCount(w) => LP!PreblockCount(w)
    BY DEF LA!PreblockCount, LP!PreblockCount, LA!CountRecent, LP!CountRecent, LA!Cutoff,
      LP!Cutoff, LA!Cardinality, LP!Cardinality
  <2>5. LA!Settle(w) => LP!Settle(w)
    BY DEF LA!Settle, LP!Settle
  <2>6. LA!DetectInsert(w) => LP!DetectInsert(w)
    BY DEF LA!DetectInsert, LP!DetectInsert, LA!InsertAttempt, LP!InsertAttempt
  <2>7. LA!DetectCleanup(w) => LP!DetectCleanup(w)
    BY DEF LA!DetectCleanup, LP!DetectCleanup, LA!Unexpired, LP!Unexpired, LA!Cutoff,
      LP!Cutoff
  <2>8. LA!DetectCount(w) => LP!DetectCount(w)
    BY DEF LA!DetectCount, LP!DetectCount, LA!CountRecent, LP!CountRecent, LA!Cutoff,
      LP!Cutoff, LA!Cardinality, LP!Cardinality
  <2>9. LA!LoginSucceeds(w) => LP!LoginSucceeds(w)
    BY DEF LA!LoginSucceeds, LP!LoginSucceeds
  <2>10. LA!LoginFails(w) => LP!LoginFails(w)
    BY DEF LA!LoginFails, LP!LoginFails, LA!InsertAttempt, LP!InsertAttempt
  <2>11. LA!Crash(w) => LP!Crash(w)
    BY DEF LA!Crash, LP!Crash
  <2>12. LA!DetectRefused(w) => LP!DetectRefused(w)
    BY DEF LA!DetectRefused, LP!DetectRefused
  <2> QED BY <2>1, <2>2, <2>3, <2>4, <2>5, <2>6, <2>7, <2>8, <2>9, <2>10, <2>11, <2>12
<1>3. LA!Tick => LP!Tick
  BY DEF LA!Tick, LP!Tick
<1>4. LA!Next => LP!Next
  BY <1>2, <1>3 DEF LA!Next, LP!Next, LA!WorkerStep, LP!WorkerStep
<1> QED BY <1>1, <1>4

\* What the brute-force detector promises.
LoginPromises ==
    /\ LA!TypeOK
    /\ LA!UpstreamFailuresBounded /\ LA!DashboardGuessesBounded /\ LA!BurstFlagged

(* In the composed system too, no client gets more failed logins through   *)
(* to the protected site, or more guesses at the dashboard, than its       *)
(* threshold and one for each further worker, and no burst goes unflagged. *)
THEOREM LoginPromisesHold == Spec => []LoginPromises
<1>1. LP!IsFiniteSet(Workers) /\ MaxTime \in Nat /\ MaxRequests \in Nat
  BY WorkersFinite, BoundsNat, RequestsNat DEF IsFiniteSet, LP!IsFiniteSet
<1>2. LP!Spec => []LP!TypeOK
  BY <1>1, NoIPAssumption, ThresholdPositive, WindowPositive, LP!LoginTypeCorrect, PTL
<1>3. LP!Spec => []LP!UpstreamFailuresBounded
  BY <1>1, NoIPAssumption, ThresholdPositive, WindowPositive, LP!UpstreamFailuresAreBounded, PTL
<1>4. LP!Spec => []LP!DashboardGuessesBounded
  BY <1>1, NoIPAssumption, ThresholdPositive, WindowPositive, LP!DashboardGuessesAreBounded, PTL
<1>5. LP!Spec => []LP!BurstFlagged
  BY <1>1, NoIPAssumption, ThresholdPositive, WindowPositive, LP!BurstsAreFlagged, PTL
<1>6. LP!TypeOK => LA!TypeOK
  BY DEF LP!TypeOK, LA!TypeOK, LP!Row, LA!Row, LP!Pages, LA!Pages, LP!Steps, LA!Steps,
         LP!Never, LA!Never
<1>7. LP!UpstreamFailuresBounded => LA!UpstreamFailuresBounded
  BY DEF LP!UpstreamFailuresBounded, LA!UpstreamFailuresBounded, LP!Failed, LA!Failed,
         LP!InFlight, LA!InFlight, LP!Cutoff, LA!Cutoff, LP!Cardinality, LA!Cardinality
<1>8. LP!DashboardGuessesBounded => LA!DashboardGuessesBounded
  BY DEF LP!DashboardGuessesBounded, LA!DashboardGuessesBounded, LP!Failed, LA!Failed,
         LP!InFlight, LA!InFlight, LP!Cutoff, LA!Cutoff, LP!Cardinality, LA!Cardinality
<1>9. LP!BurstFlagged => LA!BurstFlagged
  BY DEF LP!BurstFlagged, LA!BurstFlagged, LP!Cutoff, LA!Cutoff, LP!Cardinality,
         LA!Cardinality
<1>10. LP!TypeOK /\ LP!UpstreamFailuresBounded /\ LP!DashboardGuessesBounded
         /\ LP!BurstFlagged => LoginPromises
  BY <1>6, <1>7, <1>8, <1>9 DEF LoginPromises
<1> QED
  BY <1>2, <1>3, <1>4, <1>5, <1>10, SameLogin, PipelineImplementsLoginAttempts, PTL
  DEF ImplementsLoginAttempts, LA!Spec, LP!Spec

AP == INSTANCE AlertingProofs WITH
          MaxMails <- MaxIncidents,
          Env <- [enabled |-> IF AlertsOn THEN "true" ELSE "false",
                  cooldown |-> AlertCooldown, email |-> "soc"],
          Admins <- {}, Forms <- {}, CanSignIn <- FALSE,
          settings <- [key \in {} |-> ""], form <- [admin \in {} |-> ""],
          saved <- [key \in {} |-> ""],
          token <- "valid", console <- "idle", torn <- ~TRUE, late <- 0

(* Likewise for the alerts.                                                *)
LEMMA SameAlerting ==
    /\ AL!Init => AP!Init
    /\ [AL!Next]_(AL!vars) => [AP!Next]_(AP!vars)
<1> USE DEF AL!vars, AP!vars, AL!record, AP!record, AL!file, AP!file, AL!page, AP!page,
            AL!At, AP!At, AL!Go, AP!Go,
            AL!To, AP!To, AL!Call, AP!Call, AL!Idle, AP!Idle, AL!Truncate, AP!Truncate,
            AL!Overwrite, AP!Overwrite, AL!CutShort, AP!CutShort,
            AL!SomeoneWrites, AP!SomeoneWrites, AL!Writers, AP!Writers
<1>1. AL!Init => AP!Init
  BY DEF AL!Init, AP!Init, AL!NoRows, AP!NoRows, AL!NoText, AP!NoText, AL!NoForm, AP!NoForm,
         AL!Empty, AP!Empty
<1>2. /\ AL!Enabled <=> AP!Enabled
      /\ AL!HasAddress <=> AP!HasAddress
      /\ AL!Cooldown = AP!Cooldown
  BY DEF AL!Enabled, AP!Enabled, AL!HasAddress, AP!HasAddress, AL!Cooldown, AP!Cooldown,
         AL!InEffect, AP!InEffect, AL!NoText, AP!NoText, AL!Empty, AP!Empty,
         AL!DefaultCooldown, AP!DefaultCooldown
<1>3. ASSUME NEW w, NEW a
      PROVE  AL!AlertCheck(w, a) => AP!AlertCheck(w, a)
  BY <1>2 DEF AL!AlertCheck, AP!AlertCheck
<1>4. ASSUME NEW w
      PROVE  /\ AL!ReadRow(w) => AP!ReadRow(w)
             /\ AL!ReadCooldown(w) => AP!ReadCooldown(w)
             /\ AL!ReadAddress(w) => AP!ReadAddress(w)
  BY <1>2 DEF AL!ReadRow, AP!ReadRow, AL!ReadCooldown, AP!ReadCooldown, AL!ReadAddress,
              AP!ReadAddress
<1>5. ASSUME NEW w
      PROVE  /\ AL!ExpiredToken(w) => AP!ExpiredToken(w)
             /\ AL!RenewToken(w) => AP!RenewToken(w)
             /\ AL!AwaitSignIn(w) => AP!AwaitSignIn(w)
             /\ AL!SignedIn(w) => AP!SignedIn(w)
             /\ AL!SaveToken(w) => AP!SaveToken(w)
  BY DEF AL!ExpiredToken, AP!ExpiredToken, AL!RenewToken, AP!RenewToken, AL!AwaitSignIn,
         AP!AwaitSignIn, AL!SignedIn, AP!SignedIn, AL!SaveToken, AP!SaveToken
<1>6. ASSUME NEW w
      PROVE  /\ AL!SendMail(w) => AP!SendMail(w)
             /\ AL!SendFails(w) => AP!SendFails(w)
  BY <1>2 DEF AL!SendMail, AP!SendMail, AL!SendFails, AP!SendFails, AL!Authorized, AP!Authorized,
              AL!MailOut, AP!MailOut, AL!NoteLate, AP!NoteLate, AL!Sending, AP!Sending,
              AL!LeaveToken, AP!LeaveToken, AL!NoteBatch, AP!NoteBatch,
              AL!Recording, AP!Recording, AL!Cardinality, AP!Cardinality
<1>7. ASSUME NEW w
      PROVE  /\ AL!RecordSelect(w) => AP!RecordSelect(w)
             /\ AL!RecordCommit(w) => AP!RecordCommit(w)
             /\ AL!RecordFails(w) => AP!RecordFails(w)
             /\ AL!Abandon(w) => AP!Abandon(w)
  BY DEF AL!RecordSelect, AP!RecordSelect, AL!RecordCommit, AP!RecordCommit, AL!RecordFails,
         AP!RecordFails, AL!Abandon, AP!Abandon, AL!SetAlerted, AP!SetAlerted,
         AL!LeaveToken, AP!LeaveToken
<1>8. /\ AL!Tick => AP!Tick
      /\ AL!TokenExpires => AP!TokenExpires
      /\ AL!Authorize => AP!Authorize
      /\ AL!AuthorizeSignedIn => AP!AuthorizeSignedIn
      /\ AL!AuthorizeSaves => AP!AuthorizeSaves
      /\ AL!AuthorizeFails => AP!AuthorizeFails
  BY DEF AL!Tick, AP!Tick, AL!TokenExpires, AP!TokenExpires, AL!Authorize, AP!Authorize,
         AL!AuthorizeSignedIn, AP!AuthorizeSignedIn, AL!AuthorizeSaves, AP!AuthorizeSaves,
         AL!AuthorizeFails, AP!AuthorizeFails
<1>9. ASSUME NEW w PROVE AL!WorkerStep(w) => AP!WorkerStep(w)
  BY <1>3, <1>4, <1>5, <1>6, <1>7 DEF AL!WorkerStep, AP!WorkerStep
<1>10. AL!Next => AP!Next
  BY <1>8, <1>9 DEF AL!Next, AP!Next
<1> QED BY <1>1, <1>10

\* What maybe_alert() promises.
AlertPromises == AL!AlertingTypeOK /\ AL!SilencedOnlyAfterMail /\ AL!CooldownStarts

(* In the composed system too, only a mail that was sent silences an ip,   *)
(* and every mail, the first of an ip or a later one, has started a        *)
(* cooldown once it is recorded, unless a handler died before that,        *)
(* whichever handlers follow up incidents of the ip at the same time.      *)
THEOREM AlertPromisesHold == Spec => []AlertPromises
<1> DEFINE env == [enabled |-> IF AlertsOn THEN "true" ELSE "false",
                   cooldown |-> AlertCooldown, email |-> "soc"]
<1>1. AP!IsFiniteSet(Workers)
  BY WorkersFinite DEF IsFiniteSet, AP!IsFiniteSet
<1>2. env \in AP!Values /\ {} \subseteq AP!Values
  BY AlertSettings DEF AP!Values, AP!NoText, AP!NotANumber
<1>3. FALSE \in BOOLEAN
  OBVIOUS
<1>4. AP!Spec => []AP!AlertingTypeOK
  BY <1>1, <1>2, <1>3, NoIPAssumption, AP!AlertingTypeCorrect, PTL
<1>5. AP!Spec => []AP!SilencedOnlyAfterMail
  BY <1>1, <1>2, <1>3, NoIPAssumption, AP!SilenceFollowsMail, PTL
<1>6. AP!Spec => []AP!CooldownStarts
  BY <1>1, <1>2, <1>3, NoIPAssumption, AP!CooldownsStart, PTL
<1>7. AP!AlertingTypeOK => AL!AlertingTypeOK
  BY DEF AP!AlertingTypeOK, AL!AlertingTypeOK, AP!Steps, AL!Steps, AP!Values, AL!Values,
         AP!NoRows, AL!NoRows, AP!NoText, AL!NoText, AP!NotANumber, AL!NotANumber
<1>8. AP!SilencedOnlyAfterMail => AL!SilencedOnlyAfterMail
  BY DEF AP!SilencedOnlyAfterMail, AL!SilencedOnlyAfterMail
<1>9. AP!CooldownStarts => AL!CooldownStarts
  BY DEF AP!CooldownStarts, AL!CooldownStarts, AP!Recording, AL!Recording
<1>10. AP!AlertingTypeOK /\ AP!SilencedOnlyAfterMail /\ AP!CooldownStarts => AlertPromises
  BY <1>7, <1>8, <1>9 DEF AlertPromises
<1> QED
  BY <1>4, <1>5, <1>6, <1>10, SameAlerting, PipelineImplementsAlerting, PTL
  DEF ImplementsAlerting, AL!Spec, AP!Spec

-----------------------------------------------------------------------------
(* The block list only sees incidents that are stored.                     *)
LEMMA SevereTyped ==
    ASSUME PipelineInv
    PROVE  BL!SevereTypeOK
<1> DEFINE last == Len(incidents)
<1>1. last \in Nat /\ DOMAIN incidents = 1..last
  BY DEF PipelineInv, HandlerInv, RowsOK
<1>2. \A k \in DOMAIN incidents : incidents[k].at \in Nat
  BY IncidentFacts DEF PipelineInv, HandlerInv
<1>3. DOMAIN Severe = IPs
  BY DEF Severe
<1>4. ASSUME NEW a \in IPs
      PROVE  /\ DOMAIN Severe[a] \subseteq 1..last
             /\ \A k \in DOMAIN Severe[a] : Severe[a][k] \in Nat
  BY <1>1, <1>2 DEF Severe
<1> QED BY <1>1, <1>3, <1>4 DEF BL!SevereTypeOK

(* Type correctness of the composed system: of the handlers and of all     *)
(* three components, for any number of workers, clients and requests.      *)
THEOREM PipelineTypeCorrect == Spec => []PipelineTypeOK
<1>1. ASSUME PipelineInv, FitInv, NEW w \in Workers
      PROVE  /\ DOMAIN job[w] = {"phase", "n", "req", "found", "status", "blocked", "todo"}
             /\ job[w].phase \in Phases
             /\ job[w].found \in Seq(AllFindings)
             /\ job[w].n \in 0..received
  <2>1. job[w] \in JobType
    BY <1>1 DEF PipelineInv, HandlerInv, JobsOK
  <2>2. received \in Nat /\ (job[w].n \in 1..received \/ job[w].n = 0)
    BY <1>1 DEF PipelineInv, HandlerInv, NumbersOK
  <2> QED BY <2>1, <2>2 DEF JobType
<1>2. ASSUME PipelineInv PROVE BL!BlocklistTypeOK
  <2>1. BL!RowsTypeOK
    BY <1>2 DEF PipelineInv, BP!RowsInv, BP!RowsTypeOK, BL!RowsTypeOK, BP!Steps, BL!Steps,
                BP!Expiry, BL!Expiry, BP!Permanent, BL!Permanent
  <2> QED BY <1>2, <2>1, SevereTyped DEF BL!BlocklistTypeOK
<1>3. PipelineInv /\ FitInv /\ LoginPromises /\ AlertPromises => PipelineTypeOK
  BY <1>1, <1>2 DEF FitInv, LoginPromises, AlertPromises, PipelineTypeOK
<1> QED
  BY <1>3, PipelineInvariant, FitInvariant, LoginPromisesHold, AlertPromisesHold, PTL
=============================================================================
