---------------------------- MODULE LoginAttempts ----------------------------
(***************************************************************************)
(* The login_attempts table and everything that reads or writes it:        *)
(*   - detectors/brute_force.py: should_preblock() before a proxied        *)
(*     request is forwarded, detect() after the upstream answered;         *)
(*   - the dashboard's own login form (proxy_app.py, login()), which keeps *)
(*     its failures in the same table.                                     *)
(*                                                                         *)
(* A worker is a Gunicorn process or a thread of the development server.   *)
(* Every query and every commit is one step; between two of them the other *)
(* workers run.  bf[w] is the call worker w is in; its step:               *)
(*   idle      no call in progress                                         *)
(*   count     should_preblock() has cleaned up and is about to count      *)
(*   cleared   should_preblock() said no: the request may go upstream      *)
(*   cleanup   detect() has committed the failed attempt                   *)
(*   tally     detect() has cleaned up and is about to count               *)
(*   password  login() has counted and is about to check the password      *)
(***************************************************************************)
EXTENDS Integers, FiniteSets

CONSTANTS
    Workers,        \* processes and threads that serve requests
    IPs,            \* client addresses
    NoIP,           \* no address
    Threshold,      \* FAILURE_THRESHOLD and _LOGIN_ATTEMPT_THRESHOLD
    Window,         \* TIME_WINDOW_SECONDS and _LOGIN_WINDOW_SECONDS, in ticks
    MaxTime,        \* bound on the clock
    MaxAttempts     \* bound on the failures that happen

ASSUME WorkersFinite == IsFiniteSet(Workers)
ASSUME NoIPAssumption == NoIP \notin IPs
ASSUME ThresholdPositive == Threshold \in Nat \ {0}
ASSUME WindowPositive == Window \in Nat \ {0}
ASSUME BoundsNat == MaxTime \in Nat /\ MaxAttempts \in Nat

VARIABLES
    now,            \* datetime.now(timezone.utc)
    attempts,       \* rows of login_attempts
    lastId,         \* id of the newest row
    bf,             \* per worker: the call in progress
    history,        \* every row ever inserted (for the properties only)
    judged,         \* ids of the rows whose detect() has counted (likewise)
    flaggedAt       \* per ip: when detect() last returned a finding (likewise)

table == <<attempts, lastId>>
ghosts == <<history, judged, flaggedAt>>
vars == <<now, table, bf, ghosts>>

Pages == {"proxied", "dashboard"}
Steps == {"idle", "count", "cleared", "cleanup", "tally", "password"}
Row == [id : Nat, ip : IPs, page : Pages, at : Nat]
Never == -1

\* A call: its step, the client it is about, the row it inserted (detect() only).
Call(step, ip, row) == [step |-> step, ip |-> ip, row |-> row]
Idle == Call("idle", NoIP, 0)

-----------------------------------------------------------------------------
(* Queries *)

Cutoff == now - Window

\* _count_recent(): every attempt of the ip, whatever page it was made on.
CountRecent(ip) == Cardinality({r \in attempts : r.ip = ip /\ r.at >= Cutoff})

\* Mutant: the edge of the window is not counted.
CountDashboardStrict(ip) ==
    Cardinality({r \in attempts :
                    r.ip = ip /\ r.page = "dashboard" /\ r.at > Cutoff})

\* The count in login(): only the attempts made on the dashboard's own page.
CountDashboard(ip) ==
    Cardinality({r \in attempts :
                    r.ip = ip /\ r.page = "dashboard" /\ r.at >= Cutoff})

\* Mutant: clean-up also deletes what is exactly one window old.
UnexpiredEager(rows) == {r \in rows : ~(r.at <= Cutoff)}

\* Rows _cleanup_expired() leaves behind.
Unexpired(rows) == {r \in rows : ~(r.at < Cutoff)}

\* db.session.add(LoginAttempt(...)); commit().
InsertAttempt(ip, page) ==
    LET row == [id |-> lastId + 1, ip |-> ip, page |-> page, at |-> now]
    IN  /\ lastId < MaxAttempts
        /\ lastId' = lastId + 1
        /\ attempts' = attempts \union {row}
        /\ history' = history \union {row}

At(w, step) == bf[w].step = step
Go(w, call) == bf' = [bf EXCEPT ![w] = call]

-----------------------------------------------------------------------------
Init ==
    /\ now = 0
    /\ attempts = {} /\ lastId = 0
    /\ bf = [w \in Workers |-> Idle]
    /\ history = {} /\ judged = {}
    /\ flaggedAt = [ip \in IPs |-> Never]

(* should_preblock() on a login endpoint: clean up and commit, then count. *)
PreblockCleanup(w, ip) ==
    /\ At(w, "idle")
    /\ Go(w, Call("count", ip, 0))
    /\ attempts' = Unexpired(attempts)
    /\ UNCHANGED <<now, lastId, ghosts>>

\* Mutant: off by one at the threshold.
PreblockCountLate(w) ==
    /\ At(w, "count")
    /\ Go(w, IF CountRecent(bf[w].ip) > Threshold
             THEN Idle ELSE Call("cleared", bf[w].ip, 0))
    /\ UNCHANGED <<now, table, ghosts>>

PreblockCount(w) ==
    /\ At(w, "count")
    /\ Go(w, IF CountRecent(bf[w].ip) >= Threshold
             THEN Idle ELSE Call("cleared", bf[w].ip, 0))
    /\ UNCHANGED <<now, table, ghosts>>

(* The cleared request was blocked for its findings, upstream was          *)
(* unreachable, or upstream answered with no failure status: detect() is   *)
(* not called, or returns None.                                            *)
Settle(w) ==
    /\ At(w, "cleared")
    /\ Go(w, Idle)
    /\ UNCHANGED <<now, table, ghosts>>

(* detect(): upstream answered 401/403; record it, clean up, count. *)
DetectInsert(w) ==
    /\ At(w, "cleared")
    /\ InsertAttempt(bf[w].ip, "proxied")
    /\ Go(w, Call("cleanup", bf[w].ip, lastId + 1))
    /\ UNCHANGED <<now, judged, flaggedAt>>

(* detect(): PostgreSQL refuses a path longer than LoginAttempt.url; the   *)
(* request ends with a 500 and the failure is not recorded.                *)
DetectRefused(w) ==
    /\ At(w, "cleared")
    /\ Go(w, Idle)
    /\ UNCHANGED <<now, table, ghosts>>

\* Mutant: the client is forgotten between the insert and the count.
DetectCleanupNoIP(w) ==
    /\ At(w, "cleanup")
    /\ Go(w, Call("tally", NoIP, bf[w].row))
    /\ attempts' = Unexpired(attempts)
    /\ UNCHANGED <<now, lastId, ghosts>>

DetectCleanup(w) ==
    /\ At(w, "cleanup")
    /\ Go(w, Call("tally", bf[w].ip, bf[w].row))
    /\ attempts' = Unexpired(attempts)
    /\ UNCHANGED <<now, lastId, ghosts>>

DetectCount(w) ==
    /\ At(w, "tally")
    /\ Go(w, Idle)
    /\ judged' = judged \union {bf[w].row}
    /\ flaggedAt' = IF CountRecent(bf[w].ip) >= Threshold
                    THEN [flaggedAt EXCEPT ![bf[w].ip] = now]
                    ELSE flaggedAt
    /\ UNCHANGED <<now, table, history>>

(* login(), POST: count first (429 when over), then the password. *)
LoginCount(w, ip) ==
    /\ At(w, "idle")
    /\ CountDashboard(ip) < Threshold
    /\ Go(w, Call("password", ip, 0))
    /\ UNCHANGED <<now, table, ghosts>>

LoginThrottled(w, ip) ==
    /\ At(w, "idle")
    /\ CountDashboard(ip) >= Threshold
    /\ UNCHANGED vars

LoginSucceeds(w) ==
    /\ At(w, "password")
    /\ Go(w, Idle)
    /\ UNCHANGED <<now, table, ghosts>>

LoginFails(w) ==
    /\ At(w, "password")
    /\ InsertAttempt(bf[w].ip, "dashboard")
    /\ Go(w, Idle)
    /\ UNCHANGED <<now, judged, flaggedAt>>

(* The process is killed or the thread's request dies with an exception. *)
Crash(w) ==
    /\ ~At(w, "idle")
    /\ Go(w, Idle)
    /\ UNCHANGED <<now, table, ghosts>>

Tick ==
    /\ now < MaxTime
    /\ now' = now + 1
    /\ UNCHANGED <<table, bf, ghosts>>

WorkerStep(w) ==
    \/ \E ip \in IPs : PreblockCleanup(w, ip) \/ LoginCount(w, ip)
                         \/ LoginThrottled(w, ip)
    \/ PreblockCount(w) \/ Settle(w)
    \/ DetectInsert(w) \/ DetectRefused(w) \/ DetectCleanup(w) \/ DetectCount(w)
    \/ LoginSucceeds(w) \/ LoginFails(w)
    \/ Crash(w)

Next == Tick \/ \E w \in Workers : WorkerStep(w)

Spec == Init /\ [][Next]_vars

-----------------------------------------------------------------------------
(* Properties *)

TypeOK ==
    /\ now \in Nat
    /\ lastId \in Nat
    /\ attempts \subseteq history
    /\ history \subseteq Row
    /\ bf \in [Workers -> [step : Steps, ip : IPs \union {NoIP}, row : Nat]]
    /\ \A w \in Workers : bf[w].step # "idle" => bf[w].ip \in IPs
    /\ judged \subseteq Nat
    /\ flaggedAt \in [IPs -> Nat \union {Never}]

\* What really happened in the window that ends now, whatever the table says.
Failed(ip, page) ==
    {r \in history : r.ip = ip /\ r.page = page /\ r.at >= Cutoff}
InFlight(ip, step) == {w \in Workers : bf[w].step = step /\ bf[w].ip = ip}

(* The brute-force promise (brute_force.py, should_preblock: "attempt 6,   *)
(* 7, 8... can be blocked before ever reaching upstream") with its exact   *)
(* slack: the check is made before the request is forwarded and the        *)
(* failure is recorded after the answer, so of the failed logins of one    *)
(* client that are recorded in any window, and those on their way, each    *)
(* worker may add one to the Threshold - 1 the check lets through.         *)
(* With one worker: at most Threshold.  A failed login that is never       *)
(* recorded is counted by nobody, and nothing bounds how many there are:   *)
(* those whose path PostgreSQL refuses (DetectRefused) and those whose     *)
(* worker died after the answer (Crash).                                   *)
UpstreamFailuresBounded ==
    \A ip \in IPs :
        Cardinality(Failed(ip, "proxied")) + Cardinality(InFlight(ip, "cleared"))
            <= Threshold - 1 + Cardinality(Workers)

(* The same for password guesses at the dashboard (proxy_app.py, login()): *)
(* the failure count is read before the password is checked and written    *)
(* after, so concurrent guesses may exceed the throttle by the workers.    *)
DashboardGuessesBounded ==
    \A ip \in IPs :
        Cardinality(Failed(ip, "dashboard")) + Cardinality(InFlight(ip, "password"))
            <= Threshold - 1 + Cardinality(Workers)

(* A burst is never missed because of the order workers insert, clean up   *)
(* and count in: once detect() has judged an attempt and Threshold         *)
(* attempts up to it are still in the window, some detect() call has       *)
(* returned a Brute Force finding at or after that attempt.                *)
BurstFlagged ==
    \A r \in history :
        /\ r.id \in judged
        /\ Cardinality({s \in history : s.ip = r.ip /\ s.at >= Cutoff /\ s.id <= r.id})
               >= Threshold
        => flaggedAt[r.ip] >= r.at
=============================================================================
