------------------------------ MODULE Blocklist ------------------------------
(***************************************************************************)
(* The blocked_ips table (utils/ip_blocklist.py): maybe_auto_block() after *)
(* a Critical/High incident was stored, block_ip() for it and for the      *)
(* dashboard's block form, unblock_ip(), and is_blocked().                 *)
(*                                                                         *)
(* Each query and each commit is one step of a worker.  Step of blk[w]:    *)
(*   idle    no call in progress                                           *)
(*   count   maybe_auto_block(force=False) is about to count incidents     *)
(*   select  block_ip() is about to look for an existing row               *)
(*   write   block_ip() is about to commit its INSERT or UPDATE            *)
(*   error   the commit raised; the request ends with a 500                *)
(*                                                                         *)
(* A deleted row's id is not given to a new row, as with PostgreSQL's      *)
(* sequences.  SQLite may reuse the last one; an UPDATE under way would    *)
(* then hit the new row, whatever ip it is for, and not fail.              *)
(***************************************************************************)
EXTENDS BlockPolicy, FiniteSets

VARIABLES
    now,            \* datetime.now(timezone.utc)
    blocked,        \* blocked_ips: expires_at of every ip that has a row
    lastIncident,   \* id of the newest row of incidents
    severe,         \* per ip: created_at of its Critical/High incidents, by id
    blk,            \* per worker: the call in progress
    pin             \* per ip: has an admin blocked it, and was an auto-block
                    \* of it under way when the row was looked up or committed
                    \* (for the properties only)

stored == <<lastIncident, severe>>
vars == <<now, blocked, stored, blk, pin>>

Expiry == Nat \union {Permanent}
Steps == {"idle", "count", "select", "write", "error"}

\* A call: its step and arguments (ip, blocked_by); the fate of the row that
\* block_ip() found and the expires_at it read there; the expires_at it is to
\* set; and was no auto-block of the ip under way then (for the properties).
Call(step, ip, by) ==
    [step |-> step, ip |-> ip, by |-> by, row |-> "none", read |-> Permanent,
     expires |-> Permanent, alone |-> FALSE]
Idle == Call("idle", NoIP, "auto")

-----------------------------------------------------------------------------
(* Queries *)

\* Mutant: a null expires_at is taken for an expired one.
IsBlockedTimed(ip) == ip \in DOMAIN blocked /\ blocked[ip] > now

IsBlocked(ip) ==
    /\ ip \in DOMAIN blocked
    /\ blocked[ip] = Permanent \/ blocked[ip] > now

\* Critical/High incidents of the ip inside the auto-block window.
CountSevere(ip) ==
    Cardinality({i \in DOMAIN severe[ip] : severe[ip][i] >= now - AutoWindow})

\* Workers whose maybe_auto_block() found the ip free and has not finished.
AutoUnderWay(ip) ==
    {w \in Workers : blk[w].ip = ip /\ blk[w].by = "auto"
                       /\ blk[w].step \in {"count", "select", "write"}}

SetRow(ip, expires) ==
    [x \in DOMAIN blocked \union {ip} |-> IF x = ip THEN expires ELSE blocked[x]]

At(w, step) == blk[w].step = step
Go(w, call) == blk' = [blk EXCEPT ![w] = call]

-----------------------------------------------------------------------------
Init ==
    /\ now = 0
    /\ blocked = [ip \in {} |-> Permanent]
    /\ lastIncident = 0
    /\ severe = [ip \in IPs |-> [i \in {} |-> 0]]
    /\ blk = [w \in Workers |-> Idle]
    /\ pin = [ip \in IPs |-> "none"]

(* maybe_auto_block(): nothing when switched off or already blocked; with  *)
(* force the count is skipped.                                             *)
AutoBlockCheck(w, ip, force) ==
    /\ At(w, "idle")
    /\ Go(w, IF ~AutoBlockEnabled \/ IsBlocked(ip) THEN Idle
             ELSE Call(IF force THEN "select" ELSE "count", ip, "auto"))
    /\ UNCHANGED <<now, blocked, stored, pin>>

\* Mutant: off by one at the threshold.
AutoBlockCountLate(w) ==
    /\ At(w, "count")
    /\ Go(w, IF CountSevere(blk[w].ip) <= AutoThreshold THEN Idle
             ELSE Call("select", blk[w].ip, "auto"))
    /\ UNCHANGED <<now, blocked, stored, pin>>

AutoBlockCount(w) ==
    /\ At(w, "count")
    /\ Go(w, IF CountSevere(blk[w].ip) < AutoThreshold THEN Idle
             ELSE Call("select", blk[w].ip, "auto"))
    /\ UNCHANGED <<now, blocked, stored, pin>>

(* block_ip_route(): a manual block never expires. *)
ManualBlock(w, ip) ==
    /\ At(w, "idle")
    /\ Go(w, Call("select", ip, "manual"))
    /\ UNCHANGED <<now, blocked, stored, pin>>

(* block_ip(): look for the row; the expiry was computed just before. *)
BlockSelect(w) ==
    /\ At(w, "select")
    /\ Go(w, [blk[w] EXCEPT
                !.step = "write",
                !.row = IF blk[w].ip \in DOMAIN blocked THEN "found" ELSE "none",
                !.read = IF blk[w].ip \in DOMAIN blocked THEN blocked[blk[w].ip]
                         ELSE Permanent,
                !.alone = AutoUnderWay(blk[w].ip) = {},
                !.expires = IF blk[w].by = "manual" \/ AutoDuration = Permanent
                            THEN Permanent ELSE now + AutoDuration])
    /\ UNCHANGED <<now, blocked, stored, pin>>

\* expires_at after the commit: SQLAlchemy leaves out of an UPDATE a column
\* that is set to the value it was read with.  (No two expiries are equal.)
Written(call) ==
    IF call.row = "found" /\ call.read = Permanent /\ call.expires = Permanent
    THEN blocked[call.ip] ELSE call.expires

(* The commit succeeds: INSERT when no row was found and none appeared     *)
(* meanwhile, UPDATE when the row found is still there.                    *)
BlockCommit(w) ==
    /\ At(w, "write")
    /\ \/ blk[w].row = "none" /\ blk[w].ip \notin DOMAIN blocked
       \/ blk[w].row = "found"
    /\ Go(w, Idle)
    /\ blocked' = SetRow(blk[w].ip, Written(blk[w]))
    /\ pin' = IF blk[w].by = "auto" THEN pin
              ELSE [pin EXCEPT ![blk[w].ip] =
                       IF blk[w].alone /\ AutoUnderWay(blk[w].ip) = {}
                       THEN "alone" ELSE "overlapped"]
    /\ UNCHANGED <<now, stored>>

\* Mutant: the worker goes on without an ip after the failed commit.
BlockFailsNoIP(w) ==
    /\ At(w, "write")
    /\ \/ blk[w].row = "none" /\ blk[w].ip \in DOMAIN blocked
       \/ blk[w].row = "deleted"
    /\ Go(w, Call("select", NoIP, blk[w].by))
    /\ UNCHANGED <<now, blocked, stored, pin>>

(* The commit raises: unique constraint on ip (IntegrityError), or the row *)
(* to update was deleted (StaleDataError).                                 *)
BlockFails(w) ==
    /\ At(w, "write")
    /\ \/ blk[w].row = "none" /\ blk[w].ip \in DOMAIN blocked
       \/ blk[w].row = "deleted"
    /\ Go(w, Call("error", blk[w].ip, blk[w].by))
    /\ UNCHANGED <<now, blocked, stored, pin>>

(* unblock_ip(): one DELETE, committed; a row another call has found is    *)
(* gone for it.                                                            *)
Unblock(w, ip) ==
    /\ At(w, "idle")
    /\ blocked' = [x \in DOMAIN blocked \ {ip} |-> blocked[x]]
    /\ blk' = [v \in Workers |->
                  IF blk[v].ip = ip /\ blk[v].row = "found"
                  THEN [blk[v] EXCEPT !.row = "deleted"] ELSE blk[v]]
    /\ pin' = [pin EXCEPT ![ip] = "none"]
    /\ UNCHANGED <<now, stored>>

(* The request ends (with a 500 after an error, or the worker is killed). *)
Abandon(w) ==
    /\ ~At(w, "idle")
    /\ Go(w, Idle)
    /\ UNCHANGED <<now, blocked, stored, pin>>

Tick ==
    /\ now < MaxTime
    /\ now' = now + 1
    /\ UNCHANGED <<blocked, stored, blk, pin>>

(* persist_request_and_incidents() commits the n findings of a request     *)
(* together; grave are the positions of the Critical and High ones.        *)
NewIncidents(ip, n, grave) ==
    /\ lastIncident < MaxIncidents
    /\ lastIncident' = lastIncident + n
    /\ LET new == {lastIncident + k : k \in grave}
       IN  severe' = [severe EXCEPT ![ip] =
                         [i \in DOMAIN severe[ip] \union new |->
                             IF i \in new THEN now ELSE severe[ip][i]]]
    /\ UNCHANGED <<now, blocked, blk, pin>>

(* On its own the module stands for every caller of maybe_auto_block(): it *)
(* runs only for an ip that has a Critical/High incident.                  *)
CallAutoBlock(w, ip, force) ==
    /\ DOMAIN severe[ip] # {}
    /\ AutoBlockCheck(w, ip, force)

WorkerStep(w) ==
    \/ \E ip \in IPs : \/ \E force \in BOOLEAN : CallAutoBlock(w, ip, force)
                       \/ ManualBlock(w, ip)
                       \/ Unblock(w, ip)
    \/ AutoBlockCount(w)
    \/ BlockSelect(w) \/ BlockCommit(w) \/ BlockFails(w)
    \/ Abandon(w)

Next ==
    \/ Tick
    \/ \E ip \in IPs, n \in 1..MaxBatch : \E grave \in SUBSET (1..n) :
          NewIncidents(ip, n, grave)
    \/ \E w \in Workers : WorkerStep(w)

Spec == Init /\ [][Next]_vars

-----------------------------------------------------------------------------
(* Properties *)

RowsTypeOK ==
    /\ now \in Nat
    /\ DOMAIN blocked \subseteq IPs
    /\ \A ip \in DOMAIN blocked : blocked[ip] \in Expiry
    /\ blk \in [Workers -> [step : Steps, ip : IPs \union {NoIP}, by : {"auto", "manual"},
                             row : {"none", "found", "deleted"}, read : Expiry,
                             expires : Expiry, alone : BOOLEAN]]
    /\ \A w \in Workers : blk[w].step # "idle" => blk[w].ip \in IPs
    /\ pin \in [IPs -> {"none", "alone", "overlapped"}]

SevereTypeOK ==
    /\ lastIncident \in Nat
    /\ DOMAIN severe = IPs
    /\ \A ip \in IPs : /\ DOMAIN severe[ip] \subseteq 1..lastIncident
                       /\ \A i \in DOMAIN severe[ip] : severe[ip][i] \in Nat

BlocklistTypeOK == RowsTypeOK /\ SevereTypeOK

(* An admin's block is permanent until manually unblocked (models.py,      *)
(* BlockedIP: "A null expires_at means the block is permanent until        *)
(* manually unblocked").  With one worker it is; with two, an auto-block   *)
(* that found the ip free before the admin's commit overwrites the row     *)
(* with an expiry.                                                         *)
ManualBlockSticks ==
    \A ip \in IPs : pin[ip] # "none" => ip \in DOMAIN blocked /\ blocked[ip] = Permanent

(* What does hold whatever the number of workers: the admin's block lasts  *)
(* until an unblock unless an auto-block of that very ip was under way     *)
(* when the admin's call looked for the row or when it committed.  Calls   *)
(* that start later cannot touch it, nor can an earlier block of the same  *)
(* ip, although an admin's UPDATE of a row that is permanent already does  *)
(* not write expires_at at all.                                            *)
LoneManualBlockSticks ==
    \A ip \in IPs : pin[ip] = "alone" => ip \in DOMAIN blocked /\ blocked[ip] = Permanent
=============================================================================
