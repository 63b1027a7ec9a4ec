--------------------------- MODULE BlocklistProofs ---------------------------
(***************************************************************************)
(* Theorems about Blocklist, for any number of workers and clients.        *)
(***************************************************************************)
EXTENDS Blocklist, TLAPS

(* What makes LoneManualBlockSticks inductive.  A row that a call has      *)
(* found is there until the call is told otherwise, a manual call never    *)
(* counts incidents and never carries an expiry, and while an ip is        *)
(* guarded no auto-block of it is under way, because its permanent row     *)
(* turns every new one away.  Guarded are the ips pinned "alone", and      *)
(* before that those whose row a manual call has found permanent and is    *)
(* not going to write.                                                     *)
FoundIsThere ==
    \A w \in Workers :
        blk[w].row = "found" => blk[w].step = "write" /\ blk[w].ip \in DOMAIN blocked

ManualIsPermanent ==
    \A w \in Workers :
        blk[w].by = "manual" =>
            /\ blk[w].step # "count"
            /\ blk[w].step = "write" => blk[w].expires = Permanent

Omits(call, ip) ==
    /\ call.by = "manual" /\ call.ip = ip
    /\ call.row = "found" /\ call.read = Permanent /\ call.alone
Guarded(ip) == pin[ip] = "alone" \/ \E w \in Workers : Omits(blk[w], ip)

Automatic(call, ip) ==
    call.ip = ip /\ call.by = "auto" /\ call.step \in {"count", "select", "write"}
Safe(ip) ==
    /\ ip \in DOMAIN blocked /\ blocked[ip] = Permanent
    /\ \A w \in Workers : ~Automatic(blk[w], ip)

GuardedIsSafe == \A ip \in IPs : Guarded(ip) => Safe(ip)

RowsInv == RowsTypeOK /\ FoundIsThere /\ ManualIsPermanent /\ GuardedIsSafe
BlocklistInv == RowsInv /\ SevereTypeOK

(* A step as the rows see it: wherever the incidents that are counted come *)
(* from.                                                                   *)
RowsStep ==
    \/ now' \in Nat /\ UNCHANGED <<blocked, blk, pin>>
    \/ \E w \in Workers :
          \/ \E ip \in IPs : \/ \E force \in BOOLEAN : AutoBlockCheck(w, ip, force)
                             \/ ManualBlock(w, ip)
                             \/ Unblock(w, ip)
          \/ AutoBlockCount(w)
          \/ BlockSelect(w) \/ BlockCommit(w) \/ BlockFails(w)
          \/ Abandon(w)

-----------------------------------------------------------------------------
(* The initial state satisfies the invariant. *)
LEMMA InitRows == Init => RowsInv
BY NoIPAssumption DEF Init, RowsInv, RowsTypeOK, FoundIsThere, ManualIsPermanent,
       GuardedIsSafe, Guarded, Omits, Idle, Call, Steps, Expiry, Permanent

-----------------------------------------------------------------------------
CallType ==
    [step : Steps, ip : IPs \union {NoIP}, by : {"auto", "manual"},
     row : {"none", "found", "deleted"}, read : Expiry, expires : Expiry, alone : BOOLEAN]

(* A step of one worker that leaves the rows alone: its new call has to be *)
(* in order, and may not be an auto-block of an ip that is guarded.        *)
LEMMA CallStep ==
    ASSUME RowsInv, NEW w \in Workers, NEW call \in CallType,
           blk' = [blk EXCEPT ![w] = call], UNCHANGED <<now, blocked, pin>>,
           call.step # "idle" => call.ip \in IPs,
           call.row = "found" => call.step = "write" /\ call.ip \in DOMAIN blocked,
           call.by = "manual" => /\ call.step # "count"
                                 /\ call.step = "write" => call.expires = Permanent,
           \A ip \in IPs : /\ Omits(call, ip) => Safe(ip)
                           /\ Automatic(call, ip) => ~Guarded(ip) /\ ~Omits(call, ip)
    PROVE  RowsInv'
<1>1. /\ blk \in [Workers -> CallType] /\ blk' \in [Workers -> CallType]
      /\ blk'[w] = call /\ \A v \in Workers : v # w => blk'[v] = blk[v]
  BY DEF RowsInv, RowsTypeOK, CallType
<1>2. RowsTypeOK'
  BY <1>1 DEF RowsInv, RowsTypeOK, CallType
<1>3. FoundIsThere' /\ ManualIsPermanent'
  BY <1>1 DEF RowsInv, FoundIsThere, ManualIsPermanent
<1>4. ASSUME NEW ip \in IPs, Guarded(ip)' PROVE Safe(ip)'
  <2>1. Guarded(ip) \/ Omits(call, ip)
    BY <1>1, <1>4 DEF Guarded, Omits
  <2>2. Safe(ip)
    BY <2>1 DEF RowsInv, GuardedIsSafe
  <2>3. ~Automatic(call, ip)
    BY <2>1
  <2> QED BY <1>1, <2>2, <2>3 DEF Safe, Automatic
<1> QED BY <1>2, <1>3, <1>4 DEF RowsInv, GuardedIsSafe

(* A commit, by whomever.                                                  *)
LEMMA CommitStep ==
    ASSUME RowsInv, NEW w \in Workers, BlockCommit(w)
    PROVE  RowsInv'
<1> DEFINE a == blk[w].ip
           e == Written(blk[w])
<1> USE DEF RowsInv
<1>1. /\ blk \in [Workers -> CallType] /\ a \in IPs /\ blk[w].step = "write"
      /\ blk' = [blk EXCEPT ![w] = Idle] /\ now' = now
      /\ pin \in [IPs -> {"none", "alone", "overlapped"}]
  BY DEF BlockCommit, At, Go, RowsTypeOK, CallType
<1>2. Idle \in CallType /\ Idle.step = "idle" /\ Idle.row = "none"
  BY DEF Idle, Call, CallType, Steps, Expiry, Permanent
<1>3. /\ blk' \in [Workers -> CallType] /\ blk'[w] = Idle
      /\ \A v \in Workers : v # w => blk'[v] = blk[v]
  BY <1>1, <1>2
<1>4. e \in Expiry
  <2>1. CASE blk[w].row = "found"
    <3>1. blocked[a] \in Expiry
      BY <2>1 DEF FoundIsThere, RowsTypeOK
    <3> QED BY <1>1, <3>1 DEF Written, CallType
  <2>2. CASE blk[w].row # "found"
    BY <1>1, <2>2 DEF Written, CallType
  <2> QED BY <2>1, <2>2
<1>5. blocked' = SetRow(a, e)
  BY DEF BlockCommit
<1> HIDE DEF e
<1>6. /\ DOMAIN blocked' = DOMAIN blocked \union {a}
      /\ blocked'[a] = e
      /\ \A ip \in DOMAIN blocked : ip # a => blocked'[ip] = blocked[ip]
  BY <1>5 DEF SetRow
<1>7. RowsTypeOK'
  <2>1. /\ DOMAIN blocked' \subseteq IPs
        /\ \A ip \in DOMAIN blocked' : blocked'[ip] \in Expiry
    BY <1>1, <1>4, <1>6 DEF RowsTypeOK
  <2>2. pin' \in [IPs -> {"none", "alone", "overlapped"}]
    BY <1>1 DEF BlockCommit
  <2> QED BY <1>1, <1>2, <1>3, <2>1, <2>2 DEF RowsTypeOK, CallType
<1>8. FoundIsThere' /\ ManualIsPermanent'
  BY <1>2, <1>3, <1>6 DEF FoundIsThere, ManualIsPermanent, Idle, Call
<1>9. ASSUME NEW ip \in IPs, ip # a, Guarded(ip)' PROVE Safe(ip)'
  <2>1. pin'[ip] = pin[ip]
    BY <1>1, <1>9 DEF BlockCommit
  <2>2. Guarded(ip)
    BY <1>2, <1>3, <1>9, <2>1 DEF Guarded, Omits
  <2>3. Safe(ip)
    BY <2>2 DEF GuardedIsSafe
  <2> QED BY <1>2, <1>3, <1>6, <1>9, <2>3 DEF Safe, Automatic
<1>10. ASSUME NEW ip \in IPs, ip = a, Guarded(ip)' PROVE Safe(ip)'
  <2>1. CASE blk[w].by = "auto"
    <3>1. pin' = pin /\ Automatic(blk[w], ip)
      BY <1>1, <1>10, <2>1 DEF BlockCommit, Automatic
    <3>2. Guarded(ip)
      BY <1>2, <1>3, <1>10, <3>1 DEF Guarded, Omits
    <3> QED BY <3>1, <3>2 DEF GuardedIsSafe, Safe
  <2>2. CASE blk[w].by = "manual"
    <3>1. blk[w].expires = Permanent
      BY <1>1, <2>2 DEF ManualIsPermanent
    <3>2. \/ Guarded(ip)
          \/ /\ blk[w].alone /\ \A v \in Workers : ~Automatic(blk[v], ip)
      <4>1. CASE pin'[ip] = "alone"
        <5>1. blk[w].alone /\ AutoUnderWay(ip) = {}
          BY <1>1, <1>10, <2>2, <4>1 DEF BlockCommit
        <5> QED BY <5>1 DEF AutoUnderWay, Automatic
      <4>2. CASE pin'[ip] # "alone"
        BY <1>2, <1>3, <1>10, <4>2 DEF Guarded, Omits
      <4> QED BY <4>1, <4>2
    <3>3. \A v \in Workers : ~Automatic(blk[v], ip)
      BY <3>2 DEF GuardedIsSafe, Safe
    <3>4. e = Permanent
      <4>1. CASE blk[w].row = "found" /\ blk[w].read = Permanent
        <5>1. Guarded(ip)
          BY <1>10, <2>2, <3>2, <4>1 DEF Guarded, Omits
        <5> QED BY <1>10, <3>1, <4>1, <5>1 DEF GuardedIsSafe, Safe, Written, e
      <4>2. CASE ~(blk[w].row = "found" /\ blk[w].read = Permanent)
        BY <3>1, <4>2 DEF Written, e
      <4> QED BY <4>1, <4>2
    <3> QED BY <1>2, <1>3, <1>6, <1>10, <3>3, <3>4 DEF Safe, Automatic
  <2> QED BY <1>1, <2>1, <2>2 DEF CallType
<1> QED BY <1>7, <1>8, <1>9, <1>10 DEF GuardedIsSafe

(* Every step of the rows and calls preserves the invariant. *)
LEMMA RowsStepInv == RowsInv /\ RowsStep => RowsInv'
<1> SUFFICES ASSUME RowsInv, RowsStep PROVE RowsInv'
    OBVIOUS
<1> USE NoIPAssumption, AutoThresholdPositive, AutoWindowPositive, AutoDurationType,
        AutoBlockEnabledType, BoundsNat
    DEF Expiry, Permanent
<1>1. ASSUME now' \in Nat, UNCHANGED <<blocked, blk, pin>> PROVE RowsInv'
  BY <1>1 DEF RowsInv, RowsTypeOK, FoundIsThere, ManualIsPermanent, GuardedIsSafe,
              Guarded, Safe
<1>2. blk \in [Workers -> CallType]
  BY DEF RowsInv, RowsTypeOK, CallType
<1>3. ASSUME NEW step \in Steps, NEW a \in IPs \union {NoIP}, NEW by \in {"auto", "manual"}
      PROVE  /\ Call(step, a, by) \in CallType
             /\ Call(step, a, by).step = step /\ Call(step, a, by).ip = a
             /\ Call(step, a, by).by = by /\ Call(step, a, by).row = "none"
             /\ \A ip \in IPs : ~Omits(Call(step, a, by), ip)
  BY DEF Call, CallType, Omits
<1>4. ASSUME NEW w \in Workers, NEW a \in IPs, NEW force \in BOOLEAN,
             AutoBlockCheck(w, a, force)
      PROVE RowsInv'
  <2>1. \/ blk' = [blk EXCEPT ![w] = Call("idle", NoIP, "auto")]
        \/ /\ \/ blk' = [blk EXCEPT ![w] = Call("count", a, "auto")]
              \/ blk' = [blk EXCEPT ![w] = Call("select", a, "auto")]
           /\ ~IsBlocked(a)
    BY <1>4 DEF AutoBlockCheck, Go, Idle
  <2>2. IsBlocked(a) \/ ~Guarded(a)
    BY DEF RowsInv, GuardedIsSafe, Safe, IsBlocked
  <2>3. UNCHANGED <<now, blocked, pin>>
    BY <1>4 DEF AutoBlockCheck
  <2> QED BY <1>3, <2>1, <2>2, <2>3, CallStep DEF Automatic, Steps
<1>5. ASSUME NEW w \in Workers, AutoBlockCount(w) PROVE RowsInv'
  <2>1. /\ blk[w].step = "count" /\ blk[w].ip \in IPs /\ blk[w].by = "auto"
        /\ UNCHANGED <<now, blocked, pin>>
    BY <1>2, <1>5 DEF AutoBlockCount, At, RowsInv, RowsTypeOK, ManualIsPermanent, CallType
  <2>2. ~Guarded(blk[w].ip)
    BY <2>1 DEF RowsInv, GuardedIsSafe, Safe, Automatic
  <2>3. \/ blk' = [blk EXCEPT ![w] = Call("idle", NoIP, "auto")]
        \/ blk' = [blk EXCEPT ![w] = Call("select", blk[w].ip, "auto")]
    BY <1>5 DEF AutoBlockCount, Go, Idle
  <2> QED BY <1>3, <2>1, <2>2, <2>3, CallStep DEF Automatic, Steps
<1>6. ASSUME NEW w \in Workers, NEW a \in IPs, ManualBlock(w, a) PROVE RowsInv'
  <2>1. /\ blk' = [blk EXCEPT ![w] = Call("select", a, "manual")]
        /\ UNCHANGED <<now, blocked, pin>>
    BY <1>6 DEF ManualBlock, Go
  <2> DEFINE call == Call("select", a, "manual")
  <2>2. /\ call \in CallType /\ call.step = "select" /\ call.ip = a /\ call.by = "manual"
        /\ call.row = "none" /\ \A ip \in IPs : ~Omits(call, ip)
    BY <1>3 DEF Steps
  <2>3. blk' = [blk EXCEPT ![w] = call]
    BY <2>1
  <2> HIDE DEF call
  <2>4. \A ip \in IPs : ~Automatic(call, ip)
    BY <2>2 DEF Automatic
  <2>5. UNCHANGED <<now, blocked, pin>>
    BY <2>1
  <2> QED BY <2>2, <2>3, <2>4, <2>5, CallStep
<1>7. ASSUME NEW w \in Workers, BlockSelect(w) PROVE RowsInv'
  <2> DEFINE a == blk[w].ip
             row == IF a \in DOMAIN blocked THEN "found" ELSE "none"
             read == IF a \in DOMAIN blocked THEN blocked[a] ELSE Permanent
             alone == AutoUnderWay(a) = {}
             expires == IF blk[w].by = "manual" \/ AutoDuration = Permanent
                        THEN Permanent ELSE now + AutoDuration
             call == [blk[w] EXCEPT !.step = "write", !.row = row, !.read = read,
                                    !.alone = alone, !.expires = expires]
  <2>1. /\ blk[w].step = "select" /\ a \in IPs /\ blk[w] \in CallType
        /\ blk' = [blk EXCEPT ![w] = call] /\ UNCHANGED <<now, blocked, pin>>
    BY <1>2, <1>7 DEF BlockSelect, At, Go, RowsInv, RowsTypeOK
  <2>2. /\ expires \in Expiry /\ row \in {"found", "none"} /\ alone \in BOOLEAN
        /\ read \in Expiry
    BY DEF RowsInv, RowsTypeOK
  <2>3. expires = Permanent \/ blk[w].by # "manual"
    OBVIOUS
  <2>4. /\ row = "found" => a \in DOMAIN blocked
        /\ row = "found" /\ read = Permanent => blocked[a] = Permanent
        /\ alone => \A v \in Workers : ~Automatic(blk[v], a)
    BY DEF AutoUnderWay, Automatic
  <2> HIDE DEF row, read, alone, expires
  <2>5. /\ call \in CallType /\ call.step = "write" /\ call.ip = a /\ call.by = blk[w].by
        /\ call.row = row /\ call.read = read /\ call.alone = alone
        /\ call.expires = expires
    BY <2>1, <2>2 DEF CallType, Steps
  <2> HIDE DEF call
  <2>6. ASSUME NEW ip \in IPs, Omits(call, ip) PROVE Safe(ip)
    BY <2>4, <2>5, <2>6 DEF Omits, Safe
  <2>7. ASSUME NEW ip \in IPs, Automatic(call, ip) PROVE ~Guarded(ip) /\ ~Omits(call, ip)
    <3>1. Automatic(blk[w], ip)
      BY <2>1, <2>5, <2>7 DEF Automatic
    <3>2. ~Guarded(ip)
      BY <3>1 DEF RowsInv, GuardedIsSafe, Safe
    <3> QED BY <2>7, <3>2 DEF Automatic, Omits
  <2> QED BY <2>1, <2>3, <2>4, <2>5, <2>6, <2>7, CallStep
<1>8. ASSUME NEW w \in Workers, BlockCommit(w) PROVE RowsInv'
  BY <1>8, CommitStep
<1>9. ASSUME NEW w \in Workers, BlockFails(w) PROVE RowsInv'
  <2>1. /\ blk[w].step = "write" /\ blk[w].ip \in IPs /\ blk[w].by \in {"auto", "manual"}
        /\ blk' = [blk EXCEPT ![w] = Call("error", blk[w].ip, blk[w].by)]
        /\ UNCHANGED <<now, blocked, pin>>
    BY <1>2, <1>9 DEF BlockFails, At, Go, RowsInv, RowsTypeOK, CallType
  <2> QED BY <1>3, <2>1, CallStep DEF Automatic, Steps
<1>10. ASSUME NEW w \in Workers, NEW a \in IPs, Unblock(w, a) PROVE RowsInv'
  <2>1. /\ DOMAIN blocked' = DOMAIN blocked \ {a}
        /\ \A x \in DOMAIN blocked' : blocked'[x] = blocked[x]
        /\ now' = now /\ pin' = [pin EXCEPT ![a] = "none"]
        /\ blk' \in [Workers -> CallType]
    BY <1>2, <1>10 DEF Unblock, CallType
  <2>2. \A v \in Workers :
           IF blk[v].ip = a /\ blk[v].row = "found"
           THEN blk'[v] = [blk[v] EXCEPT !.row = "deleted"] ELSE blk'[v] = blk[v]
    BY <1>2, <1>10 DEF Unblock
  <2>3. \A v \in Workers : /\ blk'[v].step = blk[v].step /\ blk'[v].ip = blk[v].ip
                           /\ blk'[v].by = blk[v].by /\ blk'[v].expires = blk[v].expires
                           /\ blk'[v].row = "found" => blk'[v] = blk[v] /\ blk[v].ip # a
    BY <1>2, <2>2 DEF CallType
  <2>4. RowsTypeOK'
    BY <2>1, <2>3 DEF RowsInv, RowsTypeOK, CallType
  <2>5. FoundIsThere' /\ ManualIsPermanent'
    BY <2>1, <2>3 DEF RowsInv, FoundIsThere, ManualIsPermanent
  <2>6. ASSUME NEW ip \in IPs, Guarded(ip)' PROVE Safe(ip)'
    <3>1. ip # a /\ Guarded(ip)
      BY <2>1, <2>3, <2>6 DEF RowsInv, RowsTypeOK, Guarded, Omits
    <3>2. Safe(ip)
      BY <3>1 DEF RowsInv, GuardedIsSafe
    <3> QED BY <2>1, <2>3, <3>1, <3>2 DEF Safe, Automatic
  <2> QED BY <2>4, <2>5, <2>6 DEF RowsInv, GuardedIsSafe
<1>11. ASSUME NEW w \in Workers, Abandon(w) PROVE RowsInv'
  <2>1. /\ blk' = [blk EXCEPT ![w] = Call("idle", NoIP, "auto")]
        /\ UNCHANGED <<now, blocked, pin>>
    BY <1>11 DEF Abandon, Go, Idle
  <2> QED BY <1>3, <2>1, CallStep DEF Automatic, Steps
<1> QED
  BY <1>1, <1>4, <1>5, <1>6, <1>7, <1>8, <1>9, <1>10, <1>11
  DEF RowsStep

(* Every step of the block list is a step of the rows, and only new        *)
(* incidents add to those that are counted.                                *)
LEMMA StepInv == BlocklistInv /\ [Next]_vars => BlocklistInv'
<1> SUFFICES ASSUME BlocklistInv, [Next]_vars PROVE BlocklistInv'
    OBVIOUS
<1>1. now \in Nat
  BY DEF BlocklistInv, RowsInv, RowsTypeOK
<1>2. RowsStep
  <2>1. CASE Tick
    BY <1>1, <2>1 DEF Tick, RowsStep
  <2>2. CASE \/ \E a \in IPs, n \in 1..MaxBatch : \E g \in SUBSET (1..n) : NewIncidents(a, n, g)
            \/ UNCHANGED vars
    BY <1>1, <2>2 DEF NewIncidents, vars, RowsStep
  <2>3. ASSUME NEW w \in Workers, WorkerStep(w) PROVE RowsStep
    BY <2>3 DEF WorkerStep, CallAutoBlock, RowsStep
  <2> QED BY <2>1, <2>2, <2>3 DEF Next
<1>3. SevereTypeOK'
  <2>1. lastIncident \in Nat /\ SevereTypeOK
    BY DEF BlocklistInv, SevereTypeOK
  <2>2. CASE UNCHANGED stored
    BY <2>1, <2>2 DEF stored, SevereTypeOK
  <2>3. ASSUME NEW a \in IPs, NEW n \in 1..MaxBatch, NEW g \in SUBSET (1..n),
               NewIncidents(a, n, g)
        PROVE  SevereTypeOK'
    <3> DEFINE new == {lastIncident + k : k \in g}
               mine == [i \in DOMAIN severe[a] \union new |->
                           IF i \in new THEN now ELSE severe[a][i]]
    <3>1. /\ lastIncident' = lastIncident + n /\ n \in Nat
          /\ severe' = [severe EXCEPT ![a] = mine]
      BY <2>3, BoundsNat DEF NewIncidents
    <3>2. \A i \in new : i \in 1..lastIncident'
      BY <2>1, <3>1
    <3>3. DOMAIN mine = DOMAIN severe[a] \union new
      OBVIOUS
    <3>4. \A i \in DOMAIN mine : mine[i] \in Nat
      BY <1>1, <2>1 DEF SevereTypeOK
    <3> HIDE DEF new, mine
    <3>5. DOMAIN mine \subseteq 1..lastIncident'
      BY <2>1, <3>1, <3>2, <3>3 DEF SevereTypeOK
    <3> QED BY <2>1, <3>1, <3>4, <3>5 DEF SevereTypeOK
  <2> QED
    BY <2>2, <2>3
    DEF Next, vars, Tick, WorkerStep, CallAutoBlock, AutoBlockCheck, AutoBlockCount,
        ManualBlock, Unblock, BlockSelect, BlockCommit, BlockFails, Abandon
<1> QED BY <1>2, <1>3, RowsStepInv DEF BlocklistInv

-----------------------------------------------------------------------------
(* The invariant holds in every reachable state. *)
THEOREM BlocklistInvariant == Spec => []BlocklistInv
<1>1. Init => BlocklistInv
  <2>1. Init => SevereTypeOK
    BY DEF Init, SevereTypeOK
  <2> QED BY <2>1, InitRows DEF BlocklistInv
<1>2. BlocklistInv /\ [Next]_vars => BlocklistInv'
  BY StepInv
<1> QED BY <1>1, <1>2, PTL DEF Spec

(* Type correctness of the block list (utils/ip_blocklist.py). *)
THEOREM BlocklistTypeCorrect == Spec => []BlocklistTypeOK
<1>1. BlocklistInv => BlocklistTypeOK
  BY DEF BlocklistInv, RowsInv, BlocklistTypeOK
<1> QED BY <1>1, BlocklistInvariant, PTL

(* However many workers there are, an admin's block that no auto-block of  *)
(* the same ip overlapped stays permanent until it is unblocked.           *)
THEOREM LoneManualBlockIsKept == Spec => []LoneManualBlockSticks
<1>1. BlocklistInv => LoneManualBlockSticks
  BY DEF BlocklistInv, RowsInv, GuardedIsSafe, Guarded, Safe, LoneManualBlockSticks
<1> QED BY <1>1, BlocklistInvariant, PTL
=============================================================================
