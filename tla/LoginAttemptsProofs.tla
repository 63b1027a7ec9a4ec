------------------------- MODULE LoginAttemptsProofs -------------------------
(***************************************************************************)
(* Theorems about LoginAttempts, for any number of workers and clients and *)
(* any threshold and window.                                               *)
(***************************************************************************)
EXTENDS LoginAttempts, FiniteSetTheorems, TLAPS

(* What makes the two bounds inductive: clean-up deletes only what has     *)
(* left the window, so the table still holds every failure in the window   *)
(* and what a worker counts is never less than what happened.              *)
TableKeepsWindow == \A r \in history : r.at >= Cutoff => r \in attempts

HistoryFinite == IsFiniteSet(history)

\* Both bounds have this form: failures recorded on a page, and the calls at
\* a step that may still record one.
Bounded(page, step) ==
    \A ip \in IPs :
        Cardinality(Failed(ip, page)) + Cardinality(InFlight(ip, step))
            <= Threshold - 1 + Cardinality(Workers)

LoginInv ==
    /\ TypeOK
    /\ HistoryFinite
    /\ TableKeepsWindow
    /\ Bounded("proxied", "cleared")
    /\ Bounded("dashboard", "password")

-----------------------------------------------------------------------------
(* Smaller sets have a smaller sum: nothing new happened, nothing started. *)
LEMMA SumShrinks ==
    ASSUME NEW S, NEW T, NEW S1 \in SUBSET S, NEW T1 \in SUBSET T,
           IsFiniteSet(S), IsFiniteSet(T)
    PROVE  Cardinality(S1) + Cardinality(T1) <= Cardinality(S) + Cardinality(T)
<1>1. IsFiniteSet(S1) /\ IsFiniteSet(T1)
      /\ Cardinality(S1) <= Cardinality(S) /\ Cardinality(T1) <= Cardinality(T)
  BY FS_Subset
<1>2. /\ Cardinality(S) \in Nat /\ Cardinality(T) \in Nat
      /\ Cardinality(S1) \in Nat /\ Cardinality(T1) \in Nat
  BY <1>1, FS_CardinalityType
<1> QED BY <1>1, <1>2

(* What happens is no longer under way: the sum is kept.                   *)
LEMMA SumMoves ==
    ASSUME NEW S, NEW T, NEW x, NEW y \in T, NEW S1, NEW T1,
           IsFiniteSet(S), IsFiniteSet(T),
           S1 \subseteq S \union {x}, T1 \subseteq T \ {y}
    PROVE  Cardinality(S1) + Cardinality(T1) <= Cardinality(S) + Cardinality(T)
<1>1. /\ IsFiniteSet(S \union {x})
      /\ Cardinality(S \union {x}) <= Cardinality(S) + 1
  <2>1. Cardinality(S) \in Nat
    BY FS_CardinalityType
  <2>2. /\ IsFiniteSet(S \cup {x})
        /\ Cardinality(S \cup {x}) =
              IF x \in S THEN Cardinality(S) ELSE Cardinality(S) + 1
    BY FS_AddElement, Zenon
  <2> QED BY <2>1, <2>2
<1>2. /\ IsFiniteSet(T \ {y})
      /\ Cardinality(T \ {y}) = Cardinality(T) - 1
  BY FS_RemoveElement
<1>3. Cardinality(S1) + Cardinality(T1)
          <= Cardinality(S \union {x}) + Cardinality(T \ {y})
  BY <1>1, <1>2, SumShrinks
<1>4. /\ Cardinality(S) \in Nat /\ Cardinality(T) \in Nat
      /\ Cardinality(S \union {x}) \in Nat /\ Cardinality(T \ {y}) \in Nat
  BY <1>1, <1>2, FS_CardinalityType
<1>5. IsFiniteSet(S1) /\ IsFiniteSet(T1)
  BY <1>1, <1>2, FS_Subset
<1>6. Cardinality(S1) \in Nat /\ Cardinality(T1) \in Nat
  BY <1>5, FS_CardinalityType
<1> QED BY <1>1, <1>2, <1>3, <1>4, <1>6

(* The sets that are counted are finite. *)
LEMMA CountedFinite ==
    ASSUME LoginInv, NEW ip \in IPs, NEW page, NEW step
    PROVE  IsFiniteSet(Failed(ip, page)) /\ IsFiniteSet(InFlight(ip, step))
<1>1. Failed(ip, page) \subseteq history /\ InFlight(ip, step) \subseteq Workers
  BY DEF Failed, InFlight
<1> QED BY <1>1, WorkersFinite, FS_Subset DEF LoginInv, HistoryFinite

(* The initial state satisfies the invariant. *)
LEMMA InitInv == Init => LoginInv
<1> SUFFICES ASSUME Init PROVE LoginInv
    OBVIOUS
<1>1. TypeOK
  BY NoIPAssumption DEF Init, TypeOK, Idle, Call, Steps, Never
<1>2. HistoryFinite /\ TableKeepsWindow
  BY FS_EmptySet DEF Init, HistoryFinite, TableKeepsWindow
<1>3. ASSUME NEW ip \in IPs, NEW page, NEW step, step # "idle"
      PROVE  Cardinality(Failed(ip, page)) + Cardinality(InFlight(ip, step))
                 <= Threshold - 1 + Cardinality(Workers)
  <2>1. Failed(ip, page) = {} /\ InFlight(ip, step) = {}
    BY <1>3 DEF Init, Failed, InFlight, Idle, Call
  <2>2. Cardinality({}) = 0 /\ Cardinality(Workers) \in Nat
    BY FS_EmptySet, FS_CardinalityType, WorkersFinite
  <2> QED BY <2>1, <2>2, ThresholdPositive
<1> QED BY <1>1, <1>2, <1>3 DEF LoginInv, Bounded

-----------------------------------------------------------------------------
(* A step that records no failure on the page and starts no call at the    *)
(* step keeps the bound; time may pass.                                    *)
LEMMA QuietStep ==
    ASSUME LoginInv, NEW page, NEW step, Bounded(page, step),
           now' \in Nat, now' >= now,
           \A r \in history' : r.page = page => r \in history,
           \A v \in Workers : bf'[v].step = step
                                  => bf[v].step = step /\ bf'[v].ip = bf[v].ip
    PROVE  Bounded(page, step)'
<1> SUFFICES ASSUME NEW ip \in IPs
             PROVE  Cardinality(Failed(ip, page)') + Cardinality(InFlight(ip, step)')
                        <= Threshold - 1 + Cardinality(Workers)
    BY DEF Bounded
<1>1. Failed(ip, page)' \subseteq Failed(ip, page)
  <2> SUFFICES ASSUME NEW r \in history', r.ip = ip, r.page = page, r.at >= now' - Window
               PROVE  r \in history /\ r.at >= now - Window
      BY DEF Failed, Cutoff
  <2>1. r \in history
    OBVIOUS
  <2>2. r.at \in Nat /\ now \in Nat
    BY <2>1 DEF LoginInv, TypeOK, Row
  <2> QED BY <2>1, <2>2, WindowPositive
<1>2. InFlight(ip, step)' \subseteq InFlight(ip, step)
  BY DEF InFlight
<1>3. IsFiniteSet(Failed(ip, page)) /\ IsFiniteSet(InFlight(ip, step))
  BY CountedFinite
<1>4. IsFiniteSet(Failed(ip, page)') /\ IsFiniteSet(InFlight(ip, step)')
  BY <1>1, <1>2, <1>3, FS_Subset
<1>5. Cardinality(Failed(ip, page)') + Cardinality(InFlight(ip, step)')
          <= Cardinality(Failed(ip, page)) + Cardinality(InFlight(ip, step))
  BY <1>1, <1>2, <1>3, SumShrinks
<1>6. Cardinality(Failed(ip, page)) + Cardinality(InFlight(ip, step))
          <= Threshold - 1 + Cardinality(Workers)
  BY DEF Bounded
<1>7. /\ Cardinality(Failed(ip, page)) \in Nat /\ Cardinality(InFlight(ip, step)) \in Nat
      /\ Cardinality(Failed(ip, page)') \in Nat /\ Cardinality(InFlight(ip, step)') \in Nat
      /\ Cardinality(Workers) \in Nat
  BY <1>3, <1>4, FS_CardinalityType, WorkersFinite
<1> QED BY <1>5, <1>6, <1>7, ThresholdPositive

(* A step that lets one call through because the count is below the        *)
(* threshold keeps the bound: whatever other calls are in flight, they are *)
(* at most one per worker.                                                 *)
LEMMA CheckStep ==
    ASSUME LoginInv, NEW page, NEW step, Bounded(page, step),
           NEW w \in Workers, NEW a \in IPs,
           UNCHANGED <<now, history>>,
           Cardinality(Failed(a, page)) < Threshold,
           \A v \in Workers : v # w => bf'[v] = bf[v],
           bf'[w].ip = a
    PROVE  Bounded(page, step)'
<1> SUFFICES ASSUME NEW ip \in IPs
             PROVE  Cardinality(Failed(ip, page)') + Cardinality(InFlight(ip, step)')
                        <= Threshold - 1 + Cardinality(Workers)
    BY DEF Bounded
<1>1. Failed(ip, page)' = Failed(ip, page)
  BY DEF Failed, Cutoff
<1>2. IsFiniteSet(Failed(ip, page)) /\ IsFiniteSet(InFlight(ip, step))
  BY CountedFinite
<1>3. InFlight(ip, step)' \subseteq Workers
  BY DEF InFlight
<1>4. /\ IsFiniteSet(InFlight(ip, step)')
      /\ Cardinality(InFlight(ip, step)') <= Cardinality(Workers)
  BY <1>3, WorkersFinite, FS_Subset
<1>5. /\ Cardinality(Failed(ip, page)) \in Nat /\ Cardinality(InFlight(ip, step)) \in Nat
      /\ Cardinality(InFlight(ip, step)') \in Nat /\ Cardinality(Workers) \in Nat
  BY <1>2, <1>4, FS_CardinalityType, WorkersFinite
<1>6. CASE ip = a
  BY <1>1, <1>4, <1>5, <1>6, ThresholdPositive
<1>7. CASE ip # a
  <2>1. InFlight(ip, step)' \subseteq InFlight(ip, step)
    BY <1>7 DEF InFlight
  <2>2. Cardinality(InFlight(ip, step)') <= Cardinality(InFlight(ip, step))
    BY <1>2, <2>1, FS_Subset
  <2> QED BY <1>1, <1>5, <2>2, ThresholdPositive DEF Bounded
<1> QED BY <1>6, <1>7

(* A step that records the failure of the call in flight keeps the bound. *)
LEMMA RecordStep ==
    ASSUME LoginInv, NEW page, NEW step, Bounded(page, step),
           NEW w \in Workers, bf[w].step = step, bf[w].ip \in IPs, NEW row,
           UNCHANGED now, history' = history \union {row}, row.ip = bf[w].ip,
           \A v \in Workers : v # w => bf'[v] = bf[v],
           bf'[w].step # step
    PROVE  Bounded(page, step)'
<1> SUFFICES ASSUME NEW ip \in IPs
             PROVE  Cardinality(Failed(ip, page)') + Cardinality(InFlight(ip, step)')
                        <= Threshold - 1 + Cardinality(Workers)
    BY DEF Bounded
<1>1. IsFiniteSet(Failed(ip, page)) /\ IsFiniteSet(InFlight(ip, step))
  BY CountedFinite
<1>2. /\ Cardinality(Failed(ip, page)) + Cardinality(InFlight(ip, step))
             <= Threshold - 1 + Cardinality(Workers)
      /\ Cardinality(Failed(ip, page)) \in Nat /\ Cardinality(InFlight(ip, step)) \in Nat
      /\ Cardinality(Workers) \in Nat
  BY <1>1, FS_CardinalityType, WorkersFinite DEF Bounded
<1>3. CASE ip = bf[w].ip
  <2>1. w \in InFlight(ip, step)
    BY <1>3 DEF InFlight
  <2>2. Failed(ip, page)' \subseteq Failed(ip, page) \union {row}
    BY DEF Failed, Cutoff
  <2>3. InFlight(ip, step)' \subseteq InFlight(ip, step) \ {w}
    BY DEF InFlight
  <2>4. Cardinality(Failed(ip, page)') + Cardinality(InFlight(ip, step)')
            <= Cardinality(Failed(ip, page)) + Cardinality(InFlight(ip, step))
    BY <1>1, <2>1, <2>2, <2>3, SumMoves
  <2>5. IsFiniteSet(Failed(ip, page)') /\ IsFiniteSet(InFlight(ip, step)')
    <3>1. IsFiniteSet(Failed(ip, page) \union {row})
      BY <1>1, FS_AddElement
    <3> QED BY <1>1, <2>2, <2>3, <3>1, FS_Subset
  <2>6. Cardinality(Failed(ip, page)') \in Nat /\ Cardinality(InFlight(ip, step)') \in Nat
    BY <2>5, FS_CardinalityType
  <2> QED BY <1>2, <2>4, <2>6, ThresholdPositive
<1>4. CASE ip # bf[w].ip
  <2>1. Failed(ip, page)' \subseteq Failed(ip, page)
    BY <1>4 DEF Failed, Cutoff
  <2>2. InFlight(ip, step)' \subseteq InFlight(ip, step)
    BY DEF InFlight
  <2>3. Cardinality(Failed(ip, page)') + Cardinality(InFlight(ip, step)')
            <= Cardinality(Failed(ip, page)) + Cardinality(InFlight(ip, step))
    BY <1>1, <2>1, <2>2, SumShrinks
  <2>4. IsFiniteSet(Failed(ip, page)') /\ IsFiniteSet(InFlight(ip, step)')
    BY <1>1, <2>1, <2>2, FS_Subset
  <2>5. Cardinality(Failed(ip, page)') \in Nat /\ Cardinality(InFlight(ip, step)') \in Nat
    BY <2>4, FS_CardinalityType
  <2> QED BY <1>2, <2>3, <2>5, ThresholdPositive
<1> QED BY <1>3, <1>4

-----------------------------------------------------------------------------
(* What should_preblock() and login() count is at least what happened. *)
LEMMA CountIsHonest ==
    ASSUME LoginInv, NEW ip \in IPs
    PROVE  /\ CountRecent(ip) < Threshold
                  => Cardinality(Failed(ip, "proxied")) < Threshold
           /\ CountDashboard(ip) < Threshold
                  => Cardinality(Failed(ip, "dashboard")) < Threshold
<1> DEFINE recent == {r \in attempts : r.ip = ip /\ r.at >= Cutoff}
           board == {r \in attempts : r.ip = ip /\ r.page = "dashboard" /\ r.at >= Cutoff}
<1>1. recent \subseteq history /\ board \subseteq history
  BY DEF LoginInv, TypeOK
<1>2. IsFiniteSet(recent) /\ IsFiniteSet(board)
  BY <1>1, FS_Subset DEF LoginInv, HistoryFinite
<1>3. Failed(ip, "proxied") \subseteq recent /\ Failed(ip, "dashboard") \subseteq board
  BY DEF LoginInv, TableKeepsWindow, Failed
<1>4. /\ IsFiniteSet(Failed(ip, "proxied")) /\ IsFiniteSet(Failed(ip, "dashboard"))
      /\ Cardinality(Failed(ip, "proxied")) <= Cardinality(recent)
      /\ Cardinality(Failed(ip, "dashboard")) <= Cardinality(board)
  BY <1>2, <1>3, FS_Subset
<1>5. /\ Cardinality(recent) \in Nat /\ Cardinality(board) \in Nat
      /\ Cardinality(Failed(ip, "proxied")) \in Nat
      /\ Cardinality(Failed(ip, "dashboard")) \in Nat
  BY <1>2, <1>4, FS_CardinalityType
<1>6. CountRecent(ip) = Cardinality(recent) /\ CountDashboard(ip) = Cardinality(board)
  BY DEF CountRecent, CountDashboard
<1> HIDE DEF recent, board
<1> QED BY <1>4, <1>5, <1>6, ThresholdPositive

(* An insert adds the same row to the table and to its history. *)
LEMMA InsertFacts ==
    ASSUME LoginInv, NEW a \in IPs, NEW page \in Pages, InsertAttempt(a, page), UNCHANGED now
    PROVE  \E row \in Row :
               /\ row.ip = a /\ row.page = page
               /\ history' = history \union {row} /\ attempts' = attempts \union {row}
               /\ lastId' = lastId + 1
               /\ history' \subseteq Row /\ attempts' \subseteq history'
               /\ HistoryFinite' /\ TableKeepsWindow'
<1> DEFINE row == [id |-> lastId + 1, ip |-> a, page |-> page, at |-> now]
<1>1. row \in Row /\ row.ip = a /\ row.page = page
  BY DEF LoginInv, TypeOK, Row, Pages
<1>2. /\ history' = history \union {row} /\ attempts' = attempts \union {row}
      /\ lastId' = lastId + 1
  BY DEF InsertAttempt
<1> HIDE DEF row
<1>3. history' \subseteq Row /\ attempts' \subseteq history'
  BY <1>1, <1>2 DEF LoginInv, TypeOK
<1>4. HistoryFinite'
  BY <1>2, FS_AddElement DEF LoginInv, HistoryFinite
<1>5. TableKeepsWindow'
  BY <1>2 DEF LoginInv, TableKeepsWindow, Cutoff
<1> QED BY <1>1, <1>2, <1>3, <1>4, <1>5

(* Clean-up deletes nothing the window still holds. *)
LEMMA CleanupFacts ==
    ASSUME LoginInv, attempts' = Unexpired(attempts), UNCHANGED <<now, history>>
    PROVE  attempts' \subseteq history' /\ HistoryFinite' /\ TableKeepsWindow'
<1>1. attempts' \subseteq history'
  BY DEF LoginInv, TypeOK, Unexpired
<1>2. TableKeepsWindow'
  <2> SUFFICES ASSUME NEW r \in history, r.at >= Cutoff PROVE r \in attempts'
      BY DEF TableKeepsWindow, Cutoff
  <2>1. r.at \in Nat /\ Cutoff \in Int
    BY WindowPositive DEF LoginInv, TypeOK, Row, Cutoff
  <2> QED BY <2>1 DEF LoginInv, TableKeepsWindow, Unexpired
<1> QED BY <1>1, <1>2 DEF LoginInv, HistoryFinite

-----------------------------------------------------------------------------
(* A step that leaves the table, its history and the clock alone. *)
LEMMA TableUnchanged ==
    ASSUME LoginInv, UNCHANGED <<now, attempts, history>>
    PROVE  HistoryFinite' /\ TableKeepsWindow'
BY DEF LoginInv, HistoryFinite, TableKeepsWindow, Cutoff

(* Every step preserves the invariant. *)
LEMMA StepInv == LoginInv /\ [Next]_vars => LoginInv'
<1> SUFFICES ASSUME LoginInv, [Next]_vars PROVE LoginInv'
    OBVIOUS
<1> USE NoIPAssumption, ThresholdPositive, WindowPositive
    DEF At, Go, Idle, Call, table, ghosts
<1>1. /\ TypeOK /\ now \in Nat /\ now <= now
      /\ Bounded("proxied", "cleared") /\ Bounded("dashboard", "password")
  BY DEF LoginInv, TypeOK
<1>2. ASSUME Tick PROVE LoginInv'
  <2>1. /\ now' \in Nat /\ now' >= now /\ UNCHANGED <<attempts, history, bf>>
    BY <1>1, <1>2 DEF Tick
  <2>2. TypeOK'
    BY <1>1, <1>2 DEF Tick, TypeOK
  <2>3. TableKeepsWindow' /\ HistoryFinite'
    <3>1. ASSUME NEW r \in history, r.at >= now' - Window PROVE r.at >= now - Window
      BY <1>1, <2>1, <3>1 DEF TypeOK, Row
    <3> QED BY <2>1, <3>1 DEF LoginInv, HistoryFinite, TableKeepsWindow, Cutoff
  <2>4. Bounded("proxied", "cleared")' /\ Bounded("dashboard", "password")'
    BY <1>1, <2>1, QuietStep
  <2> QED BY <2>2, <2>3, <2>4 DEF LoginInv
<1>3. ASSUME NEW w \in Workers, NEW a \in IPs, PreblockCleanup(w, a) PROVE LoginInv'
  <2>1. /\ bf' = [bf EXCEPT ![w] = Call("count", a, 0)]
        /\ attempts' = Unexpired(attempts) /\ UNCHANGED <<now, history>>
    BY <1>3 DEF PreblockCleanup
  <2>2. attempts' \subseteq history' /\ HistoryFinite' /\ TableKeepsWindow'
    BY <2>1, CleanupFacts
  <2>3. TypeOK'
    BY <1>1, <1>3, <2>2 DEF PreblockCleanup, TypeOK, Steps
  <2>4. \A v \in Workers : /\ v # w => bf'[v] = bf[v]
                           /\ bf'[w].step = "count"
    BY <1>1, <2>1 DEF TypeOK
  <2>5. Bounded("proxied", "cleared")' /\ Bounded("dashboard", "password")'
    BY <1>1, <2>1, <2>4, QuietStep
  <2> QED BY <2>2, <2>3, <2>5 DEF LoginInv
<1>4. ASSUME NEW w \in Workers, PreblockCount(w) PROVE LoginInv'
  <2> DEFINE a == bf[w].ip
  <2>1. /\ a \in IPs /\ UNCHANGED <<now, attempts, history>>
        /\ \A v \in Workers : v # w => bf'[v] = bf[v]
    BY <1>1, <1>4 DEF PreblockCount, TypeOK
  <2>2. TypeOK'
    BY <1>1, <1>4 DEF PreblockCount, TypeOK, Steps
  <2>3. HistoryFinite' /\ TableKeepsWindow'
    BY <2>1, TableUnchanged
  <2>4. CASE CountRecent(a) >= Threshold
    <3>1. bf'[w].step = "idle"
      BY <1>1, <1>4, <2>4 DEF PreblockCount, TypeOK
    <3>2. Bounded("proxied", "cleared")' /\ Bounded("dashboard", "password")'
      BY <1>1, <2>1, <3>1, QuietStep
    <3> QED BY <2>2, <2>3, <3>2 DEF LoginInv
  <2>5. CASE ~(CountRecent(a) >= Threshold)
    <3>1. bf'[w].step = "cleared" /\ bf'[w].ip = a
      BY <1>1, <1>4, <2>5 DEF PreblockCount, TypeOK
    <3>2. CountRecent(a) < Threshold
      <4>1. IsFiniteSet({r \in attempts : r.ip = a /\ r.at >= Cutoff})
        BY <1>1, FS_Subset DEF LoginInv, HistoryFinite, TypeOK
      <4>2. CountRecent(a) \in Nat
        BY <4>1, FS_CardinalityType DEF CountRecent
      <4> QED BY <2>5, <4>2
    <3>3. Cardinality(Failed(a, "proxied")) < Threshold
      BY <2>1, <3>2, CountIsHonest
    <3>4. Bounded("proxied", "cleared")'
      BY <1>1, <2>1, <3>1, <3>3, CheckStep
    <3>5. Bounded("dashboard", "password")'
      BY <1>1, <2>1, <3>1, QuietStep
    <3> QED BY <2>2, <2>3, <3>4, <3>5 DEF LoginInv
  <2> QED BY <2>4, <2>5
<1>5. ASSUME NEW w \in Workers,
             Settle(w) \/ DetectRefused(w) \/ LoginSucceeds(w) \/ Crash(w)
      PROVE  LoginInv'
  <2>1. UNCHANGED <<now, attempts, history>>
        /\ bf'[w].step = "idle" /\ \A v \in Workers : v # w => bf'[v] = bf[v]
    BY <1>1, <1>5 DEF Settle, DetectRefused, LoginSucceeds, Crash, TypeOK
  <2>2. TypeOK'
    <3>1. /\ bf' = [bf EXCEPT ![w] = Idle]
          /\ UNCHANGED <<now, lastId, attempts, history, judged, flaggedAt>>
      BY <1>5 DEF Settle, DetectRefused, LoginSucceeds, Crash
    <3> QED BY <1>1, <3>1 DEF TypeOK, Steps
  <2>3. HistoryFinite' /\ TableKeepsWindow'
    BY <2>1, TableUnchanged
  <2>4. Bounded("proxied", "cleared")' /\ Bounded("dashboard", "password")'
    BY <1>1, <2>1, QuietStep
  <2> QED BY <2>2, <2>3, <2>4 DEF LoginInv
<1>6. ASSUME NEW w \in Workers, DetectInsert(w) PROVE LoginInv'
  <2> DEFINE a == bf[w].ip
  <2>1. /\ bf[w].step = "cleared" /\ a \in IPs /\ bf'[w].step = "cleanup"
        /\ UNCHANGED now /\ InsertAttempt(a, "proxied")
        /\ \A v \in Workers : v # w => bf'[v] = bf[v]
    BY <1>1, <1>6 DEF DetectInsert, TypeOK
  <2>2. PICK row \in Row :
            /\ row.ip = a /\ row.page = "proxied"
            /\ history' = history \union {row} /\ attempts' = attempts \union {row}
            /\ lastId' = lastId + 1
            /\ history' \subseteq Row /\ attempts' \subseteq history'
            /\ HistoryFinite' /\ TableKeepsWindow'
    BY <2>1, InsertFacts DEF Pages
  <2>3. TypeOK'
    <3>1. /\ bf' = [bf EXCEPT ![w] = Call("cleanup", a, lastId + 1)]
          /\ UNCHANGED <<now, judged, flaggedAt>>
      BY <1>6 DEF DetectInsert
    <3>2. lastId' \in Nat
      BY <1>1, <2>2 DEF TypeOK
    <3>3. /\ bf' \in [Workers -> [step : Steps, ip : IPs \union {NoIP}, row : Nat]]
          /\ \A v \in Workers : bf'[v].step # "idle" => bf'[v].ip \in IPs
      BY <1>1, <2>1, <3>1, <3>2 DEF TypeOK, Steps
    <3> QED BY <1>1, <2>2, <3>1, <3>2, <3>3 DEF TypeOK
  <2>4. Bounded("proxied", "cleared")'
    BY <1>1, <2>1, <2>2, RecordStep
  <2>5. Bounded("dashboard", "password")'
    <3>1. \A r \in history' : r.page = "dashboard" => r \in history
      BY <2>2
    <3> QED BY <1>1, <2>1, <3>1, QuietStep
  <2> QED BY <2>2, <2>3, <2>4, <2>5 DEF LoginInv
<1>7. ASSUME NEW w \in Workers, DetectCleanup(w) PROVE LoginInv'
  <2>1. /\ attempts' = Unexpired(attempts) /\ UNCHANGED <<now, history>>
        /\ bf'[w].step = "tally" /\ \A v \in Workers : v # w => bf'[v] = bf[v]
    BY <1>1, <1>7 DEF DetectCleanup, TypeOK
  <2>2. attempts' \subseteq history' /\ HistoryFinite' /\ TableKeepsWindow'
    BY <2>1, CleanupFacts
  <2>3. TypeOK'
    BY <1>1, <1>7, <2>2 DEF DetectCleanup, TypeOK, Steps
  <2>4. Bounded("proxied", "cleared")' /\ Bounded("dashboard", "password")'
    BY <1>1, <2>1, QuietStep
  <2> QED BY <2>2, <2>3, <2>4 DEF LoginInv
<1>8. ASSUME NEW w \in Workers, DetectCount(w) PROVE LoginInv'
  <2>1. /\ UNCHANGED <<now, attempts, history>>
        /\ bf'[w].step = "idle" /\ \A v \in Workers : v # w => bf'[v] = bf[v]
    BY <1>1, <1>8 DEF DetectCount, TypeOK
  <2>2. TypeOK'
    BY <1>1, <1>8 DEF DetectCount, TypeOK, Steps
  <2>3. HistoryFinite' /\ TableKeepsWindow'
    BY <2>1, TableUnchanged
  <2>4. Bounded("proxied", "cleared")' /\ Bounded("dashboard", "password")'
    BY <1>1, <2>1, QuietStep
  <2> QED BY <2>2, <2>3, <2>4 DEF LoginInv
<1>9. ASSUME NEW w \in Workers, NEW a \in IPs, LoginCount(w, a) PROVE LoginInv'
  <2>1. /\ UNCHANGED <<now, attempts, history>> /\ CountDashboard(a) < Threshold
        /\ bf'[w].step = "password" /\ bf'[w].ip = a
        /\ \A v \in Workers : v # w => bf'[v] = bf[v]
    BY <1>1, <1>9 DEF LoginCount, TypeOK
  <2>2. TypeOK'
    BY <1>1, <1>9 DEF LoginCount, TypeOK, Steps
  <2>3. HistoryFinite' /\ TableKeepsWindow'
    BY <2>1, TableUnchanged
  <2>4. Bounded("proxied", "cleared")'
    BY <1>1, <2>1, QuietStep
  <2>5. Bounded("dashboard", "password")'
    BY <1>1, <2>1, CountIsHonest, CheckStep
  <2> QED BY <2>2, <2>3, <2>4, <2>5 DEF LoginInv
<1>10. ASSUME NEW w \in Workers, LoginFails(w) PROVE LoginInv'
  <2> DEFINE a == bf[w].ip
  <2>1. /\ bf[w].step = "password" /\ a \in IPs /\ bf'[w].step = "idle"
        /\ UNCHANGED now /\ InsertAttempt(a, "dashboard")
        /\ \A v \in Workers : v # w => bf'[v] = bf[v]
    BY <1>1, <1>10 DEF LoginFails, TypeOK
  <2>2. PICK row \in Row :
            /\ row.ip = a /\ row.page = "dashboard"
            /\ history' = history \union {row} /\ attempts' = attempts \union {row}
            /\ lastId' = lastId + 1
            /\ history' \subseteq Row /\ attempts' \subseteq history'
            /\ HistoryFinite' /\ TableKeepsWindow'
    BY <2>1, InsertFacts DEF Pages
  <2>3. TypeOK'
    BY <1>1, <1>10, <2>2 DEF LoginFails, TypeOK, Steps
  <2>4. Bounded("dashboard", "password")'
    BY <1>1, <2>1, <2>2, RecordStep
  <2>5. Bounded("proxied", "cleared")'
    <3>1. \A r \in history' : r.page = "proxied" => r \in history
      BY <2>2
    <3> QED BY <1>1, <2>1, <3>1, QuietStep
  <2> QED BY <2>2, <2>3, <2>4, <2>5 DEF LoginInv
<1>11. ASSUME UNCHANGED vars PROVE LoginInv'
  BY <1>11 DEF vars, LoginInv, TypeOK, HistoryFinite, TableKeepsWindow, Bounded, Failed,
               InFlight, Cutoff
<1>12. ASSUME NEW w \in Workers, NEW a \in IPs, LoginThrottled(w, a) PROVE LoginInv'
  BY <1>11, <1>12 DEF LoginThrottled
<1> QED
  BY <1>2, <1>3, <1>4, <1>5, <1>6, <1>7, <1>8, <1>9, <1>10, <1>11, <1>12
  DEF Next, WorkerStep

-----------------------------------------------------------------------------
(* The invariant holds in every reachable state. *)
THEOREM LoginInvariant == Spec => []LoginInv
<1>1. Init => LoginInv
  BY InitInv
<1>2. LoginInv /\ [Next]_vars => LoginInv'
  BY StepInv
<1> QED BY <1>1, <1>2, PTL DEF Spec

(* Type correctness of the login_attempts table and its callers. *)
THEOREM LoginTypeCorrect == Spec => []TypeOK
<1>1. LoginInv => TypeOK
  BY DEF LoginInv
<1> QED BY <1>1, LoginInvariant, PTL

(* However many workers race between should_preblock() and detect(), in no *)
(* window do more failed logins of one client reach upstream than the      *)
(* threshold lets through plus one per worker.                             *)
THEOREM UpstreamFailuresAreBounded == Spec => []UpstreamFailuresBounded
<1>1. LoginInv => UpstreamFailuresBounded
  BY DEF LoginInv, Bounded, UpstreamFailuresBounded
<1> QED BY <1>1, LoginInvariant, PTL

(* The same for the guesses at the dashboard's own login form (login()).   *)
THEOREM DashboardGuessesAreBounded == Spec => []DashboardGuessesBounded
<1>1. LoginInv => DashboardGuessesBounded
  BY DEF LoginInv, Bounded, DashboardGuessesBounded
<1> QED BY <1>1, LoginInvariant, PTL

-----------------------------------------------------------------------------
(* Why a burst is never missed.  Row ids are handed out in the order of    *)
(* insertion, so a new row counts towards no earlier attempt: from the     *)
(* moment detect() has judged an attempt, the attempts up to it that the   *)
(* window still holds can only become fewer.  And the table keeps the      *)
(* window, so what detect() counts is at least that many.                  *)
RowsNumbered ==
    /\ \A r \in history : r.id <= lastId /\ r.at <= now
    /\ \A r, s \in history : r.id = s.id => r = s

\* A detect() call that has inserted its row and has not counted yet.
DetectAwaitsRow ==
    \A w \in Workers :
        bf[w].step \in {"cleanup", "tally"} =>
            \E r \in history : r.id = bf[w].row /\ r.ip = bf[w].ip

JudgedNumbered == \A i \in judged : i <= lastId

FlagsNotAhead == \A ip \in IPs : flaggedAt[ip] <= now

BurstInv ==
    /\ RowsNumbered
    /\ DetectAwaitsRow
    /\ JudgedNumbered
    /\ FlagsNotAhead
    /\ BurstFlagged

\* The attempts of r's client up to r that the window still holds.
UpTo(r) == {s \in history : s.ip = r.ip /\ s.at >= Cutoff /\ s.id <= r.id}

(* A step judges no attempt and clears no flag; the rows it inserts are    *)
(* numbered after those there are, and time may pass.                      *)
LEMMA NoVerdictKeepsBurst ==
    ASSUME LoginInv, BurstInv, UNCHANGED <<judged, flaggedAt>>,
           now' \in Nat, now' >= now,
           \A s \in history' : s \in history \/ s.id = lastId + 1
    PROVE  BurstFlagged'
<1>1. /\ now \in Nat /\ lastId \in Nat /\ history \subseteq Row /\ HistoryFinite
  BY DEF LoginInv, TypeOK
<1> SUFFICES ASSUME NEW r \in history', r.id \in judged,
                    Cardinality(UpTo(r)') >= Threshold
             PROVE  flaggedAt[r.ip] >= r.at
    BY DEF BurstFlagged, UpTo
<1>2. r.id <= lastId /\ r \in history
  BY <1>1 DEF BurstInv, JudgedNumbered
<1>3. UpTo(r)' \subseteq UpTo(r)
  <2> SUFFICES ASSUME NEW s \in history', s.ip = r.ip, s.at >= now' - Window, s.id <= r.id
               PROVE  s \in history /\ s.at >= now - Window
      BY DEF UpTo, Cutoff
  <2>1. s \in history
    BY <1>1, <1>2 DEF Row
  <2> QED BY <2>1, <1>1, WindowPositive DEF Row
<1>4. IsFiniteSet(UpTo(r))
  BY <1>1, FS_Subset DEF UpTo, HistoryFinite
<1>5. Cardinality(UpTo(r)') <= Cardinality(UpTo(r))
  BY <1>3, <1>4, FS_Subset
<1>6. Cardinality(UpTo(r)') \in Nat /\ Cardinality(UpTo(r)) \in Nat
  BY <1>3, <1>4, FS_Subset, FS_CardinalityType
<1>7. Cardinality(UpTo(r)) >= Threshold
  BY <1>5, <1>6, ThresholdPositive
<1> QED BY <1>2, <1>7 DEF BurstInv, BurstFlagged, UpTo

(* The verdict of detect(): it counts at least the attempts up to its own. *)
LEMMA VerdictKeepsBurst ==
    ASSUME LoginInv, BurstInv, NEW w \in Workers, DetectCount(w)
    PROVE  BurstFlagged' /\ FlagsNotAhead'
<1> DEFINE a == bf[w].ip
           recent == {s \in attempts : s.ip = a /\ s.at >= Cutoff}
<1>1. /\ now \in Nat /\ history \subseteq Row /\ HistoryFinite /\ attempts \subseteq history
      /\ flaggedAt \in [IPs -> Nat \union {Never}] /\ a \in IPs
      /\ bf[w].step = "tally" /\ UNCHANGED <<now, history>>
  BY DEF LoginInv, TypeOK, DetectCount, At, table
<1>2. /\ judged' = judged \union {bf[w].row}
      /\ flaggedAt' = IF CountRecent(a) >= Threshold
                      THEN [flaggedAt EXCEPT ![a] = now] ELSE flaggedAt
  BY DEF DetectCount
<1>3. \A ip \in IPs : flaggedAt'[ip] = flaggedAt[ip] \/ flaggedAt'[ip] = now
  BY <1>1, <1>2
<1>4. FlagsNotAhead'
  BY <1>1, <1>3 DEF BurstInv, FlagsNotAhead
<1>5. ASSUME NEW r \in history, r.id \in judged', Cardinality(UpTo(r)) >= Threshold
      PROVE  flaggedAt'[r.ip] >= r.at
  <2>1. r.ip \in IPs /\ r.at \in Nat /\ r.at <= now
    BY <1>1 DEF Row, BurstInv, RowsNumbered
  <2>2. CASE r.id \in judged
    <3>1. flaggedAt[r.ip] >= r.at
      BY <1>5, <2>2 DEF BurstInv, BurstFlagged, UpTo
    <3> QED BY <1>1, <1>3, <2>1, <3>1
  <2>3. CASE r.id = bf[w].row
    <3>1. PICK s \in history : s.id = bf[w].row /\ s.ip = a
      BY <1>1 DEF BurstInv, DetectAwaitsRow
    <3>2. r.ip = a
      BY <2>3, <3>1 DEF BurstInv, RowsNumbered
    <3>3. UpTo(r) \subseteq recent
      BY <3>2 DEF UpTo, LoginInv, TableKeepsWindow
    <3>4. IsFiniteSet(recent)
      BY <1>1, FS_Subset DEF HistoryFinite
    <3>5. /\ Cardinality(UpTo(r)) <= Cardinality(recent)
          /\ Cardinality(UpTo(r)) \in Nat /\ Cardinality(recent) \in Nat
      BY <3>3, <3>4, FS_Subset, FS_CardinalityType
    <3>6. CountRecent(a) = Cardinality(recent)
      BY DEF CountRecent
    <3> HIDE DEF recent
    <3>7. CountRecent(a) >= Threshold
      BY <1>5, <3>5, <3>6, ThresholdPositive
    <3>8. flaggedAt'[a] = now
      BY <1>1, <1>2, <3>7
    <3> QED BY <2>1, <3>2, <3>8
  <2> QED BY <1>2, <1>5, <2>2, <2>3
<1>6. BurstFlagged'
  <2> SUFFICES ASSUME NEW r \in history', r.id \in judged', Cardinality(UpTo(r)') >= Threshold
               PROVE  flaggedAt'[r.ip] >= r.at
      BY DEF BurstFlagged, UpTo
  <2>1. r \in history /\ UpTo(r)' = UpTo(r)
    BY <1>1 DEF UpTo, Cutoff
  <2> QED BY <1>5, <2>1
<1> QED BY <1>4, <1>6

(* An insert numbers its row after every other. *)
LEMMA InsertKeepsNumbers ==
    ASSUME LoginInv, BurstInv, NEW a \in IPs, NEW page \in Pages,
           InsertAttempt(a, page), UNCHANGED now
    PROVE  /\ RowsNumbered' /\ history \subseteq history' /\ lastId' = lastId + 1
           /\ \A s \in history' : s \in history \/ s.id = lastId + 1
           /\ \E r \in history' : r.id = lastId + 1 /\ r.ip = a
<1> DEFINE row == [id |-> lastId + 1, ip |-> a, page |-> page, at |-> now]
<1>1. row.id = lastId + 1 /\ row.ip = a /\ row.at = now
  OBVIOUS
<1>2. history' = history \union {row} /\ lastId' = lastId + 1
  BY DEF InsertAttempt
<1> HIDE DEF row
<1>3. now \in Nat /\ lastId \in Nat /\ history \subseteq Row
  BY DEF LoginInv, TypeOK
<1>4. \A r \in history' : r.id <= lastId' /\ r.at <= now'
  BY <1>1, <1>2, <1>3 DEF BurstInv, RowsNumbered, Row
<1>5. \A r \in history : r.id # row.id
  BY <1>1, <1>3 DEF BurstInv, RowsNumbered, Row
<1>6. \A r, s \in history' : r.id = s.id => r = s
  BY <1>2, <1>5 DEF BurstInv, RowsNumbered
<1> QED BY <1>1, <1>2, <1>4, <1>6 DEF RowsNumbered

(* Every step preserves it. *)
LEMMA BurstStep == LoginInv /\ BurstInv /\ [Next]_vars => BurstInv'
<1> SUFFICES ASSUME LoginInv, BurstInv, [Next]_vars PROVE BurstInv'
    OBVIOUS
<1> USE DEF At, Go, Idle, Call, table, ghosts
<1>1. /\ now \in Nat /\ now >= now /\ lastId \in Nat /\ history \subseteq Row
      /\ bf \in [Workers -> [step : Steps, ip : IPs \union {NoIP}, row : Nat]]
      /\ \A v \in Workers : bf[v].step # "idle" => bf[v].ip \in IPs
      /\ judged \subseteq Nat /\ flaggedAt \in [IPs -> Nat \union {Never}]
  BY DEF LoginInv, TypeOK
<1>2. ASSUME Tick PROVE BurstInv'
  <2>1. /\ now' \in Nat /\ now' >= now
        /\ UNCHANGED <<lastId, attempts, history, bf, judged, flaggedAt>>
    BY <1>1, <1>2 DEF Tick
  <2>2. RowsNumbered' /\ DetectAwaitsRow' /\ JudgedNumbered'
    BY <1>1, <2>1 DEF BurstInv, RowsNumbered, DetectAwaitsRow, JudgedNumbered, Row
  <2>3. FlagsNotAhead'
    BY <1>1, <2>1 DEF BurstInv, FlagsNotAhead, Never
  <2>4. BurstFlagged'
    BY <2>1, NoVerdictKeepsBurst
  <2> QED BY <2>2, <2>3, <2>4 DEF BurstInv
<1>3. ASSUME NEW w \in Workers, UNCHANGED <<now, lastId, history, judged, flaggedAt>>,
             \A v \in Workers : v # w => bf'[v] = bf[v],
             \/ bf'[w].step \notin {"cleanup", "tally"}
             \/ /\ bf[w].step \in {"cleanup", "tally"}
                /\ bf'[w].row = bf[w].row /\ bf'[w].ip = bf[w].ip
      PROVE  BurstInv'
  <2>1. RowsNumbered' /\ JudgedNumbered' /\ FlagsNotAhead'
    BY <1>3 DEF BurstInv, RowsNumbered, JudgedNumbered, FlagsNotAhead
  <2>2. DetectAwaitsRow'
    BY <1>3 DEF BurstInv, DetectAwaitsRow
  <2>3. BurstFlagged'
    BY <1>1, <1>3, NoVerdictKeepsBurst
  <2> QED BY <2>1, <2>2, <2>3 DEF BurstInv
<1>4. ASSUME NEW w \in Workers,
             \/ \E a \in IPs : PreblockCleanup(w, a) \/ LoginCount(w, a)
             \/ PreblockCount(w) \/ Settle(w) \/ DetectRefused(w)
             \/ LoginSucceeds(w) \/ Crash(w)
      PROVE  BurstInv'
  <2>1. UNCHANGED <<now, lastId, history, judged, flaggedAt>>
    BY <1>4 DEF PreblockCleanup, LoginCount, PreblockCount, Settle, DetectRefused,
                LoginSucceeds, Crash
  <2>2. /\ bf'[w].step \notin {"cleanup", "tally"}
        /\ \A v \in Workers : v # w => bf'[v] = bf[v]
    <3>1. CASE \E a \in IPs : PreblockCleanup(w, a)
      BY <1>1, <3>1 DEF PreblockCleanup
    <3>2. CASE \E a \in IPs : LoginCount(w, a)
      BY <1>1, <3>2 DEF LoginCount
    <3>3. CASE PreblockCount(w)
      BY <1>1, <3>3 DEF PreblockCount
    <3>4. CASE Settle(w) \/ DetectRefused(w) \/ LoginSucceeds(w) \/ Crash(w)
      BY <1>1, <3>4 DEF Settle, DetectRefused, LoginSucceeds, Crash
    <3> QED BY <1>4, <3>1, <3>2, <3>3, <3>4
  <2> QED BY <1>3, <2>1, <2>2
<1>5. ASSUME NEW w \in Workers, DetectCleanup(w) PROVE BurstInv'
  <2>1. /\ bf' = [bf EXCEPT ![w] = Call("tally", bf[w].ip, bf[w].row)]
        /\ bf[w].step = "cleanup"
        /\ UNCHANGED <<now, lastId, history, judged, flaggedAt>>
    BY <1>5 DEF DetectCleanup
  <2>2. /\ bf'[w].row = bf[w].row /\ bf'[w].ip = bf[w].ip
        /\ \A v \in Workers : v # w => bf'[v] = bf[v]
    BY <1>1, <2>1
  <2> QED BY <1>3, <2>1, <2>2
<1>6. ASSUME NEW w \in Workers, DetectInsert(w) PROVE BurstInv'
  <2>1. /\ bf[w].ip \in IPs /\ UNCHANGED <<now, judged, flaggedAt>>
        /\ InsertAttempt(bf[w].ip, "proxied")
        /\ bf' = [bf EXCEPT ![w] = Call("cleanup", bf[w].ip, lastId + 1)]
    BY <1>1, <1>6 DEF DetectInsert
  <2>2. /\ RowsNumbered' /\ history \subseteq history' /\ lastId' = lastId + 1
        /\ \A s \in history' : s \in history \/ s.id = lastId + 1
        /\ \E r \in history' : r.id = lastId + 1 /\ r.ip = bf[w].ip
    BY <2>1, InsertKeepsNumbers DEF Pages
  <2>3. JudgedNumbered' /\ FlagsNotAhead'
    BY <1>1, <2>1, <2>2 DEF BurstInv, JudgedNumbered, FlagsNotAhead
  <2>4. DetectAwaitsRow'
    <3>1. /\ bf'[w].row = lastId + 1 /\ bf'[w].ip = bf[w].ip
          /\ \A v \in Workers : v # w => bf'[v] = bf[v]
      BY <1>1, <2>1
    <3> QED BY <2>2, <3>1 DEF BurstInv, DetectAwaitsRow
  <2>5. BurstFlagged'
    BY <1>1, <2>1, <2>2, NoVerdictKeepsBurst
  <2> QED BY <2>2, <2>3, <2>4, <2>5 DEF BurstInv
<1>7. ASSUME NEW w \in Workers, LoginFails(w) PROVE BurstInv'
  <2>1. /\ bf[w].ip \in IPs /\ UNCHANGED <<now, judged, flaggedAt>>
        /\ InsertAttempt(bf[w].ip, "dashboard")
        /\ bf' = [bf EXCEPT ![w] = Idle]
    BY <1>1, <1>7 DEF LoginFails
  <2>2. /\ RowsNumbered' /\ history \subseteq history' /\ lastId' = lastId + 1
        /\ \A s \in history' : s \in history \/ s.id = lastId + 1
    BY <2>1, InsertKeepsNumbers DEF Pages
  <2>3. JudgedNumbered' /\ FlagsNotAhead'
    BY <1>1, <2>1, <2>2 DEF BurstInv, JudgedNumbered, FlagsNotAhead
  <2>4. DetectAwaitsRow'
    <3>1. /\ bf'[w].step = "idle" /\ \A v \in Workers : v # w => bf'[v] = bf[v]
      BY <1>1, <2>1
    <3> QED BY <2>2, <3>1 DEF BurstInv, DetectAwaitsRow
  <2>5. BurstFlagged'
    BY <1>1, <2>1, <2>2, NoVerdictKeepsBurst
  <2> QED BY <2>2, <2>3, <2>4, <2>5 DEF BurstInv
<1>8. ASSUME NEW w \in Workers, DetectCount(w) PROVE BurstInv'
  <2>1. /\ bf[w].step = "tally" /\ UNCHANGED <<now, lastId, history>>
        /\ judged' = judged \union {bf[w].row} /\ bf' = [bf EXCEPT ![w] = Idle]
    BY <1>8 DEF DetectCount
  <2>2. RowsNumbered'
    BY <2>1 DEF BurstInv, RowsNumbered
  <2>3. JudgedNumbered'
    BY <2>1 DEF BurstInv, JudgedNumbered, DetectAwaitsRow, RowsNumbered
  <2>4. DetectAwaitsRow'
    <3>1. /\ bf'[w].step = "idle" /\ \A v \in Workers : v # w => bf'[v] = bf[v]
      BY <1>1, <2>1
    <3> QED BY <2>1, <3>1 DEF BurstInv, DetectAwaitsRow
  <2> QED BY <1>8, <2>2, <2>3, <2>4, VerdictKeepsBurst DEF BurstInv
<1>9. ASSUME UNCHANGED vars PROVE BurstInv'
  BY <1>9 DEF vars, BurstInv, RowsNumbered, DetectAwaitsRow, JudgedNumbered, FlagsNotAhead,
              BurstFlagged, Cutoff
<1>10. ASSUME NEW w \in Workers, NEW a \in IPs, LoginThrottled(w, a) PROVE BurstInv'
  BY <1>9, <1>10 DEF LoginThrottled
<1> QED
  BY <1>2, <1>4, <1>5, <1>6, <1>7, <1>8, <1>9, <1>10 DEF Next, WorkerStep

(* In every reachable state, rows are numbered in the order of insertion   *)
(* and no judged burst is without its finding.                             *)
THEOREM BurstInvariant == Spec => []BurstInv
<1>1. Init => BurstInv
  BY DEF Init, BurstInv, RowsNumbered, DetectAwaitsRow, JudgedNumbered, FlagsNotAhead,
         BurstFlagged, Idle, Call, Never
<1>2. LoginInv /\ BurstInv /\ [Next]_vars => BurstInv'
  BY BurstStep
<1> QED BY <1>1, <1>2, LoginInvariant, PTL DEF Spec

(* However workers interleave their inserts, clean-ups and counts, once    *)
(* detect() has judged an attempt that completes a burst, a Brute Force    *)
(* finding at or after it has been returned.                               *)
THEOREM BurstsAreFlagged == Spec => []BurstFlagged
<1>1. BurstInv => BurstFlagged
  BY DEF BurstInv
<1> QED BY <1>1, BurstInvariant, PTL
=============================================================================
