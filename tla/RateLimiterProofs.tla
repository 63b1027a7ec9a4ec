-------------------------- MODULE RateLimiterProofs --------------------------
(***************************************************************************)
(* Theorems about RateLimiter, for any number of threads and clients, any  *)
(* limit and any window.                                                   *)
(***************************************************************************)
EXTENDS RateLimiter, FiniteSetTheorems, TLAPS

(* Smaller sets have a smaller sum: nothing new happened, nothing started. *)
LEMMA SumShrinks ==
    ASSUME NEW S, NEW T, NEW S1 \in SUBSET S, NEW T1 \in SUBSET T,
           IsFiniteSet(S), IsFiniteSet(T)
    PROVE  Cardinality(S1) + Cardinality(T1) <= Cardinality(S) + Cardinality(T)
<1>1. IsFiniteSet(S1) /\ IsFiniteSet(T1)
      /\ Cardinality(S1) <= Cardinality(S) /\ Cardinality(T1) <= Cardinality(T)
  BY FS_Subset
<1>2. /\ Cardinality(S) \in Nat /\ Cardinality(T) \in Nat
      /\ Cardinality(S1) \in Nat /\ Cardinality(T1) \in Nat
  BY <1>1, FS_CardinalityType
<1> QED BY <1>1, <1>2

(* What happens is no longer under way: the sum is kept.                   *)
LEMMA SumMoves ==
    ASSUME NEW S, NEW T, NEW x, NEW y \in T, NEW S1, NEW T1,
           IsFiniteSet(S), IsFiniteSet(T),
           S1 \subseteq S \union {x}, T1 \subseteq T \ {y}
    PROVE  Cardinality(S1) + Cardinality(T1) <= Cardinality(S) + Cardinality(T)
<1>1. /\ IsFiniteSet(S \union {x})
      /\ Cardinality(S \union {x}) <= Cardinality(S) + 1
  <2>1. Cardinality(S) \in Nat
    BY FS_CardinalityType
  <2>2. /\ IsFiniteSet(S \cup {x})
        /\ Cardinality(S \cup {x}) =
              IF x \in S THEN Cardinality(S) ELSE Cardinality(S) + 1
    BY FS_AddElement, Zenon
  <2> QED BY <2>1, <2>2
<1>2. /\ IsFiniteSet(T \ {y})
      /\ Cardinality(T \ {y}) = Cardinality(T) - 1
  BY FS_RemoveElement
<1>3. Cardinality(S1) + Cardinality(T1)
          <= Cardinality(S \union {x}) + Cardinality(T \ {y})
  BY <1>1, <1>2, SumShrinks
<1>4. /\ Cardinality(S) \in Nat /\ Cardinality(T) \in Nat
      /\ Cardinality(S \union {x}) \in Nat /\ Cardinality(T \ {y}) \in Nat
  BY <1>1, <1>2, FS_CardinalityType
<1>5. IsFiniteSet(S1) /\ IsFiniteSet(T1)
  BY <1>1, <1>2, FS_Subset
<1>6. Cardinality(S1) \in Nat /\ Cardinality(T1) \in Nat
  BY <1>5, FS_CardinalityType
<1> QED BY <1>1, <1>2, <1>3, <1>4, <1>6

(* What a list of n entries names is at most n things ...                  *)
LEMMA ListCovers ==
    ASSUME NEW n \in Nat, NEW S, NEW f \in [1..n -> S], NEW T,
           \A x \in T : \E k \in 1..n : f[k] = x
    PROVE  IsFiniteSet(T) /\ Cardinality(T) <= n
<1> DEFINE R == {f[k] : k \in 1..n}
<1>1. IsFiniteSet(1..n) /\ Cardinality(1..n) = n
  BY FS_Interval
<1>2. f \in Surjection(1..n, R)
  BY DEF Surjection
<1>3. IsFiniteSet(R) /\ Cardinality(R) <= n
  BY <1>1, <1>2, FS_Surjection
<1>4. T \in SUBSET R
  OBVIOUS
<1> HIDE DEF R
<1>5. IsFiniteSet(T) /\ Cardinality(T) <= Cardinality(R)
  BY <1>3, <1>4, FS_Subset
<1> QED BY <1>3, <1>5, FS_CardinalityType

(* ... and exactly n when no two entries are the same.                     *)
LEMMA ListCounts ==
    ASSUME NEW n \in Nat, NEW S, NEW f \in [1..n -> S],
           \A j, k \in 1..n : j < k => f[j] # f[k]
    PROVE  IsFiniteSet({f[k] : k \in 1..n}) /\ Cardinality({f[k] : k \in 1..n}) = n
<1> DEFINE R == {f[k] : k \in 1..n}
<1>1. IsFiniteSet(1..n) /\ Cardinality(1..n) = n
  BY FS_Interval
<1>2. f \in Surjection(1..n, R)
  BY DEF Surjection
<1>3. f \in Injection(1..n, R)
  BY DEF Injection, IsInjective
<1> QED BY <1>1, <1>2, <1>3, FS_Surjection

(* A set split in two is no larger than its parts.                         *)
LEMMA SplitBound ==
    ASSUME NEW S, NEW A, NEW B, IsFiniteSet(A), IsFiniteSet(B), S \subseteq A \union B
    PROVE  Cardinality(S) <= Cardinality(A) + Cardinality(B)
<1>1. /\ IsFiniteSet(A \cup B)
      /\ Cardinality(A \cup B) = Cardinality(A) + Cardinality(B) - Cardinality(A \cap B)
  BY FS_Union
<1>2. /\ IsFiniteSet(A \cap B) /\ IsFiniteSet(S) /\ Cardinality(S) <= Cardinality(A \cup B)
  <2>1. S \in SUBSET (A \cup B) /\ A \cap B \in SUBSET A
    OBVIOUS
  <2> QED BY <1>1, <2>1, FS_Subset
<1>3. /\ Cardinality(S) \in Nat /\ Cardinality(A) \in Nat /\ Cardinality(B) \in Nat
      /\ Cardinality(A \cap B) \in Nat /\ Cardinality(A \cup B) \in Nat
  BY <1>1, <1>2, FS_CardinalityType
<1> QED BY <1>1, <1>2, <1>3

-----------------------------------------------------------------------------
Entry == [n : Nat, ip : IPs, at : Nat, allowed : BOOLEAN]
CallType == [step : Steps, ip : IPs \union {NoIP}, hit : Nat, at : Nat, list : Seq(Nat),
             swept : BOOLEAN, result : Int]

(* Calls: a clock that was read is not ahead, a hit is stamped with the    *)
(* clock its call has read, and a list that is held is tracked until the   *)
(* sweep drops it.                                                         *)
CallsOK ==
    /\ thr \in [Threads -> CallType]
    /\ \A t \in Threads :
          /\ thr[t].at <= now /\ thr[t].hit <= now
          /\ t \in Undecided => thr[t].hit = thr[t].at
          /\ thr[t].swept => thr[t].step \in Holding \union {"idle", "done"}
          /\ thr[t].step \in Holding /\ ~thr[t].swept => Tracked(thr[t].ip)
          /\ thr[t].step = "locked" => Tracked(thr[t].ip)

HistoryOK ==
    /\ history \subseteq Entry /\ IsFiniteSet(history)
    /\ \A h \in history : h.at <= now /\ h.n <= Cardinality(history)
    /\ \A g, h \in history : g.n = h.n => g = h
    /\ history # {} => Threads # {}

(* The list of an ip holds hits that were counted, in the order they were. *)
ListOf(ip) == IF Tracked(ip) THEN hits[ip] ELSE <<>>
Lists(ip, f) ==
    /\ \A k \in DOMAIN f : f[k].ip = ip /\ f[k].at = ListOf(ip)[k]
    /\ \A j, k \in DOMAIN f : j < k => f[j].n < f[k].n

(* Of the allowed hits of one window: while none of the window's hits has  *)
(* been pruned they are all in the list, and at most Limit; after that     *)
(* only threads that had stamped theirs before can add any, and not the    *)
(* one that pruned.                                                        *)
AllowedIn(ip, e) == {g \in InWindow(ip, e) : g.allowed}
Waiting(ip, e) == {t \in Undecided : thr[t].ip = ip /\ thr[t].at <= e}
Whole(ip, e, f) ==
    /\ \A h \in InWindow(ip, e) : \E k \in DOMAIN f : f[k] = h
    /\ Cardinality(AllowedIn(ip, e)) <= Limit
Passed(ip, e) ==
    /\ e < now
    /\ Cardinality(AllowedIn(ip, e)) + Cardinality(Waiting(ip, e))
          <= Limit + Cardinality(Threads) - 1
Admitted(ip, f) == \A e \in Nat : Whole(ip, e, f) \/ Passed(ip, e)

ListOK(ip) ==
    \E f \in [DOMAIN ListOf(ip) -> history] :
        Lists(ip, f) /\ (ip \notin outOfOrder => Admitted(ip, f))
ListsOK == \A ip \in IPs : ListOK(ip)

(* Hits counted after another one with an earlier stamp: at most one for   *)
(* each thread but the other one's own.                                    *)
Behind(h) == {g \in history : g.ip = h.ip /\ g.n > h.n /\ g.at < h.at}
Late(h) == {t \in Undecided : thr[t].ip = h.ip /\ thr[t].at < h.at}
LittleBehind ==
    \A h \in history : Cardinality(Behind(h)) + Cardinality(Late(h)) < Cardinality(Threads)

(* A rejected hit stays in its list for a window, behind older ones only.  *)
Reading == {"limited", "fetch"} \union Holding
HasHit(t, clock) ==
    /\ Tracked(thr[t].ip) /\ ~thr[t].swept
    /\ \E k \in DOMAIN hits[thr[t].ip] :
          /\ hits[thr[t].ip][k] = thr[t].hit
          /\ \A j \in 1..k : hits[thr[t].ip][j] <= clock
HitsStay ==
    \A t \in Threads :
        thr[t].step \in Reading /\ now - thr[t].hit < Window /\ thr[t].ip \notin outOfOrder
            => HasHit(t, IF At(t, "limited") THEN now ELSE thr[t].at)

LimiterInv ==
    /\ TypeOK /\ CallsOK /\ HistoryOK
    /\ ListsOK /\ LittleBehind /\ RejectionsJustified
    /\ HitsStay /\ RetryAfterSane

-----------------------------------------------------------------------------
(* The window in ticks.                                                    *)
LEMMA WindowType == Window \in Nat /\ Window > 0
<1>1. \A x, y \in Nat \ {0} : x * y \in Nat /\ x * y > 0
  OBVIOUS
<1> QED BY <1>1, WindowPositive DEF Window

(* A step of one thread outside the lock: what it does to its own call.    *)
Quiet(t, c) ==
    /\ thr' = [thr EXCEPT ![t] = c]
    /\ UNCHANGED <<now, hits, lock, ghosts>>
    /\ c \in CallType /\ c.at <= now /\ c.hit <= now
    /\ thr[t].step \notin {"stamped", "locked"} /\ c.step # "locked"
    /\ c.step # "idle" => c.ip \in IPs
    /\ c.step = "stamped" => c.at = now /\ c.hit = now
    /\ c.swept => c.step \in Holding \union {"idle", "done"}
    /\ c.step \in Holding /\ ~c.swept => Tracked(c.ip)

(* ... its hit stays in the list, and what it answers is sane.             *)
Keeps(t, c) ==
    now - c.hit < Window /\ c.ip \notin outOfOrder =>
        /\ c.step \in Reading =>
              /\ ~c.swept /\ Tracked(c.ip)
              /\ \E k \in DOMAIN hits[c.ip] :
                    /\ hits[c.ip][k] = c.hit
                    /\ \A j \in 1..k : hits[c.ip][j]
                           <= IF c.step = "limited" THEN now ELSE c.at
        /\ c.step = "done" => c.result \in 1..WindowSeconds

(* The fields of a call.                                                   *)
LEMMA CallFields ==
    ASSUME CallsOK, NEW t \in Threads
    PROVE  /\ thr[t] \in CallType /\ thr[t].at \in Nat /\ thr[t].hit \in Nat
           /\ thr[t].step \in Steps /\ thr[t].ip \in IPs \union {NoIP}
           /\ thr[t].list \in Seq(Nat) /\ thr[t].swept \in BOOLEAN /\ thr[t].result \in Int
BY DEF CallsOK, CallType

(* Such a step keeps the types and the history.                            *)
LEMMA QuietTypes ==
    ASSUME TypeOK, CallsOK, HistoryOK, NEW t \in Threads, NEW c, Quiet(t, c)
    PROVE  TypeOK' /\ CallsOK' /\ HistoryOK'
<1>1. /\ thr'[t] = c /\ \A s \in Threads : s # t => thr'[s] = thr[s]
      /\ thr' \in [Threads -> CallType]
      /\ UNCHANGED <<now, hits, lock, history, outOfOrder>>
  BY DEF Quiet, CallsOK, ghosts
<1>2. TypeOK'
  BY <1>1, CallFields DEF TypeOK, Quiet, CallType
<1>3. CallsOK'
  BY <1>1 DEF CallsOK, Quiet, Undecided, Tracked
<1>4. HistoryOK'
  BY <1>1 DEF HistoryOK
<1> QED BY <1>2, <1>3, <1>4

(* Reading the clock before the lock is taken is such a step, ...          *)
LEMMA StampQuiet ==
    ASSUME LimiterInv, NEW t \in Threads, NEW ip \in IPs, Stamp(t, ip)
    PROVE  \E c \in CallType : Quiet(t, c) /\ Keeps(t, c)
<1> DEFINE c == Call("stamped", ip, now, now)
<1>1. /\ c \in CallType /\ c.step = "stamped" /\ c.ip = ip /\ c.hit = now /\ c.at = now
      /\ c.swept = FALSE
  BY DEF Call, CallType, Steps, LimiterInv, TypeOK
<1>2. thr[t].step = "idle" /\ thr' = [thr EXCEPT ![t] = c] /\ UNCHANGED <<now, hits, lock, ghosts>>
  BY DEF Stamp, At, Go
<1> HIDE DEF c
<1>3. Quiet(t, c) /\ Keeps(t, c)
  BY <1>1, <1>2 DEF Quiet, Keeps, Reading, Holding, LimiterInv, TypeOK
<1> QED BY <1>1, <1>3

(* ... so are reading it again, fetching the list and answering, ...       *)
LEMMA ResetQuiet ==
    ASSUME LimiterInv, NEW t \in Threads, ResetStamp(t) \/ Fetch(t) \/ Respond(t)
    PROVE  \E c \in CallType : Quiet(t, c) /\ Keeps(t, c)
<1> DEFINE old == thr[t]
<1>1. /\ old \in CallType /\ old.at \in Nat /\ old.hit \in Nat /\ old.step \in Steps
      /\ old.at <= now /\ old.hit <= now /\ now \in Nat
      /\ old.swept => old.step \in Holding \union {"idle", "done"}
      /\ old.step # "idle" => old.ip \in IPs
  BY CallFields DEF LimiterInv, CallsOK, TypeOK
<1>2. CASE ResetStamp(t)
  <2> DEFINE c == [old EXCEPT !.step = "fetch", !.at = now]
  <2>1. /\ c \in CallType /\ c.step = "fetch" /\ c.ip = old.ip /\ c.hit = old.hit /\ c.at = now
        /\ c.swept = old.swept
    BY <1>1 DEF CallType, Steps
  <2>2. /\ old.step = "limited" /\ thr' = [thr EXCEPT ![t] = c]
        /\ UNCHANGED <<now, hits, lock, ghosts>>
    BY <1>2 DEF ResetStamp, At, Go
  <2>3. now - old.hit < Window /\ old.ip \notin outOfOrder => HasHit(t, now)
    BY <2>2 DEF LimiterInv, HitsStay, Reading, At
  <2> HIDE DEF c
  <2>4. Quiet(t, c)
    BY <1>1, <2>1, <2>2 DEF Quiet, Holding
  <2>5. Keeps(t, c)
    BY <2>1, <2>3 DEF Keeps, HasHit, Reading, Holding
  <2> QED BY <2>1, <2>4, <2>5
<1>3. CASE Fetch(t)
  <2> DEFINE c == [old EXCEPT !.step = "check", !.swept = ~Tracked(old.ip)]
  <2>1. /\ c \in CallType /\ c.step = "check" /\ c.ip = old.ip /\ c.hit = old.hit /\ c.at = old.at
        /\ c.swept = ~Tracked(old.ip)
    BY <1>1 DEF CallType, Steps
  <2>2. old.step = "fetch" /\ thr' = [thr EXCEPT ![t] = c] /\ UNCHANGED <<now, hits, lock, ghosts>>
    BY <1>3 DEF Fetch, At, Go
  <2>3. now - old.hit < Window /\ old.ip \notin outOfOrder => HasHit(t, old.at)
    BY <2>2 DEF LimiterInv, HitsStay, Reading, At
  <2> HIDE DEF c
  <2>4. Quiet(t, c)
    BY <1>1, <2>1, <2>2 DEF Quiet, Holding
  <2>5. Keeps(t, c)
    BY <2>1, <2>3 DEF Keeps, HasHit, Reading, Holding
  <2> QED BY <2>1, <2>4, <2>5
<1>4. CASE Respond(t)
  <2>1. /\ Idle \in CallType /\ Idle.step = "idle" /\ Idle.at = 0 /\ Idle.hit = 0
        /\ Idle.swept = FALSE
    BY DEF Idle, Call, CallType, Steps
  <2>2. /\ old.step = "done" /\ thr' = [thr EXCEPT ![t] = Idle]
        /\ UNCHANGED <<now, hits, lock, ghosts>>
    BY <1>4 DEF Respond, At, Go
  <2>3. Quiet(t, Idle) /\ Keeps(t, Idle)
    BY <1>1, <2>1, <2>2 DEF Quiet, Keeps, Reading, Holding
  <2> QED BY <2>1, <2>3
<1> QED BY <1>2, <1>3, <1>4

(* A number of ticks within a number of whole units is no more units.      *)
LEMMA QuotientBound ==
    ASSUME NEW x \in Nat, NEW w \in Nat, NEW T \in Nat \ {0}, x <= w * T
    PROVE  x \div T \in Nat /\ x \div T <= w
<1> DEFINE q == x \div T
<1>1. q \in Int /\ T * q <= x
  OBVIOUS
<1>2. q \in Nat
  OBVIOUS
<1>3. T * q <= w * T
  <2>1. T * q \in Int /\ w * T \in Int
    BY <1>1
  <2> QED BY <1>1, <2>1
<1> HIDE DEF q
<1>4. ASSUME q > w PROVE FALSE
  <2>1. q >= w + 1
    BY <1>1, <1>4
  <2>2. T * q >= T * (w + 1)
    BY <1>1, <2>1
  <2>3. T * (w + 1) = w * T + T
    OBVIOUS
  <2> QED BY <1>1, <1>3, <2>2, <2>3
<1>5. q <= w
  BY <1>1, <1>4
<1> QED BY <1>2, <1>5 DEF q

(* What Retry-After says of a hit that is not younger than the clock.      *)
LEMMA WaitType ==
    ASSUME NEW x \in Int
    PROVE  WholeSeconds(x) \in Int /\ AtLeastOne(WholeSeconds(x)) \in Int
BY WindowPositive DEF WholeSeconds, AtLeastOne

(* What seconds_until_reset() makes of a wait within the window.           *)
LEMMA WaitSane ==
    ASSUME NEW x \in Int, x <= Window
    PROVE  AtLeastOne(WholeSeconds(x)) \in 1..WindowSeconds
<1>1. CASE x >= 0
  <2>1. x \div TicksPerSecond \in Nat /\ x \div TicksPerSecond <= WindowSeconds
    BY <1>1, WindowPositive, QuotientBound DEF Window
  <2>2. WholeSeconds(x) = x \div TicksPerSecond
    BY <1>1 DEF WholeSeconds
  <2> HIDE DEF WholeSeconds
  <2> QED BY <2>1, <2>2, WindowPositive DEF AtLeastOne
<1>2. CASE x < 0
  <2>1. WholeSeconds(x) \in Int /\ WholeSeconds(x) <= 0
    BY <1>2, WindowPositive DEF WholeSeconds
  <2> QED BY <2>1, WindowPositive DEF AtLeastOne
<1> QED BY <1>1, <1>2

(* ... and looking at the list that was fetched, outside the lock.         *)
LEMMA ReadQuiet ==
    ASSUME LimiterInv, NEW t \in Threads, CheckEmpty(t) \/ ReadOldest(t)
    PROVE  \E c \in CallType : Quiet(t, c) /\ Keeps(t, c)
<1> DEFINE old == thr[t]
<1> DEFINE fresh == now - old.hit < Window /\ old.ip \notin outOfOrder
<1>1. /\ old \in CallType /\ old.at \in Nat /\ old.hit \in Nat /\ old.step \in Steps
      /\ old.at <= now /\ old.hit <= now /\ now \in Nat
      /\ old.swept => old.step \in Holding \union {"idle", "done"}
      /\ old.step \in Holding /\ ~old.swept => Tracked(old.ip)
      /\ old.step # "idle" => old.ip \in IPs
  BY CallFields DEF LimiterInv, CallsOK, TypeOK
<1>2. old.step \in Holding /\ UNCHANGED <<now, hits, lock, ghosts>>
  BY DEF CheckEmpty, ReadOldest, At, Answer, Holding
<1>3. fresh => HasHit(t, old.at)
  BY <1>2 DEF LimiterInv, HitsStay, Reading, At, Holding
<1>4. Held(t) \in Seq(Nat)
  BY <1>1, <1>2 DEF Held, CallType, LimiterInv, TypeOK, Tracked
<1>5. fresh => /\ Held(t) = hits[old.ip] /\ Held(t) # <<>> /\ Head(Held(t)) <= old.at
  <2> SUFFICES ASSUME fresh PROVE Held(t) = hits[old.ip] /\ Held(t) # <<>>
                                  /\ Head(Held(t)) <= old.at
    OBVIOUS
  <2>1. Held(t) = hits[old.ip]
    BY <1>3 DEF Held, HasHit
  <2>2. PICK k \in DOMAIN hits[old.ip] : \A j \in 1..k : hits[old.ip][j] <= old.at
    BY <1>3 DEF HasHit
  <2> QED BY <1>4, <2>1, <2>2
<1>6. CASE Held(t) = <<>>
  <2>1. ~fresh
    BY <1>5, <1>6
  <2>2. PICK r \in Int : thr' = [thr EXCEPT ![t] = [old EXCEPT !.step = "done", !.result = r]]
    <3>1. 0 \in Int /\ IndexError \in Int
      BY DEF IndexError
    <3> QED BY <1>6, <3>1 DEF CheckEmpty, ReadOldest, Go, Answer
  <2> DEFINE c == [old EXCEPT !.step = "done", !.result = r]
  <2>3. /\ c \in CallType /\ c.step = "done" /\ c.ip = old.ip /\ c.hit = old.hit
        /\ c.at = old.at
    BY <1>1 DEF CallType, Steps
  <2>4. thr' = [thr EXCEPT ![t] = c]
    BY <2>2
  <2> HIDE DEF c
  <2>5. Quiet(t, c)
    BY <1>1, <1>2, <2>3, <2>4 DEF Quiet, Holding
  <2>6. Keeps(t, c)
    BY <2>1, <2>3 DEF Keeps
  <2> QED BY <2>3, <2>5, <2>6
<1>7. CASE CheckEmpty(t) /\ Held(t) # <<>>
  <2> DEFINE c == [old EXCEPT !.step = "read"]
  <2>1. /\ c \in CallType /\ c.step = "read" /\ c.ip = old.ip /\ c.hit = old.hit
        /\ c.at = old.at /\ c.swept = old.swept
    BY <1>1 DEF CallType, Steps
  <2>2. thr' = [thr EXCEPT ![t] = c]
    BY <1>7 DEF CheckEmpty, To, Go
  <2> HIDE DEF c
  <2>3. Quiet(t, c)
    BY <1>1, <1>2, <2>1, <2>2 DEF Quiet, Holding
  <2>4. Keeps(t, c)
    BY <1>3, <2>1 DEF Keeps, HasHit, Reading, Holding
  <2> QED BY <2>1, <2>3, <2>4
<1>8. CASE ReadOldest(t) /\ Held(t) # <<>>
  <2> DEFINE x == Window - (old.at - Head(Held(t)))
  <2> DEFINE r == AtLeastOne(WholeSeconds(x))
  <2>1. x \in Int /\ (fresh => x <= Window)
    BY <1>1, <1>4, <1>5, <1>8, WindowType
  <2>2. r \in Int /\ (fresh => r \in 1..WindowSeconds)
    BY <2>1, WaitType, WaitSane
  <2>3. thr' = [thr EXCEPT ![t] = [old EXCEPT !.step = "done", !.result = r]]
    BY <1>8 DEF ReadOldest, Answer, Go
  <2> HIDE DEF r
  <2> DEFINE c == [old EXCEPT !.step = "done", !.result = r]
  <2>4. /\ c \in CallType /\ c.step = "done" /\ c.ip = old.ip /\ c.hit = old.hit
        /\ c.at = old.at /\ c.result = r
    BY <1>1, <2>2 DEF CallType, Steps
  <2>5. thr' = [thr EXCEPT ![t] = c]
    BY <2>3
  <2> HIDE DEF c
  <2>6. Quiet(t, c)
    BY <1>1, <1>2, <2>4, <2>5 DEF Quiet, Holding
  <2>7. Keeps(t, c)
    BY <2>2, <2>4 DEF Keeps, Reading, Holding
  <2> QED BY <2>4, <2>6, <2>7
<1> QED BY <1>6, <1>7, <1>8
-----------------------------------------------------------------------------
(* Sets of hits and of threads are finite.                                 *)
LEMMA HitsFinite ==
    ASSUME HistoryOK, NEW S \in SUBSET history
    PROVE  IsFiniteSet(S) /\ Cardinality(S) \in Nat
BY FS_Subset, FS_CardinalityType DEF HistoryOK

(* Sets of threads are finite, ...                                         *)
LEMMA ThreadsFiniteSets ==
    ASSUME NEW S \in SUBSET Threads
    PROVE  IsFiniteSet(S) /\ Cardinality(S) \in Nat /\ Cardinality(S) <= Cardinality(Threads)
BY ThreadsFinite, FS_Subset, FS_CardinalityType

(* ... and smaller than all threads when one is not among them.            *)
LEMMA AllButOne ==
    ASSUME NEW t \in Threads, NEW S \in SUBSET (Threads \ {t})
    PROVE  IsFiniteSet(S) /\ Cardinality(S) \in Nat /\ Cardinality(S) <= Cardinality(Threads) - 1
<1>1. IsFiniteSet(Threads \ {t}) /\ Cardinality(Threads \ {t}) = Cardinality(Threads) - 1
  BY ThreadsFinite, FS_RemoveElement
<1> QED BY <1>1, FS_Subset, FS_CardinalityType

(* What is counted of a window: threads and recorded hits.                 *)
LEMMA WaitingThreads ==
    \A ip, e : Waiting(ip, e) \in SUBSET Threads /\ AllowedIn(ip, e) \in SUBSET history
BY DEF Waiting, Undecided, AllowedIn, InWindow

(* A window that has passed stays so while nothing is admitted to it.      *)
LEMMA PassedKept ==
    ASSUME LimiterInv, NEW ip \in IPs, NEW e \in Nat, Passed(ip, e),
           now' \in Nat, now <= now',
           AllowedIn(ip, e)' = AllowedIn(ip, e), Waiting(ip, e)' \subseteq Waiting(ip, e)
    PROVE  Passed(ip, e)'
<1>1. AllowedIn(ip, e) \in SUBSET history /\ Waiting(ip, e) \in SUBSET Threads
      /\ Waiting(ip, e)' \in SUBSET Threads
  BY WaitingThreads
<1>2. /\ IsFiniteSet(AllowedIn(ip, e)) /\ IsFiniteSet(Waiting(ip, e))
      /\ Cardinality(AllowedIn(ip, e)) \in Nat /\ Cardinality(Waiting(ip, e)) \in Nat
      /\ Cardinality(Waiting(ip, e)') \in Nat /\ Cardinality(Threads) \in Nat
  BY <1>1, HitsFinite, ThreadsFiniteSets DEF LimiterInv
<1>3. Cardinality(AllowedIn(ip, e)) + Cardinality(Waiting(ip, e)')
          <= Cardinality(AllowedIn(ip, e)) + Cardinality(Waiting(ip, e))
  BY <1>2, SumShrinks
<1> QED BY <1>2, <1>3, LimitPositive DEF Passed, LimiterInv, TypeOK

(* While no hit of an ip is counted and nobody joins a window that is over *)
(* for it, an unchanged list stays right.                                  *)
LEMMA ListKept ==
    ASSUME LimiterInv, NEW ip \in IPs, now' \in Nat, now <= now',
           history \subseteq history', \A h \in history' \ history : h.ip # ip,
           ip \in outOfOrder => ip \in outOfOrder', ListOf(ip)' = ListOf(ip),
           \A e \in Nat : e < now => Waiting(ip, e)' \subseteq Waiting(ip, e)
    PROVE  ListOK(ip)'
<1>1. PICK f \in [DOMAIN ListOf(ip) -> history] :
          Lists(ip, f) /\ (ip \notin outOfOrder => Admitted(ip, f))
  BY DEF LimiterInv, ListsOK, ListOK
<1>2. Lists(ip, f)'
  BY <1>1 DEF Lists
<1>3. ASSUME ip \notin outOfOrder, NEW e \in Nat
      PROVE  Whole(ip, e, f)' \/ Passed(ip, e)'
  <2>1. AllowedIn(ip, e)' = AllowedIn(ip, e) /\ InWindow(ip, e)' = InWindow(ip, e)
    BY DEF AllowedIn, InWindow
  <2>2. CASE Whole(ip, e, f)
    BY <2>1, <2>2 DEF Whole
  <2>3. CASE Passed(ip, e)
    <3>1. e < now /\ Waiting(ip, e)' \subseteq Waiting(ip, e)
      BY <2>3 DEF Passed
    <3>2. Passed(ip, e)'
      BY <2>1, <2>3, <3>1, PassedKept
    <3> QED BY <3>2
  <2> QED BY <1>1, <1>3, <2>2, <2>3 DEF Admitted
<1>4. f \in [DOMAIN ListOf(ip)' -> history']
  BY <1>1
<1> QED BY <1>1, <1>2, <1>3, <1>4 DEF Admitted, ListOK

(* Without a new hit none falls behind a younger one.                      *)
LEMMA BehindKept ==
    ASSUME LimiterInv, UNCHANGED history, \A h \in history : Late(h)' \subseteq Late(h)
    PROVE  LittleBehind'
<1> SUFFICES ASSUME NEW h \in history
             PROVE  Cardinality(Behind(h)') + Cardinality(Late(h)') < Cardinality(Threads)
  BY DEF LittleBehind
<1>1. Behind(h)' = Behind(h) /\ Late(h)' \subseteq Late(h)
  BY DEF Behind
<1>2. /\ Behind(h) \in SUBSET history /\ Late(h) \in SUBSET Threads
      /\ Late(h)' \in SUBSET Threads
  BY <1>1 DEF Behind, Late, Undecided
<1>3. /\ IsFiniteSet(Behind(h)) /\ IsFiniteSet(Late(h)) /\ Cardinality(Behind(h)) \in Nat
      /\ Cardinality(Late(h)) \in Nat /\ Cardinality(Late(h)') \in Nat
      /\ Cardinality(Threads) \in Nat
  BY <1>2, HitsFinite, ThreadsFiniteSets DEF LimiterInv
<1>4. Cardinality(Behind(h)) + Cardinality(Late(h)')
          <= Cardinality(Behind(h)) + Cardinality(Late(h))
  BY <1>1, <1>3, SumShrinks
<1>5. Cardinality(Behind(h)) + Cardinality(Late(h)) < Cardinality(Threads)
  BY DEF LimiterInv, LittleBehind
<1> QED BY <1>1, <1>3, <1>4, <1>5

(* A step of one thread outside the lock keeps the invariant, ...          *)
LEMMA QuietInv ==
    ASSUME LimiterInv, NEW t \in Threads, NEW c \in CallType, Quiet(t, c), Keeps(t, c)
    PROVE  LimiterInv'
<1>1. /\ thr'[t] = c /\ \A s \in Threads : s # t => thr'[s] = thr[s]
      /\ UNCHANGED <<now, hits, lock, history, outOfOrder>> /\ now \in Nat
  BY DEF Quiet, LimiterInv, CallsOK, TypeOK, ghosts
<1>2. TypeOK' /\ CallsOK' /\ HistoryOK'
  BY QuietTypes DEF LimiterInv
<1>3. Undecided' \subseteq Undecided \union {t} /\ (t \in Undecided' => c.at = now)
  BY <1>1 DEF Undecided, Quiet
<1>4. ListsOK'
  <2>1. \A ip \in IPs : ListOf(ip)' = ListOf(ip)
    BY <1>1 DEF ListOf, Tracked
  <2>2. ASSUME NEW ip \in IPs, NEW e \in Nat, e < now
        PROVE  Waiting(ip, e)' \subseteq Waiting(ip, e)
    <3> SUFFICES ASSUME NEW s \in Waiting(ip, e)' PROVE s \in Waiting(ip, e)
      OBVIOUS
    <3>1. s \in Undecided' /\ thr'[s].ip = ip /\ thr'[s].at <= e
      BY DEF Waiting
    <3>2. s # t
      BY <1>1, <1>3, <2>2, <3>1
    <3> QED BY <1>1, <1>3, <3>1, <3>2 DEF Waiting, Undecided
  <2>3. ASSUME NEW ip \in IPs PROVE ListOK(ip)'
    BY <1>1, <2>1, <2>2, ListKept
  <2> QED BY <2>3 DEF ListsOK
<1>5. LittleBehind'
  <2>1. ASSUME NEW h \in history, NEW s \in Late(h)' PROVE s \in Late(h)
    <3>1. s \in Undecided' /\ thr'[s].ip = h.ip /\ thr'[s].at < h.at
      BY <2>1 DEF Late
    <3>2. h.at \in Nat /\ h.at <= now
      BY DEF LimiterInv, HistoryOK, Entry
    <3>3. s # t
      BY <1>1, <1>3, <3>1, <3>2
    <3> QED BY <1>1, <1>3, <3>1, <3>3 DEF Late, Undecided
  <2> QED BY <1>1, <2>1, BehindKept
<1>6. RejectionsJustified'
  BY <1>1 DEF LimiterInv, RejectionsJustified
<1>7. HitsStay'
  <2> SUFFICES ASSUME NEW s \in Threads, thr'[s].step \in Reading, now - thr'[s].hit < Window,
                      thr'[s].ip \notin outOfOrder
               PROVE  HasHit(s, IF At(s, "limited") THEN now ELSE thr[s].at)'
    BY <1>1 DEF HitsStay
  <2>1. CASE s = t
    BY <1>1, <2>1 DEF Keeps, HasHit, At, Tracked
  <2>2. CASE s # t
    <3>1. thr'[s] = thr[s]
      BY <1>1, <2>2
    <3>2. HasHit(s, IF At(s, "limited") THEN now ELSE thr[s].at)
      BY <3>1 DEF LimiterInv, HitsStay
    <3> QED BY <1>1, <3>1, <3>2 DEF HasHit, At, Tracked
  <2> QED BY <2>1, <2>2
<1>8. RetryAfterSane'
  BY <1>1 DEF LimiterInv, RetryAfterSane, Keeps
<1> QED BY <1>2, <1>4, <1>5, <1>6, <1>7, <1>8 DEF LimiterInv

(* What a thread's call is known to be.                                    *)
LEMMA CallFacts ==
    ASSUME LimiterInv, NEW t \in Threads
    PROVE  /\ now \in Nat /\ thr[t] \in CallType /\ thr[t].at \in Nat /\ thr[t].hit \in Nat
           /\ thr[t].at <= now /\ thr[t].hit <= now
           /\ thr[t].step # "idle" => thr[t].ip \in IPs
           /\ \A s \in Threads : thr[s].step = "locked" => lock = s
           /\ \A ip \in IPs : ListOf(ip) \in Seq(Nat)
<1>1. \A ip \in IPs : ListOf(ip) \in Seq(Nat)
  BY DEF LimiterInv, TypeOK, ListOf, Tracked
<1> QED BY <1>1, CallFields DEF LimiterInv, CallsOK, TypeOK

(* ... so does the clock, ...                                              *)
LEMMA TickInv ==
    ASSUME LimiterInv, Tick
    PROVE  LimiterInv'
<1>1. /\ now \in Nat /\ now' = now + 1 /\ UNCHANGED <<hits, lock, thr, history, outOfOrder>>
  BY DEF Tick, LimiterInv, TypeOK, ghosts
<1>2. TypeOK'
  BY <1>1 DEF LimiterInv, TypeOK
<1>3. CallsOK'
  <2>1. \A t \in Threads : thr[t].at \in Nat /\ thr[t].hit \in Nat
    BY CallFacts
  <2> QED BY <1>1, <2>1 DEF LimiterInv, CallsOK, Tracked, Undecided
<1>4. HistoryOK'
  BY <1>1 DEF LimiterInv, HistoryOK, Entry
<1>5. ListsOK'
  <2>1. \A ip \in IPs : ListOf(ip)' = ListOf(ip) /\ \A e \in Nat : Waiting(ip, e)' = Waiting(ip, e)
    BY <1>1 DEF ListOf, Tracked, Waiting, Undecided
  <2>2. ASSUME NEW ip \in IPs PROVE ListOK(ip)'
    BY <1>1, <2>1, ListKept
  <2> QED BY <2>2 DEF ListsOK
<1>6. LittleBehind'
  <2>1. \A h \in history : Late(h)' = Late(h)
    BY <1>1 DEF Late, Undecided
  <2> QED BY <1>1, <2>1, BehindKept
<1>7. RejectionsJustified'
  BY <1>1 DEF LimiterInv, RejectionsJustified
<1>8. HitsStay'
  <2> SUFFICES ASSUME NEW s \in Threads, thr[s].step \in Reading, now' - thr[s].hit < Window,
                      thr[s].ip \notin outOfOrder
               PROVE  HasHit(s, IF At(s, "limited") THEN now ELSE thr[s].at)'
    BY <1>1 DEF HitsStay
  <2>1. thr[s].at \in Nat /\ thr[s].hit \in Nat /\ thr[s].ip \in IPs
    BY CallFacts DEF Reading, Holding
  <2>2. HasHit(s, IF At(s, "limited") THEN now ELSE thr[s].at)
    BY <1>1, <2>1, WindowType DEF LimiterInv, HitsStay
  <2>3. hits[thr[s].ip] \in Seq(Nat)
    BY <2>2 DEF HasHit, Tracked, LimiterInv, TypeOK
  <2>4. PICK k \in DOMAIN hits[thr[s].ip] :
          /\ hits[thr[s].ip][k] = thr[s].hit
          /\ \A j \in 1..k : hits[thr[s].ip][j]
                                <= IF At(s, "limited") THEN now ELSE thr[s].at
    BY <2>2 DEF HasHit
  <2>5. \A j \in 1..k : hits[thr[s].ip][j] \in Nat
    BY <2>3
  <2>6. \A j \in 1..k : hits[thr[s].ip][j]
                            <= IF At(s, "limited") THEN now' ELSE thr[s].at
    BY <1>1, <2>1, <2>4, <2>5
  <2> QED BY <1>1, <2>2, <2>4, <2>6 DEF HasHit, Tracked, At
<1>9. RetryAfterSane'
  <2>1. \A t \in Threads : thr[t].hit \in Nat
    BY CallFacts
  <2> QED BY <1>1, <2>1, WindowType DEF LimiterInv, RetryAfterSane
<1> QED BY <1>2, <1>3, <1>4, <1>5, <1>6, <1>7, <1>8, <1>9 DEF LimiterInv

(* ... the lock, with the empty list of a new client, ...                  *)
LEMMA AcquireInv ==
    ASSUME LimiterInv, NEW t \in Threads, Acquire(t)
    PROVE  LimiterInv'
<1> DEFINE ip == thr[t].ip
<1> DEFINE c == [thr[t] EXCEPT !.step = "locked"]
<1>1. /\ thr[t].step = "stamped" /\ lock = NoThread /\ lock' = t
      /\ UNCHANGED <<now, history, outOfOrder>> /\ now \in Nat /\ ip \in IPs
      /\ thr' = [thr EXCEPT ![t] = c]
  BY CallFacts DEF Acquire, ghosts, At, To, Go
<1>2. /\ c \in CallType /\ c.step = "locked" /\ c.ip = ip /\ c.hit = thr[t].hit
      /\ c.at = thr[t].at /\ c.swept = thr[t].swept
  BY CallFacts DEF CallType, Steps
<1> HIDE DEF c
<1>3. /\ thr' \in [Threads -> CallType] /\ thr'[t] = c
      /\ \A s \in Threads : s # t => thr'[s] = thr[s]
  BY <1>1, <1>2 DEF LimiterInv, CallsOK
<1>4. /\ DOMAIN hits' = DOMAIN hits \union {ip}
      /\ \A x \in DOMAIN hits : hits'[x] = hits[x]
      /\ ip \notin DOMAIN hits => hits'[ip] = <<>>
  BY DEF Acquire, Tracked
<1>5. \A x \in IPs : ListOf(x)' = ListOf(x)
  BY <1>4 DEF ListOf, Tracked
<1>6. Undecided' = Undecided
  BY <1>1, <1>2, <1>3 DEF Undecided
<1>7. TypeOK'
  <2>1. \A s \in Threads : thr[s].step # "locked"
    BY <1>1, NoIPAssumption DEF LimiterInv, TypeOK, NoThread
  <2>2. \A x \in DOMAIN hits' : hits'[x] \in Seq(Nat)
    <3>1. <<>> \in Seq(Nat)
      OBVIOUS
    <3>2. ip \in DOMAIN hits => hits[ip] \in Seq(Nat)
      BY DEF LimiterInv, TypeOK
    <3>3. \A x \in DOMAIN hits : hits'[x] \in Seq(Nat)
      BY <1>4 DEF LimiterInv, TypeOK
    <3>4. hits'[ip] \in Seq(Nat)
      BY <1>4, <3>1, <3>2
    <3> QED BY <1>4, <3>3, <3>4
  <2>3. DOMAIN hits' \subseteq IPs /\ lock' \in Threads \union {NoThread} /\ now' \in Nat
    BY <1>1, <1>4 DEF LimiterInv, TypeOK
  <2>4. ASSUME NEW s \in Threads
        PROVE  /\ thr'[s].step \in Steps
               /\ thr'[s].step # "idle" => thr'[s].ip \in IPs
               /\ lock' = s <=> thr'[s].step = "locked"
    BY <1>1, <1>2, <1>3, <2>1 DEF LimiterInv, TypeOK, Steps
  <2> QED BY <2>2, <2>3, <2>4 DEF TypeOK
<1>8. CallsOK'
  <2> SUFFICES ASSUME NEW s \in Threads
               PROVE  /\ thr'[s].at <= now' /\ thr'[s].hit <= now'
                      /\ s \in Undecided' => thr'[s].hit = thr'[s].at
                      /\ thr'[s].swept => thr'[s].step \in Holding \union {"idle", "done"}
                      /\ thr'[s].step \in Holding /\ ~thr'[s].swept => thr'[s].ip \in DOMAIN hits'
                      /\ thr'[s].step = "locked" => thr'[s].ip \in DOMAIN hits'
    BY <1>3 DEF CallsOK, Tracked
  <2>1. CASE s = t
    BY <1>1, <1>2, <1>3, <1>4, <1>6, <2>1 DEF LimiterInv, CallsOK, Holding, Undecided, Tracked
  <2>2. CASE s # t
    BY <1>1, <1>3, <1>4, <1>6, <2>2 DEF LimiterInv, CallsOK, Tracked
  <2> QED BY <2>1, <2>2
<1>9. HistoryOK'
  BY <1>1 DEF LimiterInv, HistoryOK
<1>10. ListsOK'
  <2>1. ASSUME NEW x \in IPs, NEW e \in Nat PROVE Waiting(x, e)' = Waiting(x, e)
    BY <1>2, <1>3, <1>6 DEF Waiting, Undecided
  <2>2. ASSUME NEW x \in IPs PROVE ListOK(x)'
    BY <1>1, <1>5, <2>1, ListKept
  <2> QED BY <2>2 DEF ListsOK
<1>11. LittleBehind'
  <2>1. \A h \in history : Late(h)' = Late(h)
    BY <1>2, <1>3, <1>6 DEF Late, Undecided
  <2> QED BY <1>1, <2>1, BehindKept
<1>12. RejectionsJustified'
  BY <1>1 DEF LimiterInv, RejectionsJustified
<1>13. HitsStay'
  <2> SUFFICES ASSUME NEW s \in Threads, thr'[s].step \in Reading, now - thr'[s].hit < Window,
                      thr'[s].ip \notin outOfOrder
               PROVE  HasHit(s, IF At(s, "limited") THEN now ELSE thr[s].at)'
    BY <1>1 DEF HitsStay
  <2>1. s # t /\ thr'[s] = thr[s]
    BY <1>2, <1>3 DEF Reading, Holding
  <2>2. HasHit(s, IF At(s, "limited") THEN now ELSE thr[s].at)
    BY <2>1 DEF LimiterInv, HitsStay
  <2> QED BY <1>1, <1>4, <2>1, <2>2 DEF HasHit, At, Tracked
<1>14. RetryAfterSane'
  BY <1>1, <1>2, <1>3 DEF LimiterInv, RetryAfterSane
<1> QED BY <1>7, <1>8, <1>9, <1>10, <1>11, <1>12, <1>13, <1>14 DEF LimiterInv

(* A window whose hits are all at least a window older than the clock of a *)
(* thread that has not yet counted its own is over, and that thread cannot *)
(* add to it.                                                              *)
LEMMA WindowOver ==
    ASSUME LimiterInv, NEW t \in Threads, NEW ip \in IPs, NEW e \in Nat,
           NEW g \in InWindow(ip, e), g.at <= Cutoff(t)
    PROVE  /\ e < thr[t].at /\ e < now
           /\ t \notin Waiting(ip, e) /\ Cardinality(Waiting(ip, e)) <= Cardinality(Threads) - 1
<1>1. g.at \in Nat /\ g.at > e - Window
  BY DEF InWindow, LimiterInv, HistoryOK, Entry
<1>2. e < thr[t].at /\ e < now
  BY <1>1, CallFacts, WindowType DEF Cutoff
<1>3. t \notin Waiting(ip, e)
  BY <1>2, CallFacts DEF Waiting
<1>4. Waiting(ip, e) \in SUBSET (Threads \ {t})
  BY <1>3, WaitingThreads
<1>5. Cardinality(Waiting(ip, e)) <= Cardinality(Threads) - 1
  BY <1>4, AllButOne
<1> QED BY <1>2, <1>3, <1>5

(* Pruning drops an entry of its own list only, and only an expired one.   *)
LEMMA PruneList ==
    ASSUME LimiterInv, NEW t \in Threads, NEW ip \in IPs, thr[t].ip = ip, Prune(t)
    PROVE  ListOK(ip)'
<1>1. /\ thr[t].step = "locked" /\ ip \in IPs /\ Tracked(ip) /\ ListOf(ip) = hits[ip]
      /\ hits[ip] # <<>> /\ hits[ip][1] <= Cutoff(t) /\ hits[ip] \in Seq(Nat)
      /\ UNCHANGED <<now, lock, thr, history, outOfOrder>>
  BY CallFacts DEF Prune, HeadExpired, At, LimiterInv, CallsOK, ListOf, ghosts
<1>2. DOMAIN hits' = DOMAIN hits /\ hits'[ip] = Tail(hits[ip])
  BY <1>1 DEF Prune, Tracked
<1>3. PICK f \in [DOMAIN ListOf(ip) -> history] :
          Lists(ip, f) /\ (ip \notin outOfOrder => Admitted(ip, f))
  BY <1>1 DEF LimiterInv, ListsOK, ListOK
<1>4. PICK n \in Nat : n = Len(hits[ip]) /\ n >= 1 /\ DOMAIN ListOf(ip) = 1..n
  BY <1>1
<1>5. /\ ListOf(ip)' = Tail(hits[ip]) /\ DOMAIN (ListOf(ip)') = 1..(n - 1)
      /\ \A k \in 1..(n - 1) : ListOf(ip)'[k] = hits[ip][k + 1]
  <2>1. ListOf(ip)' = Tail(hits[ip])
    BY <1>1, <1>2 DEF ListOf, Tracked
  <2> QED BY <2>1, <1>1, <1>4
<1>6. PICK f2 \in [DOMAIN (ListOf(ip)') -> history'] : f2 = [k \in 1..(n - 1) |-> f[k + 1]]
  <2>1. [k \in 1..(n - 1) |-> f[k + 1]] \in [DOMAIN (ListOf(ip)') -> history']
    BY <1>1, <1>3, <1>4, <1>5
  <2> QED BY <2>1
<1>7. /\ DOMAIN f2 = 1..(n - 1) /\ DOMAIN f = 1..n
      /\ \A k \in 1..(n - 1) : k + 1 \in 1..n /\ f2[k] = f[k + 1]
  BY <1>3, <1>4, <1>6
<1>8. Lists(ip, f2)'
  <2>1. \A k \in 1..(n - 1) : f2[k].ip = ip /\ f2[k].at = hits[ip][k + 1]
    <3>1. \A k \in 1..n : f[k].ip = ip /\ f[k].at = hits[ip][k]
      BY <1>1, <1>3, <1>7 DEF Lists
    <3> QED BY <1>7, <3>1
  <2>2. \A j, k \in 1..(n - 1) : j < k => f2[j].n < f2[k].n
    <3> SUFFICES ASSUME NEW j \in 1..(n - 1), NEW k \in 1..(n - 1), j < k
                 PROVE  f2[j].n < f2[k].n
      OBVIOUS
    <3>1. j + 1 \in 1..n /\ k + 1 \in 1..n /\ j + 1 < k + 1
      BY <1>4
    <3> QED BY <1>3, <1>7, <3>1 DEF Lists
  <2> QED BY <1>1, <1>5, <1>7, <2>1, <2>2 DEF Lists
<1>9. ASSUME ip \notin outOfOrder, NEW e \in Nat
      PROVE  Whole(ip, e, f2)' \/ Passed(ip, e)'
  <2>1. AllowedIn(ip, e)' = AllowedIn(ip, e) /\ InWindow(ip, e)' = InWindow(ip, e)
        /\ Waiting(ip, e)' = Waiting(ip, e)
    BY <1>1 DEF AllowedIn, InWindow, Waiting, Undecided
  <2>2. CASE Passed(ip, e)
    BY <1>1, <2>1, <2>2, CallFacts DEF Passed
  <2>3. CASE Whole(ip, e, f) /\ f[1] \in InWindow(ip, e)
    <3>1. f[1].at <= Cutoff(t)
      BY <1>1, <1>3, <1>4 DEF Lists
    <3>2. e < now /\ Cardinality(Waiting(ip, e)) <= Cardinality(Threads) - 1
      BY <1>1, <2>3, <3>1, WindowOver
    <3>3. Cardinality(AllowedIn(ip, e)) <= Limit
      BY <2>3 DEF Whole
    <3>4. Cardinality(AllowedIn(ip, e)) \in Nat /\ Cardinality(Waiting(ip, e)) \in Nat
          /\ Cardinality(Threads) \in Nat
      BY WaitingThreads, HitsFinite, ThreadsFiniteSets DEF LimiterInv
    <3>5. Cardinality(AllowedIn(ip, e)) + Cardinality(Waiting(ip, e))
              <= Limit + Cardinality(Threads) - 1
      BY <3>2, <3>3, <3>4, LimitPositive
    <3> QED BY <1>1, <2>1, <3>2, <3>5 DEF Passed
  <2>4. CASE Whole(ip, e, f) /\ f[1] \notin InWindow(ip, e)
    <3>1. ASSUME NEW h \in InWindow(ip, e) PROVE \E k \in DOMAIN f2 : f2[k] = h
      <4>1. PICK k \in 1..n : f[k] = h
        BY <1>7, <2>4 DEF Whole
      <4>2. k # 1
        BY <2>4, <4>1
      <4>3. k - 1 \in 1..(n - 1) /\ (k - 1) + 1 = k
        BY <1>4, <4>2
      <4> QED BY <1>7, <4>1, <4>3
    <3> QED BY <2>1, <2>4, <3>1 DEF Whole
  <2> QED BY <1>3, <1>9, <2>2, <2>3, <2>4 DEF Admitted
<1>10. ip \notin outOfOrder' => Admitted(ip, f2)'
  BY <1>1, <1>9 DEF Admitted
<1> QED BY <1>6, <1>8, <1>10 DEF ListOK

(* ... and the removal of an expired hit at the head of the list.          *)
LEMMA PruneInv ==
    ASSUME LimiterInv, NEW t \in Threads, Prune(t)
    PROVE  LimiterInv'
<1>1. PICK ip \in IPs : thr[t].ip = ip
  BY CallFacts DEF Prune, At
<1>2. /\ thr[t].step = "locked" /\ Tracked(ip) /\ now \in Nat
      /\ hits[ip] # <<>> /\ hits[ip][1] <= Cutoff(t) /\ hits[ip] \in Seq(Nat)
      /\ UNCHANGED <<now, lock, thr, history, outOfOrder>>
  BY <1>1, CallFacts DEF Prune, HeadExpired, At, LimiterInv, CallsOK, ListOf, ghosts
<1>3. /\ DOMAIN hits' = DOMAIN hits /\ hits'[ip] = Tail(hits[ip])
      /\ \A x \in DOMAIN hits : x # ip => hits'[x] = hits[x]
  BY <1>2, <1>1 DEF Prune, Tracked
<1>4. TypeOK'
  <2>1. hits'[ip] \in Seq(Nat)
    BY <1>2, <1>3
  <2>2. \A x \in DOMAIN hits' : hits'[x] \in Seq(Nat)
    BY <1>3, <2>1 DEF LimiterInv, TypeOK
  <2> QED BY <1>2, <1>3, <2>2 DEF LimiterInv, TypeOK
<1>5. CallsOK'
  BY <1>2, <1>3 DEF LimiterInv, CallsOK, Tracked, Undecided
<1>6. HistoryOK'
  BY <1>2 DEF LimiterInv, HistoryOK
<1>7. ListsOK'
  <2>1. ASSUME NEW x \in IPs, x # ip PROVE ListOK(x)'
    <3>1. ListOf(x)' = ListOf(x) /\ \A e \in Nat : Waiting(x, e)' = Waiting(x, e)
      BY <1>2, <1>3, <2>1 DEF ListOf, Tracked, Waiting, Undecided
    <3>2. now' \in Nat /\ now <= now' /\ UNCHANGED <<history, outOfOrder>>
      BY <1>2
    <3> QED BY <3>1, <3>2, ListKept
  <2>2. ListOK(ip)'
    BY <1>1, PruneList
  <2> QED BY <2>1, <2>2 DEF ListsOK
<1>8. LittleBehind'
  <2>1. \A h \in history : Late(h)' = Late(h)
    BY <1>2 DEF Late, Undecided
  <2> QED BY <1>2, <2>1, BehindKept
<1>9. RejectionsJustified'
  BY <1>2 DEF LimiterInv, RejectionsJustified
<1>10. HitsStay'
  <2> SUFFICES ASSUME NEW s \in Threads, thr[s].step \in Reading, now - thr[s].hit < Window,
                      thr[s].ip \notin outOfOrder
               PROVE  HasHit(s, IF At(s, "limited") THEN now ELSE thr[s].at)'
    BY <1>2 DEF HitsStay
  <2>1. HasHit(s, IF At(s, "limited") THEN now ELSE thr[s].at)
    BY DEF LimiterInv, HitsStay
  <2>2. CASE thr[s].ip # ip
    BY <1>2, <1>3, <2>1, <2>2 DEF HasHit, Tracked, At
  <2>3. CASE thr[s].ip = ip
    <3> DEFINE clock == IF At(s, "limited") THEN now ELSE thr[s].at
    <3> HIDE DEF clock
    <3>1. PICK k \in DOMAIN hits[ip] : hits[ip][k] = thr[s].hit
                                       /\ \A j \in 1..k : hits[ip][j] <= clock
      BY <2>1, <2>3 DEF HasHit, clock
    <3>2. k # 1
      BY <1>2, <2>3, <3>1, CallFacts, WindowType DEF Cutoff
    <3>3. /\ k - 1 \in DOMAIN hits'[ip] /\ hits'[ip][k - 1] = thr[s].hit
          /\ \A j \in 1..(k - 1) : hits'[ip][j] <= clock
      <4>1. k \in 1..Len(hits[ip]) /\ Len(hits[ip]) \in Nat
        BY <1>2, <3>1
      <4>2. /\ DOMAIN hits'[ip] = 1..(Len(hits[ip]) - 1)
            /\ \A j \in 1..(Len(hits[ip]) - 1) : hits'[ip][j] = hits[ip][j + 1]
        BY <1>2, <1>3
      <4>3. k - 1 \in 1..(Len(hits[ip]) - 1) /\ (k - 1) + 1 = k
        BY <3>2, <4>1
      <4>4. \A j \in 1..(k - 1) : j \in 1..(Len(hits[ip]) - 1) /\ j + 1 \in 1..k
        BY <4>1
      <4> QED BY <3>1, <4>2, <4>3, <4>4
    <3> QED BY <1>2, <1>3, <2>1, <2>3, <3>3 DEF HasHit, Tracked, At, clock
  <2> QED BY <2>2, <2>3
<1>11. RetryAfterSane'
  BY <1>2 DEF LimiterInv, RetryAfterSane
<1> QED BY <1>4, <1>5, <1>6, <1>7, <1>8, <1>9, <1>10, <1>11 DEF LimiterInv

-----------------------------------------------------------------------------
(* What Count(t) does: hit h of ip is counted, the lists of kept survive    *)
(* the sweep.                                                              *)
Counts(t, ip, h, kept) ==
    /\ thr[t].step = "locked" /\ thr[t].ip = ip /\ ip \in DOMAIN hits
    /\ hits[ip] # <<>> => hits[ip][1] > h.at - Window
    /\ h \in Entry /\ h.n = Cardinality(history) + 1 /\ h.ip = ip /\ h.at = thr[t].at
    /\ h.allowed <=> Len(hits[ip]) + 1 <= Limit
    /\ history' = history \union {h}
    /\ ip \in kept /\ kept \subseteq DOMAIN hits /\ DOMAIN hits' = kept
    /\ hits'[ip] = Append(hits[ip], h.at)
    /\ \A x \in kept : x # ip => hits'[x] = hits[x]
    /\ outOfOrder \subseteq outOfOrder'
    /\ \A x \in DOMAIN hits \ kept :
          x \notin outOfOrder' => \A k \in DOMAIN hits[x] : hits[x][k] <= Cutoff(t)
    /\ thr' \in [Threads -> CallType]
    /\ thr'[t] = IF h.allowed THEN Idle ELSE [thr[t] EXCEPT !.step = "limited"]
    /\ \A s \in Threads : s # t =>
          /\ thr'[s].step = thr[s].step /\ thr'[s].ip = thr[s].ip /\ thr'[s].hit = thr[s].hit
          /\ thr'[s].at = thr[s].at /\ thr'[s].result = thr[s].result
          /\ \/ thr'[s] = thr[s]
                /\ (thr[s].step \in Holding /\ ~thr[s].swept => thr[s].ip \in kept)
             \/ thr[s].step \in Holding /\ thr[s].ip \notin kept /\ thr'[s].swept
    /\ lock' = NoThread /\ now' = now

(* The last entry of a list that grew.                                     *)
LEMMA LastOfAppend ==
    ASSUME NEW s \in Seq(Nat), NEW e \in Nat
    PROVE  /\ Append(s, e) \in Seq(Nat) /\ Append(s, e) # <<>>
           /\ Len(Append(s, e)) = Len(s) + 1 /\ Append(s, e)[Len(Append(s, e))] = e
OBVIOUS

(* Counting a hit is such a step.                                          *)
LEMMA CountCounts ==
    ASSUME LimiterInv, NEW t \in Threads, Count(t)
    PROVE  \E ip \in IPs, h \in Entry, kept \in SUBSET IPs : Counts(t, ip, h, kept)
<1>1. PICK ip \in IPs : thr[t].ip = ip
  BY CallFacts DEF Count, At
<1>2. /\ thr[t].step = "locked" /\ ip \in DOMAIN hits /\ hits[ip] \in Seq(Nat)
      /\ DOMAIN hits \subseteq IPs /\ \A x \in DOMAIN hits : hits[x] \in Seq(Nat)
  BY <1>1 DEF Count, At, LimiterInv, CallsOK, Tracked, TypeOK
<1> DEFINE all == Counted(t)
<1>3. /\ DOMAIN all = DOMAIN hits /\ all[ip] = Append(hits[ip], thr[t].at)
      /\ \A x \in DOMAIN hits : x # ip => all[x] = hits[x]
      /\ \A x \in DOMAIN hits : all[x] \in Seq(Nat)
  <2>1. /\ DOMAIN all = DOMAIN hits /\ all[ip] = Append(hits[ip], thr[t].at)
        /\ \A x \in DOMAIN hits : x # ip => all[x] = hits[x]
    BY <1>1, <1>2 DEF Counted
  <2>2. all[ip] \in Seq(Nat)
    BY <1>2, <2>1, CallFacts, LastOfAppend
  <2> QED BY <1>2, <2>1, <2>2
<1> DEFINE limited == Limited(all[ip])
<1>4. limited <=> ~(Len(hits[ip]) + 1 <= Limit)
  BY <1>2, <1>3, CallFacts, LastOfAppend, LimitPositive DEF Limited
<1>5. PICK kept \in SUBSET IPs : kept = Kept(t, all)
  <2>1. Kept(t, all) \subseteq DOMAIN all
    BY DEF Kept
  <2> QED BY <1>2, <1>3, <2>1
<1>6. kept \subseteq DOMAIN hits /\ ip \in kept
  <2>1. kept \subseteq DOMAIN hits
    BY <1>3, <1>5 DEF Kept
  <2>2. all[ip] # <<>> /\ all[ip][Len(all[ip])] > Cutoff(t)
    <3>1. all[ip] # <<>> /\ all[ip][Len(all[ip])] = thr[t].at
      BY <1>2, <1>3, CallFacts, LastOfAppend
    <3>2. thr[t].at > Cutoff(t)
      BY CallFacts, WindowType DEF Cutoff
    <3> QED BY <3>1, <3>2
  <2> QED BY <1>2, <1>3, <1>5, <2>1, <2>2 DEF Kept
<1>7. PICK h \in Entry : h = [n |-> Cardinality(history) + 1, ip |-> ip, at |-> thr[t].at,
                              allowed |-> ~limited]
  <2>1. Cardinality(history) + 1 \in Nat
    BY HitsFinite DEF LimiterInv
  <2>2. PICK ok \in BOOLEAN : ok = ~limited
    BY Zenon
  <2>3. [n |-> Cardinality(history) + 1, ip |-> ip, at |-> thr[t].at, allowed |-> ok] \in Entry
    BY <2>1, CallFacts DEF Entry
  <2> QED BY <2>2, <2>3, Zenon
<1>8. /\ h.n = Cardinality(history) + 1 /\ h.ip = ip /\ h.at = thr[t].at
      /\ h.allowed = ~limited
  BY <1>7, Zenon
<1>9. /\ (h.allowed <=> Len(hits[ip]) + 1 <= Limit) /\ (h.allowed <=> ~limited)
  <2> HIDE DEF limited
  <2> QED BY <1>4, <1>8
<1>10. /\ hits' = [x \in kept |-> all[x]]
      /\ thr' = [s \in Threads |->
            IF s = t THEN (IF limited THEN [thr[t] EXCEPT !.step = "limited"] ELSE Idle)
            ELSE IF thr[s].step \in Holding /\ ~thr[s].swept /\ thr[s].ip \notin kept
                 THEN [thr[s] EXCEPT !.swept = TRUE, !.list = all[thr[s].ip]]
                 ELSE thr[s]]
      /\ history' = history \union {h}
      /\ outOfOrder' = outOfOrder \union
            {x \in DOMAIN all \ kept : \E k \in DOMAIN all[x] : all[x][k] > Cutoff(t)}
      /\ lock' = NoThread /\ now' = now /\ ~HeadExpired(t)
  BY <1>1, <1>5, <1>7 DEF Count
<1> HIDE DEF all, limited
<1>11. hits[ip] # <<>> => hits[ip][1] > h.at - Window
  <2> SUFFICES ASSUME hits[ip] # <<>> PROVE hits[ip][1] > h.at - Window
    OBVIOUS
  <2>1. ~(Head(hits[ip]) <= Cutoff(t))
    BY <1>1, <1>10 DEF HeadExpired
  <2>2. Head(hits[ip]) = hits[ip][1] /\ hits[ip][1] \in Nat
    BY <1>2
  <2>3. Cutoff(t) = h.at - Window /\ h.at \in Nat
    BY <1>8, CallFacts DEF Cutoff
  <2> QED BY <2>1, <2>2, <2>3, WindowType
<1>12. /\ DOMAIN hits' = kept /\ hits'[ip] = Append(hits[ip], h.at)
       /\ \A x \in kept : x # ip => hits'[x] = hits[x]
  BY <1>3, <1>6, <1>8, <1>10
<1>13. /\ outOfOrder \subseteq outOfOrder'
       /\ \A x \in DOMAIN hits \ kept :
             x \notin outOfOrder' => \A k \in DOMAIN hits[x] : hits[x][k] <= Cutoff(t)
  <2> SUFFICES ASSUME NEW x \in DOMAIN hits \ kept, x \notin outOfOrder',
                      NEW k \in DOMAIN hits[x]
               PROVE  hits[x][k] <= Cutoff(t)
    BY <1>10
  <2>1. all[x] = hits[x]
    BY <1>3, <1>6
  <2>2. ~(hits[x][k] > Cutoff(t))
    BY <1>3, <1>10, <2>1
  <2>3. hits[x][k] \in Nat /\ Cutoff(t) \in Int
    BY <1>2, CallFacts, WindowType DEF Cutoff
  <2> QED BY <2>2, <2>3
<1>14. thr'[t] = IF h.allowed THEN Idle ELSE [thr[t] EXCEPT !.step = "limited"]
  BY <1>9, <1>10
<1>15. thr'[t] \in CallType
  <2>1. Idle \in CallType
    BY DEF Idle, Call, CallType, Steps
  <2>2. [thr[t] EXCEPT !.step = "limited"] \in CallType
    BY CallFacts DEF CallType, Steps
  <2> QED BY <1>14, <2>1, <2>2
<1>16. ASSUME NEW s \in Threads, s # t
       PROVE  /\ thr'[s] \in CallType
              /\ thr'[s].step = thr[s].step /\ thr'[s].ip = thr[s].ip /\ thr'[s].hit = thr[s].hit
              /\ thr'[s].at = thr[s].at /\ thr'[s].result = thr[s].result
              /\ \/ thr'[s] = thr[s]
                    /\ (thr[s].step \in Holding /\ ~thr[s].swept => thr[s].ip \in kept)
                 \/ thr[s].step \in Holding /\ thr[s].ip \notin kept /\ thr'[s].swept
  <2> DEFINE c == thr[s]
  <2>1. c \in CallType
    BY CallFacts
  <2>2. CASE c.step \in Holding /\ ~c.swept /\ c.ip \notin kept
    <3>1. thr'[s] = [c EXCEPT !.swept = TRUE, !.list = all[c.ip]]
      BY <1>10, <1>16, <2>2
    <3>2. c.ip \in DOMAIN hits
      BY <2>2 DEF LimiterInv, CallsOK, Tracked
    <3>3. all[c.ip] \in Seq(Nat)
      BY <1>3, <3>2
    <3> HIDE DEF c
    <3>4. /\ thr'[s] \in CallType /\ thr'[s].step = c.step /\ thr'[s].ip = c.ip
          /\ thr'[s].hit = c.hit /\ thr'[s].at = c.at /\ thr'[s].result = c.result
          /\ thr'[s].swept
      BY <2>1, <3>1, <3>3 DEF CallType
    <3> QED BY <2>2, <3>4 DEF c
  <2>3. CASE ~(c.step \in Holding /\ ~c.swept /\ c.ip \notin kept)
    <3>1. thr'[s] = c
      BY <1>10, <1>16, <2>3
    <3> QED BY <2>1, <2>3, <3>1
  <2> QED BY <2>2, <2>3
<1>17. thr' \in [Threads -> CallType]
  <2>1. thr' = [s \in Threads |-> thr'[s]]
    BY <1>10
  <2> QED BY <1>15, <1>16, <2>1
<1>18. Counts(t, ip, h, kept)
  BY <1>1, <1>2, <1>6, <1>8, <1>9, <1>10, <1>11, <1>12, <1>13, <1>14, <1>16, <1>17 DEF Counts
<1> QED BY <1>18

(* A call that is told it is limited keeps its stamps.                     *)
LEMMA CountOwn ==
    ASSUME LimiterInv, NEW t \in Threads, NEW ip \in IPs, NEW h \in Entry,
           NEW kept \in SUBSET IPs, Counts(t, ip, h, kept)
    PROVE  /\ h.allowed => /\ thr'[t].step = "idle" /\ thr'[t].at = 0 /\ thr'[t].hit = 0
                           /\ thr'[t].swept = FALSE
           /\ ~h.allowed => /\ thr'[t].step = "limited" /\ thr'[t].ip = ip /\ thr'[t].at = h.at
                            /\ thr'[t].hit = h.at /\ thr'[t].swept = FALSE
           /\ h.at \in Nat /\ h.at <= now /\ now \in Nat
           /\ Undecided' = Undecided \ {t} /\ t \in Undecided
           /\ \A s \in Undecided' : thr'[s] = thr[s]
<1>1. /\ thr[t].step = "locked" /\ thr[t].ip = ip /\ h.at = thr[t].at
      /\ thr'[t] = IF h.allowed THEN Idle ELSE [thr[t] EXCEPT !.step = "limited"]
  BY DEF Counts
<1>2. t \in Undecided /\ thr[t].hit = thr[t].at /\ thr[t].swept = FALSE
  BY <1>1, CallFields DEF Undecided, LimiterInv, CallsOK, Holding
<1>3. h.allowed => /\ thr'[t].step = "idle" /\ thr'[t].at = 0 /\ thr'[t].hit = 0
                   /\ thr'[t].swept = FALSE
  BY <1>1 DEF Idle, Call
<1>4. ~h.allowed => /\ thr'[t].step = "limited" /\ thr'[t].ip = ip /\ thr'[t].at = h.at
                    /\ thr'[t].hit = h.at /\ thr'[t].swept = FALSE
  BY <1>1, <1>2, CallFacts DEF CallType
<1>5. \A s \in Threads : s # t =>
          thr'[s].step = thr[s].step /\ (thr'[s] = thr[s] \/ thr[s].step \in Holding)
  BY DEF Counts
<1>6. Undecided' = Undecided \ {t} /\ \A s \in Undecided' : thr'[s] = thr[s]
  <2>1. t \notin Undecided'
    BY <1>3, <1>4 DEF Undecided
  <2> QED BY <1>5, <2>1 DEF Undecided, Holding
<1> QED BY <1>1, <1>2, <1>3, <1>4, <1>6, CallFacts

(* It keeps the types, ...                                                 *)
LEMMA CountTypes ==
    ASSUME LimiterInv, NEW t \in Threads, NEW ip \in IPs, NEW h \in Entry,
           NEW kept \in SUBSET IPs, Counts(t, ip, h, kept)
    PROVE  TypeOK' /\ CallsOK'
<1>1. /\ h.allowed => /\ thr'[t].step = "idle" /\ thr'[t].at = 0 /\ thr'[t].hit = 0
                      /\ thr'[t].swept = FALSE
      /\ ~h.allowed => /\ thr'[t].step = "limited" /\ thr'[t].ip = ip /\ thr'[t].at = h.at
                       /\ thr'[t].hit = h.at /\ thr'[t].swept = FALSE
      /\ h.at \in Nat /\ h.at <= now /\ now \in Nat
      /\ Undecided' = Undecided \ {t}
  BY CountOwn
<1>2. TypeOK'
  <2>1. hits[ip] \in Seq(Nat) /\ \A x \in DOMAIN hits : hits[x] \in Seq(Nat)
    BY DEF Counts, LimiterInv, TypeOK
  <2>2. Append(hits[ip], h.at) \in Seq(Nat)
    BY <2>1, CountOwn, LastOfAppend
  <2>3. \A x \in DOMAIN hits' : hits'[x] \in Seq(Nat)
    BY <2>1, <2>2 DEF Counts
  <2>4. \A s \in Threads : thr[s].step = "locked" => s = t
    BY CallFacts DEF Counts
  <2>5. ASSUME NEW s \in Threads, s # t
         PROVE  thr'[s].step = thr[s].step /\ thr'[s].ip = thr[s].ip
    BY <2>5 DEF Counts
  <2>6. \A s \in Threads : thr'[s].step # "locked" /\ thr'[s].step \in Steps
    BY <1>1, <2>4, <2>5, CallFields DEF Steps, LimiterInv
  <2>7. \A s \in Threads : thr'[s].step # "idle" => thr'[s].ip \in IPs
    BY <1>1, <2>5, CallFacts
  <2>8. \A s \in Threads : lock' # s
    BY NoIPAssumption DEF Counts, NoThread
  <2>9. lock' \in Threads \union {NoThread} /\ now' \in Nat /\ DOMAIN hits' \subseteq IPs
    BY CallFacts DEF Counts
  <2> QED BY <2>3, <2>6, <2>7, <2>8, <2>9 DEF TypeOK
<1>3. CallsOK'
  <2> SUFFICES ASSUME NEW s \in Threads
               PROVE  /\ thr'[s].at <= now' /\ thr'[s].hit <= now'
                      /\ s \in Undecided' => thr'[s].hit = thr'[s].at
                      /\ thr'[s].swept => thr'[s].step \in Holding \union {"idle", "done"}
                      /\ thr'[s].step \in Holding /\ ~thr'[s].swept => thr'[s].ip \in DOMAIN hits'
                      /\ thr'[s].step = "locked" => thr'[s].ip \in DOMAIN hits'
    BY DEF Counts, CallsOK, Tracked
  <2>1. DOMAIN hits' = kept /\ now' = now
    BY DEF Counts
  <2>2. CASE s = t
    BY <1>1, <2>1, <2>2 DEF Holding
  <2>3. CASE s # t
    <3>1. /\ thr'[s].step = thr[s].step /\ thr'[s].ip = thr[s].ip /\ thr'[s].hit = thr[s].hit
          /\ thr'[s].at = thr[s].at
          /\ \/ thr'[s] = thr[s]
                /\ (thr[s].step \in Holding /\ ~thr[s].swept => thr[s].ip \in kept)
             \/ thr[s].step \in Holding /\ thr'[s].swept
      BY <2>3 DEF Counts
    <3>2. thr[s].step # "locked"
      BY <2>3, CallFacts DEF Counts
    <3>3. /\ thr[s].at <= now /\ thr[s].hit <= now
          /\ s \in Undecided => thr[s].hit = thr[s].at
          /\ thr[s].swept => thr[s].step \in Holding \union {"idle", "done"}
      BY DEF LimiterInv, CallsOK
    <3>4. s \in Undecided' => s \in Undecided
      BY <1>1
    <3>5. thr'[s].step \in Holding /\ ~thr'[s].swept => thr'[s].ip \in kept
      BY <3>1
    <3> QED BY <2>1, <3>1, <3>2, <3>3, <3>4, <3>5
  <2> QED BY <2>2, <2>3
<1> QED BY <1>2, <1>3

(* ... numbers the hit after all others, ...                               *)
LEMMA CountHistory ==
    ASSUME LimiterInv, NEW t \in Threads, NEW ip \in IPs, NEW h \in Entry,
           NEW kept \in SUBSET IPs, Counts(t, ip, h, kept)
    PROVE  /\ HistoryOK'
           /\ h \notin history /\ history' = history \union {h} /\ h.ip = ip
           /\ \A g \in history : g.n < h.n
<1>1. /\ history' = history \union {h} /\ h.n = Cardinality(history) + 1 /\ h.ip = ip
      /\ now' = now
  BY DEF Counts
<1>2. Cardinality(history) \in Nat /\ IsFiniteSet(history)
  BY HitsFinite DEF LimiterInv
<1>3. \A g \in history : g.n \in Nat /\ g.n < h.n /\ g.at <= now
  BY <1>1, <1>2 DEF LimiterInv, HistoryOK, Entry
<1>4. h \notin history
  <2> SUFFICES ASSUME h \in history PROVE FALSE
    OBVIOUS
  <2> QED BY <1>3
<1>5. IsFiniteSet(history \cup {h}) /\ Cardinality(history \cup {h}) = Cardinality(history) + 1
  BY <1>2, <1>4, FS_AddElement, Zenon
<1>6. IsFiniteSet(history') /\ Cardinality(history') = Cardinality(history) + 1
  BY <1>1, <1>5
<1>7. h.at <= now
  BY CountOwn
<1>8. \A g \in history' : g.at <= now' /\ g.n <= Cardinality(history')
  <2> SUFFICES ASSUME NEW g \in history' PROVE g.at <= now' /\ g.n <= Cardinality(history')
    OBVIOUS
  <2>1. CASE g \in history
    BY <1>1, <1>2, <1>3, <1>6, <2>1
  <2>2. CASE g = h
    BY <1>1, <1>2, <1>6, <1>7, <2>2
  <2> QED BY <1>1, <2>1, <2>2
<1>9. \A g, k \in history' : g.n = k.n => g = k
  <2>1. \A g \in history : g.n # h.n
    BY <1>1, <1>3 DEF Entry
  <2>2. \A g, k \in history : g.n = k.n => g = k
    BY DEF LimiterInv, HistoryOK
  <2> QED BY <1>1, <2>1, <2>2
<1>10. history' \subseteq Entry /\ Threads # {}
  BY <1>1 DEF LimiterInv, HistoryOK
<1> QED BY <1>1, <1>3, <1>4, <1>6, <1>8, <1>9, <1>10 DEF HistoryOK

(* The list the hit is counted in grows by that hit.                       *)
Grows(ip, h, n, f, f2) ==
    /\ n \in Nat /\ f \in [1..n -> history] /\ f2 \in [1..(n + 1) -> history']
    /\ n = Len(hits[ip]) /\ ListOf(ip) = hits[ip]
    /\ DOMAIN ListOf(ip) = 1..n /\ DOMAIN (ListOf(ip)') = 1..(n + 1)
    /\ \A k \in 1..n : f2[k] = f[k]
    /\ f2[n + 1] = h
    /\ Lists(ip, f) /\ (ip \notin outOfOrder => Admitted(ip, f))
    /\ Lists(ip, f2)'

(* ... and puts it at the end of the list of its client.                   *)
LEMMA CountList ==
    ASSUME LimiterInv, NEW t \in Threads, NEW ip \in IPs, NEW h \in Entry,
           NEW kept \in SUBSET IPs, Counts(t, ip, h, kept)
    PROVE  \E n, f, f2 : Grows(ip, h, n, f, f2)
<1>1. /\ ip \in DOMAIN hits /\ ip \in DOMAIN hits' /\ hits'[ip] = Append(hits[ip], h.at)
      /\ hits[ip] \in Seq(Nat) /\ h.at \in Nat
  <2>1. h.at \in Nat
    BY DEF Entry
  <2>2. ip \in DOMAIN hits /\ ip \in DOMAIN hits' /\ hits'[ip] = Append(hits[ip], h.at)
    BY DEF Counts
  <2> QED BY <2>1, <2>2 DEF LimiterInv, TypeOK
<1>2. ListOf(ip) = hits[ip] /\ ListOf(ip)' = Append(hits[ip], h.at)
  BY <1>1 DEF ListOf, Tracked
<1>3. PICK n \in Nat : n = Len(hits[ip])
  BY <1>1
<1>4. /\ DOMAIN ListOf(ip) = 1..n /\ DOMAIN (ListOf(ip)') = 1..(n + 1)
      /\ \A k \in 1..n : ListOf(ip)'[k] = hits[ip][k]
      /\ ListOf(ip)'[n + 1] = h.at
  BY <1>1, <1>2, <1>3
<1>5. PICK f \in [1..n -> history] : Lists(ip, f) /\ (ip \notin outOfOrder => Admitted(ip, f))
  BY <1>4 DEF LimiterInv, ListsOK, ListOK
<1>6. history' = history \union {h} /\ h.ip = ip /\ \A g \in history : g.n < h.n
  BY CountHistory
<1>7. PICK f2 \in [1..(n + 1) -> history'] :
          f2 = [k \in 1..(n + 1) |-> IF k <= n THEN f[k] ELSE h]
  <2>1. [k \in 1..(n + 1) |-> IF k <= n THEN f[k] ELSE h] \in [1..(n + 1) -> history']
    BY <1>6
  <2> QED BY <2>1
<1>8. f2[n + 1] = h /\ \A k \in 1..n : k \in 1..(n + 1) /\ f2[k] = f[k]
  BY <1>7
<1>9. \A k \in 1..(n + 1) : k = n + 1 \/ k \in 1..n
  OBVIOUS
<1>10. \A k \in 1..(n + 1) : f2[k].ip = ip /\ f2[k].at = ListOf(ip)'[k]
  <2>1. \A k \in 1..n : f[k].ip = ip /\ f[k].at = hits[ip][k]
    BY <1>2, <1>5 DEF Lists
  <2> QED BY <1>4, <1>6, <1>8, <1>9, <2>1
<1>11. \A j, k \in 1..(n + 1) : j < k => f2[j].n < f2[k].n
  <2> SUFFICES ASSUME NEW j \in 1..(n + 1), NEW k \in 1..(n + 1), j < k
               PROVE  f2[j].n < f2[k].n
    OBVIOUS
  <2>1. j \in 1..n
    OBVIOUS
  <2>2. CASE k = n + 1
    BY <1>6, <1>8, <2>1, <2>2
  <2>3. CASE k \in 1..n
    BY <1>5, <1>8, <2>1, <2>3 DEF Lists
  <2> QED BY <1>9, <2>2, <2>3
<1>12. Lists(ip, f2)'
  BY <1>10, <1>11 DEF Lists
<1>13. Grows(ip, h, n, f, f2)
  BY <1>2, <1>3, <1>4, <1>5, <1>8, <1>12 DEF Grows
<1> QED BY <1>13

(* The bound on the ip's windows: the thread that adds an allowed hit was   *)
(* waiting for it, or the window's hits are all in the list still.         *)
LEMMA CountAdmits ==
    ASSUME LimiterInv, NEW t \in Threads, NEW ip \in IPs, NEW h \in Entry,
           NEW kept \in SUBSET IPs, Counts(t, ip, h, kept)
    PROVE  ListOK(ip)'
<1>1. PICK n, f, f2 : Grows(ip, h, n, f, f2)
  BY CountList
<1>2. /\ n \in Nat /\ f \in [1..n -> history] /\ f2 \in [1..(n + 1) -> history']
      /\ n = Len(hits[ip]) /\ ListOf(ip) = hits[ip]
      /\ DOMAIN ListOf(ip) = 1..n /\ DOMAIN (ListOf(ip)') = 1..(n + 1)
      /\ \A k \in 1..n : f2[k] = f[k]
      /\ f2[n + 1] = h
      /\ Lists(ip, f) /\ (ip \notin outOfOrder => Admitted(ip, f))
      /\ Lists(ip, f2)'
  BY <1>1 DEF Grows
<1>3. /\ HistoryOK' /\ h \notin history /\ history' = history \union {h} /\ h.ip = ip
  BY CountHistory
<1>4. /\ h.at \in Nat /\ h.at <= now /\ now \in Nat /\ now' = now /\ h.at = thr[t].at
      /\ Undecided' = Undecided \ {t} /\ t \in Undecided /\ thr[t].ip = ip
      /\ \A s \in Undecided' : thr'[s] = thr[s]
      /\ h.allowed => n + 1 <= Limit
  <2>1. /\ h.at \in Nat /\ h.at <= now /\ now \in Nat
        /\ Undecided' = Undecided \ {t} /\ t \in Undecided
        /\ \A s \in Undecided' : thr'[s] = thr[s]
    BY CountOwn
  <2>2. now' = now /\ h.at = thr[t].at /\ thr[t].ip = ip
    BY DEF Counts
  <2>3. h.allowed => n + 1 <= Limit
    BY <1>2 DEF Counts
  <2> QED BY <2>1, <2>2, <2>3
<1>5. ASSUME ip \notin outOfOrder, NEW e \in Nat
      PROVE  Whole(ip, e, f2)' \/ Passed(ip, e)'
  <2>1. /\ InWindow(ip, e)' \subseteq InWindow(ip, e) \union {h}
        /\ AllowedIn(ip, e)' \subseteq AllowedIn(ip, e) \union {h}
        /\ h \in AllowedIn(ip, e)' => h.allowed /\ h.at <= e
        /\ h \notin AllowedIn(ip, e)' => AllowedIn(ip, e)' = AllowedIn(ip, e)
        /\ Waiting(ip, e)' \subseteq Waiting(ip, e) \ {t}
    BY <1>3, <1>4 DEF InWindow, AllowedIn, Waiting
  <2>2. /\ IsFiniteSet(AllowedIn(ip, e)) /\ IsFiniteSet(Waiting(ip, e))
        /\ Cardinality(AllowedIn(ip, e)) \in Nat /\ Cardinality(Waiting(ip, e)) \in Nat
        /\ Cardinality(Threads) \in Nat
    BY WaitingThreads, HitsFinite, ThreadsFiniteSets DEF LimiterInv
  <2>3. CASE Whole(ip, e, f)
    <3>1. ASSUME NEW g \in InWindow(ip, e)' PROVE \E k \in 1..(n + 1) : f2[k] = g
      <4>1. CASE g = h
        BY <1>2, <4>1
      <4>2. CASE g \in InWindow(ip, e)
        <5>1. PICK k \in 1..n : f[k] = g
          BY <1>2, <2>3, <4>2 DEF Whole
        <5> QED BY <1>2, <5>1
      <4> QED BY <2>1, <4>1, <4>2
    <3>2. Cardinality(AllowedIn(ip, e)') <= Limit
      <4>1. CASE h \in AllowedIn(ip, e)'
        <5>1. \A g \in AllowedIn(ip, e)' : \E k \in 1..(n + 1) : f2[k] = g
          BY <3>1 DEF AllowedIn
        <5>2. /\ IsFiniteSet(AllowedIn(ip, e)') /\ Cardinality(AllowedIn(ip, e)') <= n + 1
          <6>1. n + 1 \in Nat
            BY <1>2
          <6> QED BY <1>2, <5>1, <6>1, ListCovers
        <5>3. Cardinality(AllowedIn(ip, e)') \in Nat
          BY <5>2, FS_CardinalityType
        <5> QED BY <1>2, <1>4, <2>1, <4>1, <5>2, <5>3, LimitPositive
      <4>2. CASE h \notin AllowedIn(ip, e)'
        BY <2>1, <2>3, <4>2 DEF Whole
      <4> QED BY <4>1, <4>2
    <3> QED BY <1>2, <3>1, <3>2 DEF Whole
  <2>4. CASE Passed(ip, e)
    <3>1. e < now /\ Cardinality(AllowedIn(ip, e)) + Cardinality(Waiting(ip, e))
                        <= Limit + Cardinality(Threads) - 1
      BY <2>4 DEF Passed
    <3>2. Cardinality(AllowedIn(ip, e)') + Cardinality(Waiting(ip, e)')
              <= Cardinality(AllowedIn(ip, e)) + Cardinality(Waiting(ip, e))
      <4>1. CASE h \in AllowedIn(ip, e)'
        <5>1. t \in Waiting(ip, e)
          BY <1>4, <2>1, <4>1 DEF Waiting
        <5> QED BY <2>1, <2>2, <5>1, SumMoves
      <4>2. CASE h \notin AllowedIn(ip, e)'
        <5>1. AllowedIn(ip, e)' \in SUBSET AllowedIn(ip, e)
              /\ Waiting(ip, e)' \in SUBSET Waiting(ip, e)
          BY <2>1, <4>2
        <5> QED BY <2>2, <5>1, SumShrinks
      <4> QED BY <4>1, <4>2
    <3>3. Cardinality(AllowedIn(ip, e)') \in Nat /\ Cardinality(Waiting(ip, e)') \in Nat
      <4>1. Waiting(ip, e)' \in SUBSET Threads /\ AllowedIn(ip, e)' \in SUBSET history'
        BY <2>1, WaitingThreads DEF AllowedIn, InWindow
      <4>2. IsFiniteSet(history') /\ IsFiniteSet(Threads)
        BY <1>3, ThreadsFinite DEF HistoryOK
      <4> QED BY <4>1, <4>2, FS_Subset, FS_CardinalityType
    <3> QED BY <1>4, <2>2, <3>1, <3>2, <3>3, LimitPositive DEF Passed
  <2> QED BY <1>2, <1>5, <2>3, <2>4 DEF Admitted
<1>6. ip \notin outOfOrder' => Admitted(ip, f2)'
  BY <1>5 DEF Admitted, Counts
<1> QED BY <1>2, <1>6 DEF ListOK

(* The other lists: kept as they are, or swept.  A list swept in order had *)
(* only expired entries.                                                   *)
LEMMA CountOthers ==
    ASSUME LimiterInv, NEW t \in Threads, NEW ip \in IPs, NEW h \in Entry,
           NEW kept \in SUBSET IPs, Counts(t, ip, h, kept), NEW x \in IPs, x # ip
    PROVE  ListOK(x)'
<1>1. /\ history' = history \union {h} /\ h.ip = ip
  BY CountHistory
<1>2. /\ now \in Nat /\ now' = now /\ outOfOrder \subseteq outOfOrder'
      /\ Undecided' = Undecided \ {t} /\ \A s \in Undecided' : thr'[s] = thr[s]
      /\ kept = DOMAIN hits' /\ kept \subseteq DOMAIN hits
      /\ x \in kept => hits'[x] = hits[x]
  <2>1. /\ now \in Nat /\ Undecided' = Undecided \ {t} /\ \A s \in Undecided' : thr'[s] = thr[s]
    BY CountOwn
  <2>2. /\ now' = now /\ outOfOrder \subseteq outOfOrder'
        /\ kept = DOMAIN hits' /\ kept \subseteq DOMAIN hits
        /\ x \in kept => hits'[x] = hits[x]
    BY DEF Counts
  <2> QED BY <2>1, <2>2
<1>3. \A e \in Nat : /\ Waiting(x, e)' \subseteq Waiting(x, e) /\ InWindow(x, e)' = InWindow(x, e)
                     /\ AllowedIn(x, e)' = AllowedIn(x, e)
  BY <1>1, <1>2 DEF Waiting, InWindow, AllowedIn
<1>4. CASE x \in kept \/ x \notin DOMAIN hits
  <2>1. ListOf(x)' = ListOf(x)
    BY <1>2, <1>4 DEF ListOf, Tracked
  <2>2. now' \in Nat /\ now <= now' /\ history \subseteq history'
        /\ \A g \in history' \ history : g.ip # x
    BY <1>1, <1>2
  <2> QED BY <1>2, <1>3, <2>1, <2>2, ListKept
<1>5. CASE x \in DOMAIN hits \ kept
  <2>1. ListOf(x)' = <<>> /\ ListOf(x) = hits[x]
    BY <1>2, <1>5 DEF ListOf, Tracked
  <2>2. PICK f \in [DOMAIN ListOf(x) -> history] :
            Lists(x, f) /\ (x \notin outOfOrder => Admitted(x, f))
    BY DEF LimiterInv, ListsOK, ListOK
  <2>3. PICK f2 \in [DOMAIN (ListOf(x)') -> history'] : DOMAIN f2 = {}
    <3>1. DOMAIN (ListOf(x)') = {}
      BY <2>1
    <3>2. [k \in {} |-> h] \in [{} -> history'] /\ DOMAIN [k \in {} |-> h] = {}
      OBVIOUS
    <3> QED BY <3>1, <3>2
  <2>4. Lists(x, f2)'
    BY <2>3 DEF Lists
  <2>5. ASSUME x \notin outOfOrder', NEW e \in Nat
        PROVE  Whole(x, e, f2)' \/ Passed(x, e)'
    <3>1. CASE Passed(x, e)
      <4>1. now' \in Nat /\ now <= now'
        BY <1>2
      <4> QED BY <1>3, <3>1, <4>1, PassedKept
    <3>2. CASE Whole(x, e, f) /\ InWindow(x, e) = {}
      <4>1. AllowedIn(x, e)' = {} /\ InWindow(x, e)' = {}
        BY <1>3, <3>2 DEF AllowedIn
      <4> QED BY <4>1, LimitPositive, FS_EmptySet DEF Whole
    <3>3. CASE Whole(x, e, f) /\ InWindow(x, e) # {}
      <4>1. PICK g \in InWindow(x, e) : TRUE
        BY <3>3
      <4>2. PICK k \in DOMAIN hits[x] : f[k] = g
        BY <2>1, <2>2, <3>3 DEF Whole
      <4>3. g.at = hits[x][k]
        BY <2>1, <2>2, <4>2 DEF Lists
      <4>4. g.at <= Cutoff(t)
        BY <1>5, <2>5, <4>3 DEF Counts
      <4>5. e < now /\ Cardinality(Waiting(x, e)) <= Cardinality(Threads) - 1
        BY <4>1, <4>4, WindowOver
      <4>6. Cardinality(AllowedIn(x, e)) <= Limit
        BY <3>3 DEF Whole
      <4>7. Cardinality(AllowedIn(x, e)) \in Nat /\ Cardinality(Waiting(x, e)) \in Nat
            /\ Cardinality(Threads) \in Nat
        BY WaitingThreads, HitsFinite, ThreadsFiniteSets DEF LimiterInv
      <4>8. Passed(x, e)
        BY <4>5, <4>6, <4>7, LimitPositive DEF Passed
      <4>9. now' \in Nat /\ now <= now'
        BY <1>2
      <4> QED BY <1>3, <4>8, <4>9, PassedKept
    <3> QED BY <1>2, <2>2, <2>5, <3>1, <3>2, <3>3 DEF Admitted
  <2>6. x \notin outOfOrder' => Admitted(x, f2)'
    BY <2>5 DEF Admitted
  <2> QED BY <2>3, <2>4, <2>6 DEF ListOK
<1> QED BY <1>4, <1>5

(* A hit counted behind a younger one was late for it before.              *)
LEMMA CountBehind ==
    ASSUME LimiterInv, NEW t \in Threads, NEW ip \in IPs, NEW h \in Entry,
           NEW kept \in SUBSET IPs, Counts(t, ip, h, kept)
    PROVE  LittleBehind'
<1>1. /\ HistoryOK' /\ h \notin history /\ history' = history \union {h} /\ h.ip = ip
      /\ \A g \in history : g.n < h.n
  BY CountHistory
<1>2. /\ Undecided' = Undecided \ {t} /\ t \in Undecided
      /\ \A s \in Undecided' : thr'[s] = thr[s]
  BY CountOwn
<1>3. h.at = thr[t].at /\ thr[t].ip = ip
  BY DEF Counts
<1> SUFFICES ASSUME NEW g \in history'
             PROVE  Cardinality(Behind(g)') + Cardinality(Late(g)') < Cardinality(Threads)
  BY DEF LittleBehind
<1>4. Cardinality(Threads) \in Nat
  BY ThreadsFinite, FS_CardinalityType
<1>5. CASE g \in history
  <2>1. Late(g)' \subseteq Late(g) \ {t} /\ Behind(g)' \subseteq Behind(g) \union {h}
    BY <1>1, <1>2 DEF Late, Behind
  <2>2. /\ IsFiniteSet(Behind(g)) /\ IsFiniteSet(Late(g))
        /\ Cardinality(Behind(g)) \in Nat /\ Cardinality(Late(g)) \in Nat
        /\ Cardinality(Late(g)') \in Nat /\ Cardinality(Behind(g)') \in Nat
    <3>1. Behind(g) \in SUBSET history /\ Late(g) \in SUBSET Threads
          /\ Late(g)' \in SUBSET Threads /\ Behind(g)' \in SUBSET history'
      BY <2>1 DEF Behind, Late, Undecided
    <3>2. IsFiniteSet(history') /\ IsFiniteSet(history)
      BY <1>1 DEF HistoryOK, LimiterInv
    <3> QED BY <3>1, <3>2, ThreadsFinite, FS_Subset, FS_CardinalityType
  <2>3. Cardinality(Behind(g)') + Cardinality(Late(g)')
            <= Cardinality(Behind(g)) + Cardinality(Late(g))
    <3>1. CASE h \in Behind(g)'
      <4>1. t \in Late(g)
        BY <1>1, <1>2, <1>3, <3>1 DEF Behind, Late
      <4> QED BY <2>1, <2>2, <4>1, SumMoves
    <3>2. CASE h \notin Behind(g)'
      <4>1. Behind(g)' \in SUBSET Behind(g) /\ Late(g)' \in SUBSET Late(g)
        BY <2>1, <3>2
      <4> QED BY <2>2, <4>1, SumShrinks
    <3> QED BY <3>1, <3>2
  <2>4. Cardinality(Behind(g)) + Cardinality(Late(g)) < Cardinality(Threads)
    BY <1>5 DEF LimiterInv, LittleBehind
  <2> QED BY <1>4, <2>2, <2>3, <2>4
<1>6. CASE g = h
  <2>1. Behind(h)' = {}
    <3>1. \A k \in history' : ~(k.n > h.n)
      BY <1>1 DEF Entry, LimiterInv, HistoryOK
    <3> QED BY <3>1 DEF Behind
  <2>2. Late(h)' \in SUBSET (Threads \ {t})
    BY <1>2 DEF Late, Undecided
  <2>3. Cardinality(Late(h)') <= Cardinality(Threads) - 1 /\ Cardinality(Late(h)') \in Nat
    BY <2>2, AllButOne
  <2> QED BY <1>4, <1>6, <2>1, <2>3, FS_EmptySet
<1> QED BY <1>1, <1>5, <1>6

(* A rejected hit has more than Limit hits in its list, itself the last:    *)
(* the first is younger than a window, and expired ones are behind it.     *)
LEMMA CountRejects ==
    ASSUME LimiterInv, NEW t \in Threads, NEW ip \in IPs, NEW h \in Entry,
           NEW kept \in SUBSET IPs, Counts(t, ip, h, kept)
    PROVE  RejectionsJustified'
<1>1. PICK n, f, f2 : Grows(ip, h, n, f, f2)
  BY CountList
<1>2. /\ n \in Nat /\ f \in [1..n -> history] /\ f2 \in [1..(n + 1) -> history']
      /\ n = Len(hits[ip]) /\ ListOf(ip) = hits[ip]
      /\ \A k \in 1..n : f2[k] = f[k]
      /\ f2[n + 1] = h /\ DOMAIN f2 = 1..(n + 1) /\ DOMAIN f = 1..n
      /\ Lists(ip, f) /\ Lists(ip, f2)'
  BY <1>1 DEF Grows
<1>3. /\ HistoryOK' /\ h \notin history /\ history' = history \union {h} /\ h.ip = ip
      /\ \A g \in history : g.n < h.n /\ history' \subseteq Entry
  BY CountHistory DEF HistoryOK
<1> DEFINE Fresh(g) == {k \in history' : k.ip = g.ip /\ k.n <= g.n /\ k.at > g.at - Window}
<1>4. ASSUME NEW g \in history, ~g.allowed
      PROVE  /\ Cardinality(Fresh(g)) > Limit - (Cardinality(Threads) - 1)
             /\ Cardinality(Fresh(g)) > 1
  <2>1. ~(h.n <= g.n)
    BY <1>3 DEF Entry, LimiterInv, HistoryOK
  <2>2. Fresh(g) = {k \in history : k.ip = g.ip /\ k.n <= g.n /\ k.at > g.at - Window}
    BY <1>3, <2>1
  <2> HIDE DEF Fresh
  <2> QED BY <1>4, <2>2 DEF LimiterInv, RejectionsJustified
<1>5. ASSUME ~h.allowed
      PROVE  /\ Cardinality(Fresh(h)) > Limit - (Cardinality(Threads) - 1)
             /\ Cardinality(Fresh(h)) > 1
  <2>1. n + 1 > Limit /\ n >= 1 /\ Limit \in Nat
    BY <1>2, <1>5, LimitPositive DEF Counts
  <2> DEFINE All == {f2[k] : k \in 1..(n + 1)}
  <2> DEFINE Old == {g \in All : ~(g.at > h.at - Window)}
  <2>2. \A j, k \in 1..(n + 1) : j < k => f2[j].n < f2[k].n
    BY <1>2 DEF Lists
  <2>3. \A k \in 1..(n + 1) : f2[k] \in Entry /\ f2[k].ip = ip /\ f2[k] \in history'
    <3>1. \A k \in DOMAIN f2 : f2[k].ip = ip
      BY <1>2 DEF Lists
    <3> QED BY <1>2, <1>3, <3>1
  <2>4. IsFiniteSet(All) /\ Cardinality(All) = n + 1
    <3>1. \A j, k \in 1..(n + 1) : j < k => f2[j] # f2[k]
      BY <2>2, <2>3 DEF Entry
    <3>2. n + 1 \in Nat
      BY <1>2
    <3>3. f2 \in [1..(n + 1) -> history']
      BY <1>2
    <3> QED BY <3>1, <3>2, <3>3, ListCounts, Zenon
  <2>5. /\ 1 \in 1..(n + 1) /\ n + 1 \in 1..(n + 1) /\ 1 < n + 1
    BY <1>2, <2>1
  <2>6. f2[1].at > h.at - Window
    <3>1. hits[ip] # <<>>
      BY <1>2, <2>1 DEF Counts, LimiterInv, TypeOK
    <3>2. hits[ip][1] > h.at - Window
      BY <3>1 DEF Counts
    <3>3. f[1].at = hits[ip][1] /\ f2[1] = f[1]
      BY <1>2, <2>1 DEF Lists
    <3> QED BY <3>2, <3>3
  <2>7. \A k \in 1..(n + 1) : f2[k].n <= h.n
    <3> SUFFICES ASSUME NEW k \in 1..(n + 1) PROVE f2[k].n <= h.n
      OBVIOUS
    <3>1. CASE k = n + 1
      BY <1>2, <3>1 DEF Entry
    <3>2. CASE k < n + 1
      <4>1. f2[k].n < f2[n + 1].n
        BY <2>2, <2>5, <3>2
      <4>2. f2[k].n \in Nat /\ h.n \in Nat
        BY <2>3 DEF Entry
      <4> QED BY <1>2, <4>1, <4>2
    <3> QED BY <1>2, <3>1, <3>2
  <2>8. All \subseteq Fresh(h) \union Old
    BY <1>3, <2>3, <2>7
  <2>9. Old \subseteq Behind(f2[1])'
    <3> SUFFICES ASSUME NEW k \in 1..(n + 1), ~(f2[k].at > h.at - Window)
                 PROVE  f2[k] \in Behind(f2[1])'
      OBVIOUS
    <3>1. k # 1
      BY <2>6
    <3>2. f2[k].n > f2[1].n
      BY <2>2, <2>3, <2>5, <3>1 DEF Entry
    <3>3. f2[k].at < f2[1].at
      <4>1. f2[k].at \in Nat /\ f2[1].at \in Nat /\ h.at \in Nat
        BY <2>3, <2>5 DEF Entry
      <4> QED BY <2>6, <4>1, WindowType
    <3> QED BY <2>3, <2>5, <3>2, <3>3 DEF Behind
  <2>10. /\ IsFiniteSet(Old) /\ Cardinality(Old) \in Nat
         /\ Cardinality(Old) < Cardinality(Threads) /\ Cardinality(Threads) \in Nat
    <3>1. f2[1] \in history'
      BY <2>3, <2>5
    <3>2. Cardinality(Behind(f2[1])') + Cardinality(Late(f2[1])') < Cardinality(Threads)
      BY <3>1, CountBehind DEF LittleBehind
    <3>3. Behind(f2[1])' \in SUBSET history' /\ Late(f2[1])' \in SUBSET Threads
      BY DEF Behind, Late, Undecided
    <3>4. IsFiniteSet(Behind(f2[1])')
      BY <1>3, <3>3, FS_Subset DEF HistoryOK
    <3>5. /\ Cardinality(Behind(f2[1])') \in Nat /\ Cardinality(Late(f2[1])') \in Nat
          /\ Cardinality(Threads) \in Nat
      BY <3>3, <3>4, ThreadsFinite, FS_Subset, FS_CardinalityType
    <3>6. Old \in SUBSET Behind(f2[1])'
      BY <2>9
    <3>7. IsFiniteSet(Old) /\ Cardinality(Old) <= Cardinality(Behind(f2[1])')
      BY <3>4, <3>6, FS_Subset
    <3>8. Cardinality(Old) \in Nat
      BY <3>7, FS_CardinalityType
    <3> QED BY <3>2, <3>5, <3>7, <3>8
  <2>11. IsFiniteSet(Fresh(h)) /\ Cardinality(Fresh(h)) \in Nat
    <3>1. Fresh(h) \in SUBSET history'
      OBVIOUS
    <3> QED BY <1>3, <3>1, FS_Subset, FS_CardinalityType DEF HistoryOK
  <2>12. Cardinality(All) <= Cardinality(Fresh(h)) + Cardinality(Old)
    <3> HIDE DEF All, Fresh, Old
    <3> QED BY <2>8, <2>10, <2>11, SplitBound
  <2>13. Cardinality(Fresh(h)) > 1
    <3>1. f2[1] \in Fresh(h) /\ h \in Fresh(h) /\ f2[1] # h
      <4>1. h.at > h.at - Window
        BY WindowType DEF Entry
      <4>2. h.n <= h.n
        BY DEF Entry
      <4>3. f2[1] # h
        <5>1. f2[1].n < f2[n + 1].n /\ f2[1].n \in Nat
          BY <2>2, <2>3, <2>5 DEF Entry
        <5> QED BY <1>2, <5>1
      <4> QED BY <1>3, <2>3, <2>5, <2>6, <2>7, <4>1, <4>2, <4>3
    <3> HIDE DEF Fresh
    <3>2. IsFiniteSet({f2[1]}) /\ Cardinality({f2[1]}) = 1
      BY FS_Singleton
    <3>3. {f2[1]} \in SUBSET Fresh(h) /\ {f2[1]} # Fresh(h)
      BY <3>1
    <3>4. 1 <= Cardinality(Fresh(h)) /\ 1 # Cardinality(Fresh(h))
      BY <2>11, <3>2, <3>3, FS_Subset
    <3> QED BY <2>11, <3>4
  <2> HIDE DEF Fresh, All, Old
  <2> QED BY <1>2, <2>1, <2>4, <2>10, <2>11, <2>12, <2>13
<1>6. ASSUME NEW g \in history', ~g.allowed
      PROVE  /\ Cardinality(Fresh(g)) > Limit - (Cardinality(Threads) - 1)
             /\ Cardinality(Fresh(g)) > 1
  BY <1>3, <1>4, <1>5, <1>6
<1> QED BY <1>6 DEF RejectionsJustified

(* Nobody's own hit is lost: a list in order is swept when it has expired. *)
LEMMA CountHits ==
    ASSUME LimiterInv, NEW t \in Threads, NEW ip \in IPs, NEW h \in Entry,
           NEW kept \in SUBSET IPs, Counts(t, ip, h, kept)
    PROVE  HitsStay' /\ RetryAfterSane'
<1>1. /\ h.allowed => thr'[t].step = "idle"
      /\ ~h.allowed => /\ thr'[t].step = "limited" /\ thr'[t].ip = ip
                       /\ thr'[t].hit = h.at /\ thr'[t].swept = FALSE
      /\ h.at \in Nat /\ h.at <= now /\ now \in Nat
  BY CountOwn
<1>2. /\ now' = now /\ outOfOrder \subseteq outOfOrder' /\ kept = DOMAIN hits'
      /\ hits'[ip] = Append(hits[ip], h.at) /\ ip \in kept /\ h.at = thr[t].at
      /\ \A x \in kept : x # ip => hits'[x] = hits[x]
      /\ \A x \in DOMAIN hits \ kept :
            x \notin outOfOrder' => \A k \in DOMAIN hits[x] : hits[x][k] <= Cutoff(t)
  BY DEF Counts
<1>3. \A s \in Threads : s # t =>
          /\ thr'[s].step = thr[s].step /\ thr'[s].ip = thr[s].ip /\ thr'[s].hit = thr[s].hit
          /\ thr'[s].at = thr[s].at /\ thr'[s].result = thr[s].result
          /\ \/ thr'[s] = thr[s]
             \/ thr[s].step \in Holding /\ thr[s].ip \notin kept
  BY DEF Counts
<1>4. hits[ip] \in Seq(Nat) /\ \A x \in DOMAIN hits : hits[x] \in Seq(Nat)
  BY DEF Counts, LimiterInv, TypeOK
<1>5. PICK n \in Nat : /\ n = Len(hits[ip]) /\ DOMAIN hits[ip] = 1..n
                       /\ DOMAIN hits'[ip] = 1..(n + 1) /\ hits'[ip][n + 1] = h.at
                       /\ \A k \in 1..n : k \in 1..(n + 1) /\ hits'[ip][k] = hits[ip][k]
  <2>1. PICK n \in Nat : n = Len(hits[ip])
    BY <1>4
  <2>2. DOMAIN hits[ip] = 1..n /\ DOMAIN hits'[ip] = 1..(n + 1) /\ hits'[ip][n + 1] = h.at
    BY <1>1, <1>2, <1>4, <2>1
  <2>3. \A k \in 1..n : k \in 1..(n + 1) /\ hits'[ip][k] = hits[ip][k]
    BY <1>1, <1>2, <1>4, <2>1
  <2> QED BY <2>1, <2>2, <2>3
<1>6. \A k \in 1..(n + 1) : hits'[ip][k] <= now
  <2>1. PICK m, f, f2 : Grows(ip, h, m, f, f2)
    BY CountList
  <2>2. \A k \in 1..n : f[k] \in history /\ f[k].at = hits[ip][k]
    BY <1>5, <2>1 DEF Grows, Lists
  <2>3. \A k \in 1..n : hits[ip][k] <= now
    BY <2>2 DEF LimiterInv, HistoryOK
  <2> QED BY <1>1, <1>5, <2>3
<1>7. HitsStay'
  <2> SUFFICES ASSUME NEW s \in Threads, thr'[s].step \in Reading, now - thr'[s].hit < Window,
                      thr'[s].ip \notin outOfOrder'
               PROVE  HasHit(s, IF At(s, "limited") THEN now ELSE thr[s].at)'
    BY <1>2 DEF HitsStay
  <2>1. CASE s = t
    <3>1. thr'[t].step = "limited" /\ thr'[t].ip = ip /\ thr'[t].hit = h.at /\ ~thr'[t].swept
      BY <1>1, <2>1 DEF Reading, Holding
    <3>2. n + 1 \in 1..(n + 1) /\ \A j \in 1..(n + 1) : hits'[ip][j] <= now
      BY <1>6
    <3> QED BY <1>2, <1>5, <2>1, <3>1, <3>2 DEF HasHit, Tracked, At
  <2>2. CASE s # t
    <3> DEFINE x == thr[s].ip
    <3>1. /\ thr'[s].step = thr[s].step /\ thr'[s].ip = x /\ thr'[s].hit = thr[s].hit
          /\ thr'[s].at = thr[s].at /\ x \notin outOfOrder'
          /\ \/ thr'[s] = thr[s]
             \/ thr[s].step \in Holding /\ x \notin kept
      BY <1>3, <2>2
    <3> DEFINE clock == IF At(s, "limited") THEN now ELSE thr[s].at
    <3>2. HasHit(s, clock)
      BY <1>2, <3>1 DEF LimiterInv, HitsStay
    <3>3. PICK k \in DOMAIN hits[x] : hits[x][k] = thr[s].hit
                                      /\ \A j \in 1..k : hits[x][j] <= clock
      BY <3>2 DEF HasHit
    <3>4. x \in DOMAIN hits /\ ~thr[s].swept
      BY <3>2 DEF HasHit, Tracked
    <3>5. x \in kept
      <4> SUFFICES ASSUME x \notin kept PROVE FALSE
        OBVIOUS
      <4>1. hits[x][k] <= Cutoff(t)
        BY <1>2, <3>1, <3>4
      <4>2. thr[s].hit \in Nat /\ thr[t].at \in Nat /\ thr[t].at <= now
        BY CallFacts
      <4> QED BY <1>1, <3>1, <3>3, <4>1, <4>2, WindowType DEF Cutoff
    <3>6. /\ k \in DOMAIN hits'[x] /\ hits'[x][k] = thr[s].hit
          /\ \A j \in 1..k : hits'[x][j] <= clock
      <4>1. CASE x # ip
        BY <1>2, <3>3, <3>5, <4>1
      <4>2. CASE x = ip
        <5>1. \A j \in 1..k : j \in 1..n
          BY <1>5, <3>3, <4>2
        <5> QED BY <1>5, <3>3, <4>2, <5>1
      <4> QED BY <4>1, <4>2
    <3> QED BY <1>2, <3>1, <3>4, <3>5, <3>6 DEF HasHit, Tracked, At
  <2> QED BY <2>1, <2>2
<1>8. RetryAfterSane'
  <2> SUFFICES ASSUME NEW s \in Threads, thr'[s].step = "done", now - thr'[s].hit < Window,
                      thr'[s].ip \notin outOfOrder'
               PROVE  thr'[s].result \in 1..WindowSeconds
    BY <1>2 DEF RetryAfterSane
  <2>1. s # t
    BY <1>1
  <2> QED BY <1>2, <1>3, <2>1 DEF LimiterInv, RetryAfterSane
<1> QED BY <1>7, <1>8

(* Counting a hit keeps the invariant.                                     *)
LEMMA CountInv ==
    ASSUME LimiterInv, NEW t \in Threads, Count(t)
    PROVE  LimiterInv'
<1>1. PICK ip \in IPs, h \in Entry, kept \in SUBSET IPs : Counts(t, ip, h, kept)
  BY CountCounts
<1>2. TypeOK' /\ CallsOK'
  BY <1>1, CountTypes
<1>3. HistoryOK'
  BY <1>1, CountHistory
<1>4. ListsOK'
  <2>1. ListOK(ip)'
    BY <1>1, CountAdmits
  <2>2. ASSUME NEW x \in IPs, x # ip PROVE ListOK(x)'
    BY <1>1, <2>2, CountOthers
  <2> QED BY <2>1, <2>2 DEF ListsOK
<1>5. LittleBehind'
  BY <1>1, CountBehind
<1>6. RejectionsJustified'
  BY <1>1, CountRejects
<1>7. HitsStay' /\ RetryAfterSane'
  BY <1>1, CountHits
<1> QED BY <1>2, <1>3, <1>4, <1>5, <1>6, <1>7 DEF LimiterInv

-----------------------------------------------------------------------------
(* The invariant holds initially.                                          *)
LEMMA InitInv == Init => LimiterInv
<1> SUFFICES ASSUME Init PROVE LimiterInv
  OBVIOUS
<1>1. /\ now = 0 /\ DOMAIN hits = {} /\ lock = NoThread /\ history = {} /\ outOfOrder = {}
      /\ thr \in [Threads -> CallType]
      /\ \A t \in Threads : /\ thr[t].step = "idle" /\ thr[t].at = 0 /\ thr[t].hit = 0
                            /\ thr[t].swept = FALSE
  <2>1. /\ Idle \in CallType /\ Idle.step = "idle" /\ Idle.at = 0 /\ Idle.hit = 0
        /\ Idle.swept = FALSE
    BY DEF Idle, Call, CallType, Steps
  <2> QED BY <2>1 DEF Init
<1>2. TypeOK
  BY <1>1, NoIPAssumption DEF TypeOK, Steps, NoThread
<1>3. CallsOK
  BY <1>1 DEF CallsOK, Undecided, Holding
<1>4. HistoryOK
  BY <1>1, FS_EmptySet DEF HistoryOK
<1>5. ListsOK
  <2> SUFFICES ASSUME NEW ip \in IPs PROVE ListOK(ip)
    BY DEF ListsOK
  <2>1. ListOf(ip) = <<>>
    BY <1>1 DEF ListOf, Tracked
  <2>2. PICK f \in [DOMAIN ListOf(ip) -> history] : DOMAIN f = {}
    <3>1. DOMAIN ListOf(ip) = {}
      BY <2>1
    <3>2. [k \in {} |-> 0] \in [{} -> history] /\ DOMAIN [k \in {} |-> 0] = {}
      OBVIOUS
    <3> QED BY <3>1, <3>2
  <2>3. Lists(ip, f)
    BY <2>2 DEF Lists
  <2>4. ASSUME NEW e \in Nat PROVE Whole(ip, e, f)
    <3>1. InWindow(ip, e) = {} /\ AllowedIn(ip, e) = {}
      BY <1>1 DEF InWindow, AllowedIn
    <3> QED BY <3>1, FS_EmptySet, LimitPositive DEF Whole
  <2> QED BY <2>3, <2>4 DEF ListOK, Admitted
<1>6. LittleBehind /\ RejectionsJustified
  BY <1>1 DEF LittleBehind, RejectionsJustified
<1>7. HitsStay /\ RetryAfterSane
  BY <1>1 DEF HitsStay, RetryAfterSane, Reading, Holding
<1> QED BY <1>2, <1>3, <1>4, <1>5, <1>6, <1>7 DEF LimiterInv

(* A step that changes nothing keeps it.                                   *)
LEMMA StutterInv == LimiterInv /\ UNCHANGED vars => LimiterInv'
<1> SUFFICES ASSUME LimiterInv, UNCHANGED vars PROVE LimiterInv'
  OBVIOUS
<1>1. UNCHANGED <<now, hits, lock, thr, history, outOfOrder>>
  BY DEF vars, ghosts
<1>2. TypeOK' /\ CallsOK' /\ HistoryOK'
  BY <1>1 DEF LimiterInv, TypeOK, CallsOK, HistoryOK, Undecided, Tracked
<1>3. ListsOK'
  <2>1. \A ip \in IPs : ListOf(ip)' = ListOf(ip) /\ \A e \in Nat : Waiting(ip, e)' = Waiting(ip, e)
    BY <1>1 DEF ListOf, Tracked, Waiting, Undecided
  <2>2. now \in Nat
    BY DEF LimiterInv, TypeOK
  <2>3. ASSUME NEW ip \in IPs PROVE ListOK(ip)'
    BY <1>1, <2>1, <2>2, ListKept
  <2> QED BY <2>3 DEF ListsOK
<1>4. LittleBehind'
  <2>1. \A h \in history : Late(h)' = Late(h)
    BY <1>1 DEF Late, Undecided
  <2> QED BY <1>1, <2>1, BehindKept
<1>5. RejectionsJustified' /\ RetryAfterSane'
  BY <1>1 DEF LimiterInv, RejectionsJustified, RetryAfterSane
<1>6. HitsStay'
  BY <1>1 DEF LimiterInv, HitsStay, HasHit, At, Tracked
<1> QED BY <1>2, <1>3, <1>4, <1>5, <1>6 DEF LimiterInv

(* Every step of a thread and of the clock keeps the invariant.            *)
LEMMA StepInv == LimiterInv /\ [Next]_vars => LimiterInv'
<1> SUFFICES ASSUME LimiterInv, [Next]_vars PROVE LimiterInv'
  OBVIOUS
<1>1. CASE Tick
  BY <1>1, TickInv
<1>2. CASE Rest \/ UNCHANGED vars
  BY <1>2, StutterInv DEF Rest
<1>3. ASSUME NEW t \in Threads, ThreadStep(t) PROVE LimiterInv'
  <2>1. ASSUME NEW ip \in IPs, Stamp(t, ip) PROVE LimiterInv'
    BY <2>1, StampQuiet, QuietInv
  <2>2. CASE Acquire(t)
    BY <2>2, AcquireInv
  <2>3. CASE Prune(t)
    BY <2>3, PruneInv
  <2>4. CASE Count(t)
    BY <2>4, CountInv
  <2>5. CASE ResetStamp(t) \/ Fetch(t) \/ Respond(t)
    BY <2>5, ResetQuiet, QuietInv
  <2>6. CASE CheckEmpty(t) \/ ReadOldest(t)
    BY <2>6, ReadQuiet, QuietInv
  <2> QED BY <1>3, <2>1, <2>2, <2>3, <2>4, <2>5, <2>6 DEF ThreadStep
<1> QED BY <1>1, <1>2, <1>3 DEF Next

(* The inductive invariant.                                                *)
THEOREM LimiterInvariant == Spec => []LimiterInv
<1>1. Init => LimiterInv
  BY InitInv
<1>2. LimiterInv /\ [Next]_vars => LimiterInv'
  BY StepInv
<1> QED BY <1>1, <1>2, PTL DEF Spec

(* The lock is held by the thread that prunes and counts, and by no other. *)
THEOREM TypeCorrect == Spec => []TypeOK
<1>1. LimiterInv => TypeOK
  BY DEF LimiterInv
<1> QED BY <1>1, LimiterInvariant, PTL

(* No window admits more than the limit and one request for each of the    *)
(* other threads.                                                          *)
THEOREM AdmissionIsBounded == Spec => []AdmissionBounded
<1>1. LimiterInv => AdmissionBounded
  <2> SUFFICES ASSUME LimiterInv, NEW h \in history, h.ip \notin outOfOrder
               PROVE  Cardinality(AllowedIn(h.ip, h.at)) <= Limit + Cardinality(Threads) - 1
    BY DEF AdmissionBounded, AllowedIn
  <2>1. PICK ip \in IPs, e \in Nat : h.ip = ip /\ h.at = e
    BY DEF LimiterInv, HistoryOK, Entry
  <2>2. PICK f \in [DOMAIN ListOf(ip) -> history] : Whole(ip, e, f) \/ Passed(ip, e)
    BY <2>1 DEF LimiterInv, ListsOK, ListOK, Admitted
  <2>3. /\ Cardinality(AllowedIn(ip, e)) \in Nat /\ Cardinality(Waiting(ip, e)) \in Nat
        /\ Cardinality(Threads) \in Nat
    BY WaitingThreads, HitsFinite, ThreadsFiniteSets DEF LimiterInv
  <2>4. Cardinality(Threads) >= 1
    BY <2>3, ThreadsFinite, FS_EmptySet DEF LimiterInv, HistoryOK
  <2>5. CASE Whole(ip, e, f)
    BY <2>1, <2>3, <2>4, <2>5, LimitPositive DEF Whole
  <2>6. CASE Passed(ip, e)
    BY <2>1, <2>3, <2>6, LimitPositive DEF Passed
  <2> QED BY <2>2, <2>5, <2>6
<1> QED BY <1>1, LimiterInvariant, PTL

(* Nobody is throttled without cause.                                      *)
THEOREM RejectionsAreJustified == Spec => []RejectionsJustified
<1>1. LimiterInv => RejectionsJustified
  BY DEF LimiterInv
<1> QED BY <1>1, LimiterInvariant, PTL

(* Retry-After is a real delay although its list is read without the lock. *)
THEOREM RetryAfterIsSane == Spec => []RetryAfterSane
<1>1. LimiterInv => RetryAfterSane
  BY DEF LimiterInv
<1> QED BY <1>1, LimiterInvariant, PTL
=============================================================================
