----------------------------- MODULE RateLimiter -----------------------------
(***************************************************************************)
(* The in-memory sliding-window limiter (utils/rate_limit.py) under        *)
(* several threads of one process.  Both functions read the clock before   *)
(* they take the lock, and seconds_until_reset() reads the list after it   *)
(* has released it.  Step of thr[t]:                                       *)
(*   idle     no call in progress                                          *)
(*   stamped  is_rate_limited() has read the clock, waits for the lock     *)
(*   locked   it holds the lock and drops expired hits one by one          *)
(*   limited  it returned True; seconds_until_reset() is about to start    *)
(*   fetch    seconds_until_reset() has read the clock, waits for the lock *)
(*   check    it has the list and released the lock; is the list empty?    *)
(*   read     no: it is about to read the oldest hit                       *)
(*   done     it has returned, or raised IndexError                        *)
(***************************************************************************)
EXTENDS Integers, FiniteSets, Sequences

CONSTANTS
    Threads, IPs, NoIP,
    Limit,          \* WEBSENTINEL_RATE_LIMIT, when it is not 0
    WindowSeconds,  \* WEBSENTINEL_RATE_LIMIT_WINDOW
    TicksPerSecond, \* resolution of time.monotonic()
    MaxTracked,     \* _MAX_TRACKED_IPS
    MaxTime,        \* bound on the clock, in ticks
    MaxHits         \* bound on the requests made

ASSUME ThreadsFinite == IsFiniteSet(Threads)
ASSUME NoIPAssumption == NoIP \notin IPs \union Threads
ASSUME LimitPositive == Limit \in Nat \ {0}
ASSUME WindowPositive == WindowSeconds \in Nat \ {0} /\ TicksPerSecond \in Nat \ {0}
ASSUME BoundsNat == MaxTracked \in Nat /\ MaxTime \in Nat /\ MaxHits \in Nat

VARIABLES
    now,        \* time.monotonic()
    hits,       \* _hits: the tracked ips and their lists of timestamps
    lock,       \* the thread that holds _lock
    thr,        \* per thread: the call in progress
    history,    \* every hit counted, with its verdict (for the properties only)
    outOfOrder  \* ips whose list was swept with a hit still in the window (likewise)

ghosts == <<history, outOfOrder>>
vars == <<now, hits, lock, thr, ghosts>>

Window == WindowSeconds * TicksPerSecond
Steps == {"idle", "stamped", "locked", "limited", "fetch", "check", "read", "done"}
NoThread == NoIP        \* the lock is free
IndexError == -1        \* result of a call that raised

\* A call: its step and ip, the timestamp of its hit, the clock it has read,
\* the list it holds when a sweep has dropped it, and its result.
Call(step, ip, hit, at) ==
    [step |-> step, ip |-> ip, hit |-> hit, at |-> at, list |-> <<>>, swept |-> FALSE,
     result |-> 0]
Idle == Call("idle", NoIP, 0, 0)

At(t, step) == thr[t].step = step
Go(t, call) == thr' = [thr EXCEPT ![t] = call]
To(t, step) == Go(t, [thr[t] EXCEPT !.step = step])

Tracked(ip) == ip \in DOMAIN hits
Cutoff(t) == thr[t].at - Window
Holding == {"check", "read"}

\* The list a thread reads outside the lock.
Held(t) == IF thr[t].swept THEN thr[t].list ELSE hits[thr[t].ip]

-----------------------------------------------------------------------------
Init ==
    /\ now = 0
    /\ hits = [ip \in {} |-> <<>>]
    /\ lock = NoThread
    /\ thr = [t \in Threads |-> Idle]
    /\ history = {} /\ outOfOrder = {}

Undecided == {t \in Threads : thr[t].step \in {"stamped", "locked"}}

(* is_rate_limited(): the clock is read first. *)
Stamp(t, ip) ==
    /\ At(t, "idle") /\ Cardinality(history) + Cardinality(Undecided) < MaxHits
    /\ Go(t, Call("stamped", ip, now, now))
    /\ UNCHANGED <<now, hits, lock, ghosts>>

\* Mutant: the lock is not waited for.
AcquireAnyway(t) ==
    /\ At(t, "stamped")
    /\ lock' = t
    /\ hits' = IF Tracked(thr[t].ip) THEN hits
               ELSE [ip \in DOMAIN hits \union {thr[t].ip} |->
                        IF ip = thr[t].ip THEN <<>> ELSE hits[ip]]
    /\ To(t, "locked")
    /\ UNCHANGED <<now, ghosts>>

(* Take the lock; an unknown ip gets an empty list. *)
Acquire(t) ==
    /\ At(t, "stamped") /\ lock = NoThread
    /\ lock' = t
    /\ hits' = IF Tracked(thr[t].ip) THEN hits
               ELSE [ip \in DOMAIN hits \union {thr[t].ip} |->
                        IF ip = thr[t].ip THEN <<>> ELSE hits[ip]]
    /\ To(t, "locked")
    /\ UNCHANGED <<now, ghosts>>

\* Mutant: a hit exactly one window old is kept.
HeadExpiredStrict(t) ==
    LET list == hits[thr[t].ip] IN list # <<>> /\ Head(list) < Cutoff(t)

HeadExpired(t) ==
    LET list == hits[thr[t].ip] IN list # <<>> /\ Head(list) <= Cutoff(t)

Prune(t) ==
    /\ At(t, "locked") /\ HeadExpired(t)
    /\ hits' = [hits EXCEPT ![thr[t].ip] = Tail(@)]
    /\ UNCHANGED <<now, lock, thr, ghosts>>

\* Mutant: the request is judged as if it had not been counted.
LimitedLate(list) == Len(list) - 1 > Limit

Limited(list) == Len(list) > Limit

Counted(t) == [hits EXCEPT ![thr[t].ip] = Append(@, thr[t].at)]

\* The lists the sweep keeps: those whose last entry is in the window.
Kept(t, lists) ==
    IF Cardinality(DOMAIN lists) <= MaxTracked THEN DOMAIN lists
    ELSE {ip \in DOMAIN lists : lists[ip] # <<>> /\ lists[ip][Len(lists[ip])] > Cutoff(t)}

(* Count the request, sweep, decide, release the lock. *)
Count(t) ==
    /\ At(t, "locked") /\ ~HeadExpired(t)
    /\ LET ip == thr[t].ip
           all == Counted(t)
           limited == Limited(all[ip])
           kept == Kept(t, all)
       IN  /\ hits' = [x \in kept |-> all[x]]
           /\ thr' = [s \in Threads |->
                  IF s = t THEN (IF limited THEN [thr[t] EXCEPT !.step = "limited"] ELSE Idle)
                  ELSE IF thr[s].step \in Holding /\ ~thr[s].swept /\ thr[s].ip \notin kept
                       THEN [thr[s] EXCEPT !.swept = TRUE, !.list = all[thr[s].ip]]
                       ELSE thr[s]]
           /\ history' = history \union
                  {[n |-> Cardinality(history) + 1, ip |-> ip, at |-> thr[t].at,
                    allowed |-> ~limited]}
           /\ outOfOrder' = outOfOrder \union
                  {x \in DOMAIN all \ kept : \E k \in DOMAIN all[x] : all[x][k] > Cutoff(t)}
    /\ lock' = NoThread
    /\ UNCHANGED now

(* seconds_until_reset(): the clock is read again ... *)
ResetStamp(t) ==
    /\ At(t, "limited")
    /\ Go(t, [thr[t] EXCEPT !.step = "fetch", !.at = now])
    /\ UNCHANGED <<now, hits, lock, ghosts>>

(* ... the list is fetched under the lock: `_hits.get(ip) or []` ...       *)
Fetch(t) ==
    /\ At(t, "fetch") /\ lock = NoThread
    /\ Go(t, [thr[t] EXCEPT !.step = "check", !.swept = ~Tracked(thr[t].ip)])
    /\ UNCHANGED <<now, hits, lock, ghosts>>

(* ... and looked at after its release.                                    *)
Answer(t, seconds) ==
    /\ Go(t, [thr[t] EXCEPT !.step = "done", !.result = seconds])
    /\ UNCHANGED <<now, hits, lock, ghosts>>

CheckEmpty(t) ==
    /\ At(t, "check")
    /\ IF Held(t) = <<>> THEN Answer(t, 0)
       ELSE To(t, "read") /\ UNCHANGED <<now, hits, lock, ghosts>>

\* int(): the fraction of a second is dropped, towards zero.
WholeSeconds(ticks) == IF ticks >= 0 THEN ticks \div TicksPerSecond
                       ELSE -((-ticks) \div TicksPerSecond)
\* Mutant: the lower bound is forgotten.
AtLeastZero(n) == IF n > 0 THEN n ELSE 0
AtLeastOne(n) == IF n > 1 THEN n ELSE 1

ReadOldest(t) ==
    /\ At(t, "read")
    /\ IF Held(t) = <<>>
       THEN /\ Go(t, [thr[t] EXCEPT !.step = "done", !.result = IndexError])
            /\ UNCHANGED <<now, hits, lock, ghosts>>
       ELSE Answer(t, AtLeastOne(WholeSeconds(Window - (thr[t].at - Head(Held(t))))))

(* The 429 (or the 500) is sent. *)
Respond(t) ==
    /\ At(t, "done")
    /\ Go(t, Idle)
    /\ UNCHANGED <<now, hits, lock, ghosts>>

Tick ==
    /\ now < MaxTime
    /\ now' = now + 1
    /\ UNCHANGED <<hits, lock, thr, ghosts>>

ThreadStep(t) ==
    \/ \E ip \in IPs : Stamp(t, ip)
    \/ Acquire(t) \/ Prune(t) \/ Count(t)
    \/ ResetStamp(t) \/ Fetch(t) \/ CheckEmpty(t) \/ ReadOldest(t) \/ Respond(t)

(* No request comes. *)
Rest == (\A t \in Threads : At(t, "idle")) /\ UNCHANGED vars

Next == Tick \/ Rest \/ \E t \in Threads : ThreadStep(t)

Spec == Init /\ [][Next]_vars

-----------------------------------------------------------------------------
(* Properties *)

TypeOK ==
    /\ now \in Nat
    /\ DOMAIN hits \subseteq IPs
    /\ \A ip \in DOMAIN hits : hits[ip] \in Seq(Nat)
    /\ lock \in Threads \union {NoThread}
    /\ \A t \in Threads :
          /\ thr[t].step \in Steps
          /\ thr[t].step # "idle" => thr[t].ip \in IPs
          /\ lock = t <=> thr[t].step = "locked"

InWindow(ip, at) == {h \in history : h.ip = ip /\ h.at > at - Window /\ h.at <= at}

(* The limit itself ("`limit` requests are allowed per window"), with the  *)
(* slack of reading the clock outside the lock: a request that waited for  *)
(* the lock is judged by its old clock after younger requests have pruned, *)
(* so of the allowed requests stamped in any one window, all but one of    *)
(* the threads may add one.  With one thread: at most Limit.  A sweep that *)
(* drops an out-of-order list forgets its ip altogether.                   *)
AdmissionBounded ==
    \A h \in history :
        h.ip \notin outOfOrder =>
        Cardinality({g \in InWindow(h.ip, h.at) : g.allowed})
            <= Limit + Cardinality(Threads) - 1

(* Nobody is throttled without cause: a rejected request has more than     *)
(* Limit requests of its ip counted in its window, itself included, but    *)
(* for at most one expired hit per other thread that is stuck behind a     *)
(* younger one; and always at least one besides itself, so a client that   *)
(* stays quiet for a window is let in.                                     *)
RejectionsJustified ==
    \A h \in history :
        ~h.allowed =>
            LET counted == {g \in history : g.ip = h.ip /\ g.n <= h.n /\ g.at > h.at - Window}
            IN  /\ Cardinality(counted) > Limit - (Cardinality(Threads) - 1)
                /\ Cardinality(counted) > 1

(* The list is read after the lock is released, while other threads prune  *)
(* it and a sweep may drop it.  Still, unless the thread was held up for a *)
(* whole window since it stamped its own hit, or its list was swept out of *)
(* order, Retry-After is a real delay: at least a second and at most the   *)
(* window, and the read does not fail.                                     *)
RetryAfterSane ==
    \A t \in Threads :
        thr[t].step = "done" /\ now - thr[t].hit < Window /\ thr[t].ip \notin outOfOrder
            => thr[t].result \in 1..WindowSeconds
=============================================================================
