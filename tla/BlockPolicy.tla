----------------------------- MODULE BlockPolicy -----------------------------
(***************************************************************************)
(* The configuration of automatic blocks (utils/ip_blocklist.py), shared   *)
(* by the block list and by the request handler that composes it, and the  *)
(* bounds under which both are explored.                                   *)
(***************************************************************************)
EXTENDS Integers

CONSTANTS
    Workers,            \* processes and threads that serve requests
    IPs,                \* client addresses
    NoIP,               \* no address
    AutoThreshold,      \* WEBSENTINEL_AUTOBLOCK_THRESHOLD
    AutoWindow,         \* WEBSENTINEL_AUTOBLOCK_WINDOW_MINUTES, in ticks
    AutoDuration,       \* WEBSENTINEL_AUTOBLOCK_DURATION_MINUTES, in ticks
    AutoBlockEnabled,   \* WEBSENTINEL_AUTOBLOCK_ENABLED
    MaxTime,            \* bound on the clock
    MaxBatch,           \* bound on the findings of one request
    MaxIncidents        \* no incident is stored once there are this many

Permanent == -1         \* expires_at is null; also duration None

ASSUME NoIPAssumption == NoIP \notin IPs
ASSUME AutoThresholdPositive == AutoThreshold \in Nat \ {0}
ASSUME AutoWindowPositive == AutoWindow \in Nat \ {0}
ASSUME AutoDurationType == AutoDuration \in (Nat \ {0}) \union {Permanent}
ASSUME AutoBlockEnabledType == AutoBlockEnabled \in BOOLEAN
ASSUME BoundsNat == MaxTime \in Nat /\ MaxBatch \in Nat /\ MaxIncidents \in Nat
=============================================================================
