------------------------------ MODULE Findings ------------------------------
(***************************************************************************)
(* What the detectors report and how it is judged: calculate_risk()        *)
(* (utils/risk_engine.py), _is_suppressed() and _should_block()            *)
(* (proxy_app.py).  A finding is its attack type and its confidence; the   *)
(* patterns that produce it are abstracted to the pairs they can produce.  *)
(***************************************************************************)
EXTENDS Integers, FiniteSets, Sequences

CONSTANTS
    SuppressedIPs,      \* config/suppression.json: "ips", as the ips they match
    SuppressedPaths,    \* "paths", likewise
    SuppressedTypes     \* "attack_types"

\* What a detector may report: its attack type, with the confidence of the
\* pattern that matched first.
Reports(type, confidences) == {[type |-> type, confidence |-> c] : c \in confidences}

Sql         == Reports("SQL Injection", {"Very High", "High", "Medium"})
Xss         == Reports("Cross-Site Scripting (XSS)", {"Very High", "High"})
Traversal   == Reports("Path Traversal", {"Very High", "High"})
Enumeration == Reports("Directory Enumeration", {"Medium"})
Command     == Reports("Command Injection", {"Very High", "High"})
NoSql       == Reports("NoSQL Injection", {"Very High", "High"})
Ssrf        == Reports("SSRF", {"Very High", "High"})
Xxe         == Reports("XXE", {"Very High", "High"})

PreForwardDetectors == <<Sql, Xss, Traversal, Enumeration, Command, NoSql, Ssrf, Xxe>>

(* Every finding there can be before the request is forwarded. *)
PreForward == UNION {PreForwardDetectors[d] : d \in DOMAIN PreForwardDetectors}

(* run_pre_forward_detectors(): at most one finding per detector, in the   *)
(* order of the detectors.                                                 *)
Position(f) == CHOOSE d \in DOMAIN PreForwardDetectors : f \in PreForwardDetectors[d]
IsInspection(findings) ==
    /\ findings \in Seq(PreForward)
    /\ \A i, j \in DOMAIN findings : i < j => Position(findings[i]) < Position(findings[j])

(* What detect() and the preblock branch of proxy() report. *)
BruteForceDetected == [type |-> "Brute Force", confidence |-> "Very High"]
RepeatOffender == [type |-> "Brute Force", confidence |-> "High"]

AllFindings == PreForward \union {BruteForceDetected, RepeatOffender}

-----------------------------------------------------------------------------
BaseScore(type) ==
    CASE type = "SQL Injection" -> 85
      [] type = "Cross-Site Scripting (XSS)" -> 65
      [] type = "Path Traversal" -> 75
      [] type = "Brute Force" -> 70
      [] type = "Directory Enumeration" -> 40
      [] OTHER -> 50

ConfidenceModifier(confidence) ==
    CASE confidence = "Very High" -> 20
      [] confidence = "High" -> 10
      [] confidence = "Low" -> -15
      [] OTHER -> 0

RiskScore(f) ==
    LET raw == BaseScore(f.type) + ConfidenceModifier(f.confidence)
    IN  IF raw < 0 THEN 0 ELSE IF raw > 100 THEN 100 ELSE raw

Severity(f) ==
    CASE RiskScore(f) >= 80 -> "Critical"
      [] RiskScore(f) >= 60 /\ RiskScore(f) < 80 -> "High"
      [] RiskScore(f) >= 40 /\ RiskScore(f) < 60 -> "Medium"
      [] OTHER -> "Low"

(* BLOCK_SEVERITIES: the severities that alert and auto-block. *)
IsSevere(f) == Severity(f) \in {"Critical", "High"}

(* Findings are a sequence, in the order the detectors report them. *)
Types(findings) == {findings[i].type : i \in DOMAIN findings}

IsSuppressed(ip, path, findings) ==
    \/ ip \in SuppressedIPs
    \/ path \in SuppressedPaths
    \/ Types(findings) \cap SuppressedTypes # {}

ShouldBlock(ip, path, findings) ==
    /\ ~IsSuppressed(ip, path, findings)
    /\ \/ \E i \in DOMAIN findings : findings[i].confidence = "Very High"
       \/ Cardinality(Types(findings)) >= 2
=============================================================================
