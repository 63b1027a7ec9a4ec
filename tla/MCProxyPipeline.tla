--------------------------- MODULE MCProxyPipeline ---------------------------
(* Small instances of ProxyPipeline: one client, two workers. *)
EXTENDS ProxyPipeline, TLC

CONSTANTS a, w1, w2

F(type, confidence) == [type |-> type, confidence |-> confidence]
Send(path, findings) == [ip |-> a, path |-> path, findings |-> findings, long |-> "nothing"]

\* A login, a severe but forwarded request, and a refused one.
MCTraffic ==
    {Send("/login", <<>>),
     Send("/page", <<F("SQL Injection", "High")>>),
     Send("/page", <<F("SQL Injection", "Very High"), F("Directory Enumeration", "Medium")>>)}

\* A login, a refused request, one with a user agent of over 300 characters,
\* and a login with a path of over 500.  A second failed login is a severe
\* finding.
MCSmallTraffic ==
    {Send("/login", <<>>),
     Send("/page", <<F("SQL Injection", "Very High"), F("Directory Enumeration", "Medium")>>),
     [Send("/page", <<>>) EXCEPT !.long = "agent"],
     [Send("/login", <<>>) EXCEPT !.long = "path"]}

Symmetry == Permutations(Workers)
=============================================================================
