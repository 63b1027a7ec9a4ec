---------------------------- MODULE MCRetention ----------------------------
(* Instances of Retention: both databases, requests kept longer or shorter *)
(* than incidents, and periods of no days.                                 *)
EXTENDS Retention, TLC

Keep(req, inc) == [req |-> req, inc |-> inc]
MCPolicies == {Keep(1, 2), Keep(2, 1), Keep(1, 0), Keep(0, -1)}

Symmetry == Permutations(Workers) \union Permutations(IPs)
=============================================================================
