----------------------------- MODULE MCBlocklist -----------------------------
(* Instances of Blocklist: two workers, one of which may serve the admin.  *)
EXTENDS Blocklist, TLC

Symmetry == Permutations(Workers) \union Permutations(IPs)
=============================================================================
