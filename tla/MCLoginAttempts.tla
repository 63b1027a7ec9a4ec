--------------------------- MODULE MCLoginAttempts ---------------------------
(* A small instance of LoginAttempts: two workers, clients and ticks are   *)
(* interchangeable except for the clock, so workers and ips are symmetric. *)
EXTENDS LoginAttempts, TLC

Symmetry == Permutations(Workers) \union Permutations(IPs)
=============================================================================
