---------------------------- MODULE MCRateLimiter ----------------------------
(* Small instances of RateLimiter: two threads of the development server,  *)
(* or the one thread of a Gunicorn sync worker.                            *)
EXTENDS RateLimiter, TLC

Symmetry == Permutations(Threads)
=============================================================================
