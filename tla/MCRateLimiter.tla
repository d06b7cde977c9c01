--------------------------- MODULE MCRateLimiter ---------------------------
(* Instances of RateLimiter for model checking. *)
EXTENDS RateLimiter, TLC

Symmetric == Permutations(Threads)
=============================================================================
