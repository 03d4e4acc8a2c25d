---------------------------- MODULE MCRateLimiter ----------------------------
(* Instances of RateLimiter small enough for TLC.                           *)
EXTENDS RateLimiter, TLC

CONSTANTS t1, t2, ann, rob

LimiterSymmetry == Permutations(Threads) \cup Permutations(Subjects)

=============================================================================
