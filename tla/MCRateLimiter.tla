--------------------------- MODULE MCRateLimiter ---------------------------
(* A small instance of RateLimiter: two requests per window of two ticks.   *)
EXTENDS RateLimiter, TLC

MCRequestSymmetry == Permutations(Request)

=============================================================================
