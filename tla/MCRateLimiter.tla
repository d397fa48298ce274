---------------------------- MODULE MCRateLimiter ----------------------------
(* A small instance of RateLimiter for TLC. *)
EXTENDS RateLimiter, TLC

CONSTANTS a, b

TwoCallers == {a, b}

Symmetry == Permutations(Caller)
=============================================================================
