---------------------------- MODULE MCRateLimiter ----------------------------
(* The instance of RateLimiter for TLC. *)
EXTENDS RateLimiter

CONSTANTS w1, w2, w3
=============================================================================
