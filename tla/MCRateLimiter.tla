-------------------------- MODULE MCRateLimiter ----------------------------
(***************************************************************************)
(* Instances of RateLimiter for TLC. Identities and threads are            *)
(* interchangeable.                                                        *)
(***************************************************************************)
EXTENDS RateLimiter, TLC

LimiterSymmetry == Permutations(Identities) \cup Permutations(Threads)
============================================================================
