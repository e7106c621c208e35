---------------------------- MODULE MC_RateLimiter ----------------------------
(* Thread names for the RateLimiter runs.                                   *)
EXTENDS RateLimiter

CONSTANTS t1, t2

MCTwoThreads == {t1, t2}
===============================================================================
