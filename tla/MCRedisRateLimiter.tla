------------------------- MODULE MCRedisRateLimiter -------------------------
(* RedisRateLimiter for TLC.                                               *)
EXTENDS RedisRateLimiter, TLC

\* Request threads are interchangeable within their process.
Symmetry == Permutations(FailOpenCallers) \cup Permutations(Callers \ FailOpenCallers)

=============================================================================
