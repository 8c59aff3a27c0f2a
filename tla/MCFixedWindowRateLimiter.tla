---------------------- MODULE MCFixedWindowRateLimiter ----------------------
(* FixedWindowRateLimiter for TLC.                                         *)
EXTENDS FixedWindowRateLimiter, TLC

\* Threads are interchangeable, and so are rate keys.
Symmetry == Permutations(Callers) \cup Permutations(Keys)

=============================================================================
