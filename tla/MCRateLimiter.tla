---- MODULE MCRateLimiter ----
(* Two settings that call for different buckets, one by its default burst, *)
(* and one that turns the limit off; idle sessions are full just in time.  *)
EXTENDS RateLimiter, TLC

CONSTANTS s1, s2, c1, c2

MCConfigured == { [limit |-> 1, burst |-> 2], [limit |-> 2, burst |-> 0],
                  [limit |-> 0, burst |-> 1] }

Symmetric == Permutations(Sessions) \cup Permutations(Calls)
====
