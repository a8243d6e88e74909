--------------------------------- MODULE Edge ---------------------------------
(***************************************************************************)
(* What surrounds the services: the rate limiter in front of them and the  *)
(* cache behind them, each under a prefix of its own in Redis and each     *)
(* failing open with it, and the reads that span several statements.       *)
(***************************************************************************)
EXTENDS RateLimit, Cache, Reads

vars == <<limiter, cache, reads>>

Init == RateLimitInit /\ CacheInit /\ ReadsInit

Next ==
  \/ Limiter /\ UNCHANGED <<cache, reads>>
  \/ Cached /\ UNCHANGED <<limiter, reads>>
  \/ ReadsNext /\ UNCHANGED <<limiter, cache>>

Spec == Init /\ [][Next]_vars
==============================================================================
