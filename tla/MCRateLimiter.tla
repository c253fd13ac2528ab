--------------------------- MODULE MCRateLimiter ---------------------------
(***************************************************************************)
(* RateLimiter for TLC.  Without errors a counter can exceed the limit by  *)
(* the other workers, and by one more for each request let through blind.  *)
(* No symmetry: a liveness property is checked.                            *)
(***************************************************************************)
EXTENDS RateLimiter
=============================================================================
