--------------------------- MODULE MCRateLimiter ---------------------------
(* Values for TLC: quotas of one and two requests in a window.             *)
EXTENDS RateLimiter, TLC

Symmetry == Permutations(Clients)

=============================================================================
