--------------------------- MODULE MCRateLimiter ---------------------------
(* Small instances of RateLimiter for TLC. *)
EXTENDS RateLimiter, TLC

\* Requests and addresses are interchangeable.
Symmetry == Permutations(Request) \cup Permutations(Addr)
=============================================================================
