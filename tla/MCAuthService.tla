--------------------------- MODULE MCAuthService ---------------------------
(* Small instances of AuthService for TLC: calls and tokens are numbers.    *)
EXTENDS AuthService

\* Calls and tokens are interchangeable, so they are taken in order: a call
\* starts when the smaller ones have, the smallest unused token is minted.
\* Every behaviour is one of these with calls and tokens renamed, so nothing is
\* lost, not even for liveness (symmetry sets would be unsound for that).
InOrder ==
  /\ \A c, d \in Call : c < d /\ pc[c] = "idle" => pc'[d] = "idle"
  /\ \A t, u \in Token : t < u /\ t \notin Minted => u \notin Minted'
=============================================================================
