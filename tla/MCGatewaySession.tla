-------------------------- MODULE MCGatewaySession --------------------------
(* A small instance of GatewaySession for TLC. *)
EXTENDS GatewaySession

\* Bounds: one token expires at most, none while a Redis attempt is on its way
\* late, and no attempt is late once one has; one response is lost at most.
FewFaults ==
    /\ Cardinality(expired) + Cardinality(late) <= 1
    /\ Cardinality({r \in Request : stage[r] = "lost"}) <= 1
=============================================================================
