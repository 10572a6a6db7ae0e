---------------------------- MODULE RequestPath ----------------------------
(***************************************************************************)
(* A request between a server and its handler: the middleware around the   *)
(* gateway's REST handlers (delivery/rest/middleware, delivery/metrics/    *)
(* middleware, pkg/httputil), the interceptors around the services' gRPC   *)
(* handlers (src/pkg/interceptors), and what they make of handlers that    *)
(* return, panic or take too long.                                         *)
(*                                                                         *)
(* On the REST server the layers are, from the outside in, Recoverer,      *)
(* Logger, Timeout, metrics, rate limiter, handler. Logger and metrics     *)
(* share one httputil.ResponseWriter, which lets the first WriteHeader     *)
(* through; Recoverer writes to the connection underneath. A gRPC handler  *)
(* is in Recoverer in Logger; the metrics server's has nothing around it.  *)
(***************************************************************************)
EXTENDS Naturals, FiniteSets

CONSTANT Request   \* requests to the servers of one process

VARIABLES
  on,          \* on[r]: the server r was sent to
  phase,       \* phase[r]: "inside" the handler, "over", or "cut" by the process' end
  late,        \* requests whose 15 seconds have passed
  status,      \* status[r]: StatusCode of the ResponseWriter; Logger logs it
  wire,        \* wire[r]: the status the client is sent
  counted,     \* counted[r]: the status http_requests_total has counted it with
  panicked,    \* requests whose handler has panicked
  active       \* the gauge http_active_requests

path == <<on, phase, late, status, wire, counted, panicked, active>>

PathInit ==
  /\ on = [r \in Request |-> "none"]
  /\ phase = [r \in Request |-> "none"]
  /\ late = {}
  /\ status = [r \in Request |-> "none"]
  /\ wire = [r \in Request |-> "none"]
  /\ counted = [r \in Request |-> "none"]
  /\ panicked = {}
  /\ active = 0

\* A new process has seen no request yet.
PathReset ==
  /\ on' = [r \in Request |-> "none"]
  /\ phase' = [r \in Request |-> "none"]
  /\ late' = {}
  /\ status' = [r \in Request |-> "none"]
  /\ wire' = [r \in Request |-> "none"]
  /\ counted' = [r \in Request |-> "none"]
  /\ panicked' = {}
  /\ active' = 0
-----------------------------------------------------------------------------
Inside(r, s) == phase[r] = "inside" /\ on[r] = s

\* The server hands r to the outermost layer.
Enter(r, s) ==
  /\ phase[r] = "none"
  /\ phase' = [phase EXCEPT ![r] = "inside"]
  /\ on' = [on EXCEPT ![r] = s]
  /\ active' = IF s = "rest" THEN active + 1 ELSE active
  /\ UNCHANGED <<late, status, wire, counted, panicked>>

(* The operators named ...Mutant are faulty variants of the definition that *)
(* follows them. No specification uses them: they show which fault each     *)
(* property finds.                                                          *)

\* Without wroteHeader the last code is remembered; net/http sends the first.
WriteHeaderLastMutant(r, code) ==
  /\ status' = [status EXCEPT ![r] = code]
  /\ wire' = [wire EXCEPT ![r] = IF @ = "none" THEN code ELSE @]

\* ResponseWriter.WriteHeader.
WriteHeader(r, code) ==
  IF wire[r] = "none"
    THEN /\ status' = [status EXCEPT ![r] = code]
         /\ wire' = [wire EXCEPT ![r] = code]
    ELSE UNCHANGED <<status, wire>>

\* The rate limiter or the handler writes; all of them do before they return.
Write(r) ==
  /\ Inside(r, "rest")
  /\ \E code \in {"ok", "failed"} : WriteHeader(r, code)
  /\ UNCHANGED <<on, phase, late, counted, panicked, active>>

\* The deadline of middleware.Timeout, which the handler need not notice.
Deadline(r) ==
  /\ Inside(r, "rest")
  /\ late' = late \cup {r}
  /\ UNCHANGED <<on, phase, status, wire, counted, panicked, active>>

\* The handler returns: metrics counts it, then Timeout writes 504 if it was
\* late and nobody has written, then Logger logs.
RestReturns(r) ==
  /\ Inside(r, "rest") /\ wire[r] # "none"
  /\ phase' = [phase EXCEPT ![r] = "over"]
  /\ active' = active - 1
  /\ counted' = [counted EXCEPT ![r] = status[r]]
  /\ IF r \in late THEN WriteHeader(r, "timeout") ELSE UNCHANGED <<status, wire>>
  /\ UNCHANGED <<on, late, panicked>>

\* The handler panics: only what is deferred runs, in metrics and in Timeout,
\* and Recoverer writes 500 if nothing was written.
RestPanics(r) ==
  /\ Inside(r, "rest")
  /\ phase' = [phase EXCEPT ![r] = "over"]
  /\ active' = active - 1
  /\ panicked' = panicked \cup {r}
  /\ IF r \in late THEN WriteHeader(r, "timeout")
       ELSE /\ wire' = [wire EXCEPT ![r] = IF @ = "none" THEN "internal" ELSE @]
            /\ UNCHANGED status
  /\ UNCHANGED <<on, late, counted>>

\* The interceptors: a gRPC handler's answer, or codes.Internal for its panic.
RpcEnds(r) ==
  /\ Inside(r, "grpc")
  /\ phase' = [phase EXCEPT ![r] = "over"]
  /\ \/ /\ \E code \in {"ok", "failed"} : wire' = [wire EXCEPT ![r] = code]
        /\ UNCHANGED panicked
     \/ /\ wire' = [wire EXCEPT ![r] = "internal"]
        /\ panicked' = panicked \cup {r}
  /\ UNCHANGED <<on, late, status, counted, active>>

\* The metrics server's handler returns.
ScrapeEnds(r) ==
  /\ Inside(r, "metrics")
  /\ phase' = [phase EXCEPT ![r] = "over"]
  /\ wire' = [wire EXCEPT ![r] = "ok"]
  /\ UNCHANGED <<on, late, status, counted, panicked, active>>

Handle(r) ==
  \/ Write(r)
  \/ Deadline(r)
  \/ RestReturns(r)
  \/ RestPanics(r)
  \/ RpcEnds(r)
  \/ ScrapeEnds(r)
-----------------------------------------------------------------------------
(* Properties.                                                             *)

\* The types of the variables.
PathTypeOK ==
  LET codes == {"none", "ok", "failed", "timeout", "internal"}
  IN  /\ on \in [Request -> {"none", "rest", "metrics", "grpc"}]
      /\ phase \in [Request -> {"none", "inside", "over", "cut"}]
      /\ late \subseteq Request
      /\ status \in [Request -> codes]
      /\ wire \in [Request -> codes]
      /\ counted \in [Request -> codes]
      /\ panicked \subseteq Request
      /\ active \in Nat

\* What is observed is what was sent: whatever returns, panics and deadlines
\* come together, a REST request that did not panic is counted and logged with
\* the status its client got, a panic is not counted but answered, and the
\* gauge comes back to the number of requests inside (Metrics.Middleware,
\* Logger.Middleware, ResponseWriter).
ObservedIsSent ==
  /\ \A r \in Request : on[r] = "rest" /\ phase[r] = "over" =>
       /\ wire[r] # "none"
       /\ r \notin panicked => counted[r] = wire[r] /\ status[r] = wire[r]
       /\ r \in panicked => counted[r] = "none"
  /\ active = Cardinality({r \in Request : on[r] = "rest" /\ phase[r] \in {"inside", "cut"}})
=============================================================================
